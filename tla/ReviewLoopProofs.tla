--------------------------- MODULE ReviewLoopProofs --------------------------
(***************************************************************************)
(* Proofs about ReviewLoop for any files, limits, terms and number of      *)
(* outside changes.  What ties the stored context to the history also ties *)
(* the pipeline's snapshot to it: a snapshot is a stored context that was  *)
(* true when it was read, nothing but the pipeline's end adds to the       *)
(* history meanwhile, and what is saved at that end is the snapshot, with  *)
(* the verdict that is added to the history in the same step.              *)
(***************************************************************************)
EXTENDS ReviewLoop, TLAPS

\* A context's baseline stands for the last verdict: all of it was judged.
Stands(c, h) ==
    c.baseline # None =>
        /\ h.judged # None
        /\ c.status = h.judged.status
        /\ c.baseline.of.shown \subseteq h.judged.of.shown
        /\ c.baseline.of.print \subseteq h.judged.of.print
        /\ SameRange(c.baseline.of, h.judged.of)
        /\ c.baseline.key = h.judged.key
        /\ c.baseline.extras = h.judged.extras
        /\ c.exclusions = h.judged.exclusions

\* A context counts no less than what happened.
Counts(c, h) ==
    /\ h.runs <= c.rounds
    /\ h.blocks <= c.blockCount
    /\ h.toasts <= IF c.notified THEN 1 ELSE 0

Backed(c, h) == Stands(c, h) /\ Counts(c, h)

Apart(c) == c.priors \cap c.exclusions = {}

\* Where the pipeline is past the block cap.
PastCap == PCs \ {"idle", "head", "clean", "base"}

IInv ==
    /\ TypeOK
    /\ pc \in {"freeShow", "freePrint"} => free \in Payload
    /\ Backed(store, hist)
    /\ pc # "idle" => Backed(snap, hist)
    /\ Apart(store)
    /\ pc \in PastCap => ~BlockCapReached(req, snap)

-----------------------------------------------------------------------------
(* The stored context.                                                     *)

\* What saveContext writes, field by field.
LEMMA SavedIs ==
    ASSUME NEW cur \in Context, NEW s \in Context, NEW w \in Context
    PROVE  LET c == Saved(cur, s, w)
           IN  /\ c \in Context
               /\ c.exclusions = cur.exclusions
               /\ c.priors = w.priors \ cur.exclusions
               /\ c.rounds = w.rounds /\ c.blockCount = w.blockCount
               /\ c.notified = w.notified /\ c.status = w.status
               /\ c.baseline # None =>
                     c.baseline = w.baseline /\ cur.exclusions = s.exclusions
<1> DEFINE drifted == relisted \/ cur.exclusions # s.exclusions
           d == w.dirty \/ drifted
           b == IF drifted THEN None ELSE w.baseline
<1>1. Saved(cur, s, w) = [w EXCEPT !.exclusions = cur.exclusions,
                                   !.priors = w.priors \ cur.exclusions,
                                   !.dirty = d, !.baseline = b]
  BY DEF Saved, Context
<1>2. d \in BOOLEAN /\ b \in Baseline \cup {None}
  BY DEF Context
<1>3. b # None => b = w.baseline /\ cur.exclusions = s.exclusions
  OBVIOUS
<1> DEFINE c == [w EXCEPT !.exclusions = cur.exclusions,
                          !.priors = w.priors \ cur.exclusions,
                          !.dirty = d, !.baseline = b]
<1> HIDE DEF drifted, d, b
<1>4. c \in Context
  BY <1>2 DEF Context
<1>5. /\ c.exclusions = cur.exclusions
      /\ c.priors = w.priors \ cur.exclusions
      /\ c.rounds = w.rounds /\ c.blockCount = w.blockCount
      /\ c.notified = w.notified /\ c.status = w.status
      /\ c.baseline = b
  BY DEF Context
<1> QED
  BY <1>1, <1>3, <1>4, <1>5

\* It leaves the context apart from its exclusions, and true of the history
\* if what it writes was, under the exclusion list of the snapshot.
LEMMA SavedBacked ==
    ASSUME NEW cur \in Context, NEW s \in Context, NEW w \in Context, NEW h,
           Backed(w, h), w.exclusions = s.exclusions
    PROVE  /\ Saved(cur, s, w) \in Context
           /\ Backed(Saved(cur, s, w), h)
           /\ Apart(Saved(cur, s, w))
<1> DEFINE c == Saved(cur, s, w)
<1>1. /\ c \in Context
      /\ c.exclusions = cur.exclusions
      /\ c.priors = w.priors \ cur.exclusions
      /\ c.rounds = w.rounds /\ c.blockCount = w.blockCount
      /\ c.notified = w.notified /\ c.status = w.status
      /\ c.baseline # None =>
            c.baseline = w.baseline /\ cur.exclusions = s.exclusions
  BY SavedIs
<1> HIDE DEF c
<1>2. Stands(c, h)
  BY <1>1 DEF Backed, Stands
<1>3. Counts(c, h)
  BY <1>1 DEF Backed, Counts
<1>4. Apart(c)
  BY <1>1 DEF Apart
<1> QED
  BY <1>1, <1>2, <1>3, <1>4 DEF Backed, c

\* An answer adds a block or a notice to the history, and nothing else.
LEMMA ToldIs ==
    ASSUME NEW h \in History, NEW r \in Request, NEW kind,
           NEW notify \in BOOLEAN
    PROVE  LET t == Told(h, r, kind, notify)
           IN  /\ t \in History
               /\ t.judged = h.judged /\ t.runs = h.runs
               /\ t.blocks = IF r.stop /\ kind \in {"ISSUES", "NO_PROGRESS"}
                             THEN h.blocks + 1 ELSE h.blocks
               /\ t.toasts <= IF notify THEN h.toasts + 1 ELSE h.toasts
<1> DEFINE b == IF r.stop /\ kind \in {"ISSUES", "NO_PROGRESS"}
                THEN h.blocks + 1 ELSE h.blocks
           n == IF notify /\ h.toasts < 2 THEN h.toasts + 1 ELSE h.toasts
<1>1. Told(h, r, kind, notify) = [h EXCEPT !.blocks = b, !.toasts = n]
  BY DEF Told, History
<1>2. /\ h.blocks \in Nat /\ h.toasts \in Nat
      /\ h \in History
  BY DEF History
<1>3. b \in Nat /\ n \in Nat /\ n <= IF notify THEN h.toasts + 1 ELSE h.toasts
  BY <1>2
<1> HIDE DEF b, n
<1>4. [h EXCEPT !.blocks = b, !.toasts = n] \in History
  BY <1>2, <1>3 DEF History
<1>5. /\ [h EXCEPT !.blocks = b, !.toasts = n].judged = h.judged
      /\ [h EXCEPT !.blocks = b, !.toasts = n].runs = h.runs
      /\ [h EXCEPT !.blocks = b, !.toasts = n].blocks = b
      /\ [h EXCEPT !.blocks = b, !.toasts = n].toasts = n
  BY <1>2 DEF History
<1> QED
  BY <1>1, <1>3, <1>4, <1>5 DEF b

-----------------------------------------------------------------------------
(* Payloads.                                                               *)

LEMMA BlankType ==
    ASSUME repo \in Repository
    PROVE  Blank(repo.head) \in Payload
BY DEF Blank, Payload, Repository

LEMMA ShownType ==
    ASSUME repo \in Repository, NEW p \in Payload, NEW priors \in SUBSET File
    PROVE  Shown(p, priors) \in Payload
<1> DEFINE tree == IF InRange(p.head) THEN repo.ahead ELSE repo.tree
           changes == ChangesIn(tree)
           base == IF InRange(p.head) THEN repo.base ELSE None
           before(f) == {g \in PathsOf(changes) \ priors : g < f}
           shown == {c \in changes : \/ c[1] \in priors
                                     \/ Cardinality(before(c[1])) < MaxFiles}
           listed == PathsOf(changes)
<1>1. tree \in Tree /\ base \in Nat \cup {None}
  BY DEF Repository
<1>2. changes \subseteq Change
  <2> HIDE DEF tree
  <2> QED
    BY <1>1 DEF Tree, ChangesIn, Change
<1>3. listed \subseteq File
  <2> HIDE DEF changes
  <2> QED
    BY <1>2 DEF PathsOf, Change
<1>4. shown \subseteq Change
  BY <1>2
<1>5. Shown(p, priors) = [p EXCEPT !.base = base, !.listed = listed,
                                   !.shown = shown, !.context = priors \ listed]
  BY DEF Shown
<1> HIDE DEF tree, changes, base, shown, listed
<1> QED
  BY <1>1, <1>3, <1>4, <1>5 DEF Payload

LEMMA PrintedType ==
    ASSUME repo \in Repository, NEW p \in Payload
    PROVE  Printed(p) \in Payload
<1> DEFINE print == {<<f, repo.tree[f]>> : f \in p.listed \cup p.context}
<1>1. print \subseteq File \X (0 .. Versions)
  BY DEF Payload, Repository, Tree
<1>2. Printed(p) = [p EXCEPT !.print = print]
  BY DEF Printed
<1> HIDE DEF print
<1> QED
  BY <1>1, <1>2 DEF Payload

LEMMA BaselineIs ==
    ASSUME NEW p \in Payload, NEW r \in Request
    PROVE  LET b == BaselineOf(p, r)
               slow == [b EXCEPT !.fast = FALSE]
           IN  /\ b \in Baseline /\ slow \in Baseline
               /\ b.of = p /\ b.key = r.key /\ b.extras = r.extras
               /\ slow.of = p /\ slow.key = r.key /\ slow.extras = r.extras
BY DEF BaselineOf, Baseline, Request

-----------------------------------------------------------------------------
(* How a pipeline ends.                                                    *)

\* What is saved besides an answer is backed if it counts the answer.
LEMMA StaysBacked ==
    ASSUME NEW c \in Context, NEW w \in Context, NEW h \in History,
           NEW r \in Request, NEW kind, NEW notify \in BOOLEAN,
           Backed(c, h),
           w.baseline = c.baseline, w.status = c.status,
           w.exclusions = c.exclusions, w.rounds >= c.rounds,
           w.blockCount >= IF r.stop /\ kind \in {"ISSUES", "NO_PROGRESS"}
                           THEN c.blockCount + 1 ELSE c.blockCount,
           c.notified => w.notified, notify => ~c.notified /\ w.notified
    PROVE  Backed(w, Told(h, r, kind, notify))
<1> DEFINE t == Told(h, r, kind, notify)
<1>1. /\ t \in History
      /\ t.judged = h.judged /\ t.runs = h.runs
      /\ t.blocks = IF r.stop /\ kind \in {"ISSUES", "NO_PROGRESS"}
                    THEN h.blocks + 1 ELSE h.blocks
      /\ t.toasts <= IF notify THEN h.toasts + 1 ELSE h.toasts
  BY ToldIs
<1> HIDE DEF t
<1>2. Stands(w, t)
  BY <1>1 DEF Backed, Stands
<1>3. t.runs <= w.rounds /\ t.blocks <= w.blockCount
  BY <1>1 DEF Backed, Counts, Context, History
<1>4. t.toasts <= IF w.notified THEN 1 ELSE 0
  BY <1>1 DEF Backed, Counts, Context, History
<1> QED
  BY <1>2, <1>3, <1>4 DEF Backed, Counts, t

\* After an answer only the stored context and the history are left.
LEMMA Ended ==
    ASSUME NEW h \in History, NEW r \in Request, NEW kind, NEW found,
           NEW notify \in BOOLEAN,
           Reply(h, r, kind, found, notify),
           repo' \in Repository, store' \in Context,
           Backed(store', Told(h, r, kind, notify)), Apart(store')
    PROVE  IInv'
<1>1. hist' = Told(h, r, kind, notify) /\ hist' \in History
  BY ToldIs DEF Reply
<1>2. pc' = "idle" /\ free' = None /\ relisted' = FALSE
  BY DEF Reply
<1>3. TypeOK'
  BY <1>1, <1>2 DEF TypeOK, PCs
<1> QED
  BY <1>1, <1>2, <1>3 DEF IInv, PastCap, Apart

\* An answer at a cap.
LEMMA Refused ==
    ASSUME NEW h \in History, NEW cur \in Context, NEW s \in Context,
           NEW r \in Request, NEW kind \in {"MAX_BLOCKS", "MAX_ROUNDS"},
           Backed(cur, h), Apart(cur), Backed(s, h),
           RefuseAtCap(h, cur, s, r, kind), repo' \in Repository
    PROVE  IInv'
<1> DEFINE notify == r.stop /\ ~s.notified
           w == [s EXCEPT !.notified = TRUE]
<1>1. /\ store' = IF notify THEN Saved(cur, s, w) ELSE cur
      /\ Reply(h, r, kind, {}, notify)
  BY DEF RefuseAtCap, NotifyUser
<1>2. /\ w \in Context /\ w.baseline = s.baseline /\ w.status = s.status
      /\ w.exclusions = s.exclusions /\ w.rounds = s.rounds
      /\ w.blockCount = s.blockCount /\ w.notified
  BY DEF Context
<1>3. notify \in BOOLEAN /\ (notify => ~s.notified)
  BY DEF Request, Context
<1>4. /\ w.rounds >= s.rounds /\ cur.rounds >= cur.rounds
      /\ w.blockCount >= IF r.stop /\ kind \in {"ISSUES", "NO_PROGRESS"}
                         THEN s.blockCount + 1 ELSE s.blockCount
      /\ cur.blockCount >= IF r.stop /\ kind \in {"ISSUES", "NO_PROGRESS"}
                           THEN cur.blockCount + 1 ELSE cur.blockCount
  BY <1>2 DEF Context
<1> HIDE DEF notify, w
<1>5. CASE notify
  <2>1. Backed(w, Told(h, r, kind, notify))
    BY <1>2, <1>3, <1>4, <1>5, StaysBacked
  <2>2. /\ store' \in Context /\ Apart(store')
        /\ Backed(store', Told(h, r, kind, notify))
    BY <1>1, <1>2, <1>5, <2>1, SavedBacked
  <2> QED
    BY <1>1, <1>3, <2>2, Ended
<1>6. CASE ~notify
  <2>1. Backed(cur, Told(h, r, kind, notify))
    BY <1>3, <1>4, <1>6, StaysBacked
  <2> QED
    BY <1>1, <1>3, <1>6, <2>1, Ended
<1> QED
  BY <1>5, <1>6

\* The step past the fast path.
LEMMA PreCapKeeps ==
    ASSUME IInv,
           NEW h \in History, NEW cur \in Context, NEW s \in Context,
           NEW r \in Request, Backed(cur, h), Apart(cur), Backed(s, h),
           PreCap(h, cur, s, r), repo' \in Repository
    PROVE  IInv'
<1>1. CASE BlockCapReached(r, s)
  BY <1>1, Refused DEF PreCap
<1>2. CASE ~BlockCapReached(r, s)
  <2>1. /\ store' = cur /\ hist' = h
        /\ pc' = "build" /\ req' = r /\ snap' = s /\ free' = free
        /\ relisted' = (pc # "idle" /\ relisted)
    BY <1>2 DEF PreCap
  <2>2. relisted' \in BOOLEAN /\ free' \in Payload \cup {None}
    BY <2>1 DEF IInv, TypeOK
  <2>3. TypeOK'
    BY <2>1, <2>2 DEF TypeOK, PCs
  <2>4. ~BlockCapReached(req', snap')
    BY <1>2, <2>1
  <2> QED
    BY <2>1, <2>3, <2>4 DEF IInv, Apart, BlockCapReached
<1> QED
  BY <1>1, <1>2

\* An answer that saves nothing.
LEMMA RepliedOnly ==
    ASSUME IInv, pc # "idle", NEW found,
           NEW kind \in {"NO_CHANGES", "EMPTY", "FAILED", "CACHED_ERROR"},
           Reply(hist, req, kind, found, FALSE),
           store' = store, repo' \in Repository
    PROVE  IInv'
<1>1. /\ store \in Context /\ hist \in History /\ req \in Request
      /\ Backed(store, hist) /\ Apart(store)
  BY DEF IInv, TypeOK
<1>2. store.rounds \in Nat /\ store.blockCount \in Nat
  BY <1>1 DEF Context
<1>3. /\ store.rounds >= store.rounds
      /\ store.blockCount >= IF req.stop /\ kind \in {"ISSUES", "NO_PROGRESS"}
                             THEN store.blockCount + 1 ELSE store.blockCount
      /\ FALSE \in BOOLEAN
  BY <1>2
<1>4. Backed(store, Told(hist, req, kind, FALSE))
  BY <1>1, <1>3, StaysBacked
<1> QED
  BY <1>1, <1>4, Ended
-----------------------------------------------------------------------------
(* Every step keeps the invariant.                                         *)

LEMMA InitIInv == Init => IInv
<1> SUFFICES ASSUME Init PROVE IInv
  OBVIOUS
<1>1. store \in Context /\ store.baseline = None
  BY DEF Init, BlankContext, Context
<1>2. hist \in History /\ Counts(store, hist) /\ Apart(store)
  BY DEF Init, BlankContext, NoHistory, History, Counts, Apart
<1>3. repo \in Repository
  BY VersionsAssumption DEF Init, Repository, Tree, Clean
<1> QED
  BY <1>1, <1>2, <1>3 DEF Init, IInv, TypeOK, PCs, PastCap, Backed, Stands

LEMMA StutterKeeps ==
    ASSUME IInv, UNCHANGED vars
    PROVE  IInv'
BY DEF IInv, TypeOK, vars, Backed, Stands, Counts, SameRange, Apart,
       BlockCapReached

LEMMA BeginKeeps ==
    ASSUME IInv, Begin
    PROVE  IInv'
<1>1. PICK r \in Request, idle \in BOOLEAN :
        LET s == IF idle THEN IdleReset(store) ELSE store
            h == IF idle THEN [hist EXCEPT !.runs = 0, !.blocks = 0] ELSE hist
        IN  /\ pc = "idle"
            /\ UNCHANGED repo
            /\ IF FastPathEligible(r, s)
               THEN /\ pc' = "head" /\ req' = r /\ snap' = s /\ store' = s
                    /\ hist' = h /\ relisted' = FALSE
                    /\ UNCHANGED <<payload, free, answer, outside>>
               ELSE PreCap(h, s, s, r)
  BY DEF Begin
<1> DEFINE s == IF idle THEN IdleReset(store) ELSE store
           h == IF idle THEN [hist EXCEPT !.runs = 0, !.blocks = 0] ELSE hist
<1>2. /\ store \in Context /\ hist \in History /\ Backed(store, hist)
      /\ Apart(store) /\ repo \in Repository /\ free \in Payload \cup {None}
  BY DEF IInv, TypeOK
<1>3. /\ IdleReset(store) \in Context
      /\ IdleReset(store).rounds = 0 /\ IdleReset(store).blockCount = 0
      /\ IdleReset(store).baseline = store.baseline
      /\ IdleReset(store).status = store.status
      /\ IdleReset(store).exclusions = store.exclusions
      /\ IdleReset(store).priors = store.priors
      /\ IdleReset(store).notified = store.notified
  BY <1>2 DEF IdleReset, Context
<1>4. /\ [hist EXCEPT !.runs = 0, !.blocks = 0] \in History
      /\ [hist EXCEPT !.runs = 0, !.blocks = 0].runs = 0
      /\ [hist EXCEPT !.runs = 0, !.blocks = 0].blocks = 0
      /\ [hist EXCEPT !.runs = 0, !.blocks = 0].judged = hist.judged
      /\ [hist EXCEPT !.runs = 0, !.blocks = 0].toasts = hist.toasts
  BY <1>2 DEF History
<1>5. s \in Context /\ h \in History /\ Backed(s, h) /\ Apart(s)
  BY <1>2, <1>3, <1>4 DEF Backed, Stands, Counts, Apart
<1> HIDE DEF s, h
<1>6. CASE FastPathEligible(r, s)
  <2>1. /\ pc' = "head" /\ req' = r /\ snap' = s /\ store' = s
        /\ hist' = h /\ relisted' = FALSE /\ free' = free /\ repo' = repo
    BY <1>1, <1>6 DEF s, h
  <2>2. TypeOK'
    BY <1>2, <1>5, <2>1 DEF TypeOK, PCs
  <2> QED
    BY <1>5, <2>1, <2>2 DEF IInv, PastCap, Apart
<1>7. CASE ~FastPathEligible(r, s)
  <2>1. PreCap(h, s, s, r) /\ repo' \in Repository
    BY <1>1, <1>2, <1>7 DEF s, h
  <2> QED
    BY <1>5, <2>1, PreCapKeeps
<1> QED
  BY <1>6, <1>7

\* What the pipeline has while it runs.
LEMMA Running ==
    ASSUME IInv, pc # "idle"
    PROVE  /\ repo \in Repository /\ store \in Context /\ hist \in History
           /\ req \in Request /\ snap \in Context /\ free \in Payload \cup {None}
           /\ relisted \in BOOLEAN
           /\ Backed(store, hist) /\ Backed(snap, hist) /\ Apart(store)
BY DEF IInv, TypeOK

LEMMA FastPathKeeps ==
    ASSUME IInv, NEW at \in {"head", "clean", "base"}, NEW holds,
           NEW next \in {"clean", "base", "done"}, FastPath(at, holds, next)
    PROVE  IInv'
<1>1. pc = at /\ pc # "idle" /\ repo' = repo
  BY DEF FastPath
<1>2. CASE PreCap(hist, store, snap, req)
  BY <1>1, <1>2, Running, PreCapKeeps
<1>3. CASE Reply(hist, req, "NO_CHANGES", {}, FALSE) /\ UNCHANGED store
  BY <1>1, <1>3, Running, RepliedOnly
<1>4. CASE /\ pc' = next /\ next # "done"
           /\ UNCHANGED <<store, req, snap, relisted, payload, free,
                          answer, confirmed, hist, outside>>
  <2>1. TypeOK'
    BY <1>1, <1>4, Running DEF TypeOK, PCs
  <2> QED
    BY <1>1, <1>4, <2>1, Running DEF IInv, PastCap, Apart
<1> QED
  BY <1>2, <1>3, <1>4 DEF FastPath

\* A step of a build, which touches the payloads only.
LEMMA Built ==
    ASSUME IInv, pc \in PastCap, pc' \in PastCap, UNCHANGED rest,
           pc' # "build" => payload' \in Payload,
           free' \in Payload \cup {None},
           pc' \in {"freeShow", "freePrint"} => free' \in Payload
    PROVE  IInv'
<1>1. /\ repo' = repo /\ store' = store /\ req' = req /\ snap' = snap
      /\ hist' = hist /\ relisted' = relisted
  BY DEF rest
<1>2. pc # "idle" /\ pc' # "idle" /\ pc' \in PCs
  BY DEF PastCap
<1>3. TypeOK'
  BY <1>1, <1>2, Running DEF TypeOK
<1>4. ~BlockCapReached(req', snap')
  BY <1>1 DEF IInv
<1> QED
  BY <1>1, <1>2, <1>3, <1>4, Running DEF IInv, Apart, BlockCapReached

LEMMA BuildKeeps ==
    ASSUME IInv, BuildHead \/ BuildPrompt \/ FreeHead \/ FreePrompt
                   \/ FreePrint \/ FreeFails
    PROVE  IInv'
<1>1. CASE BuildHead
  <2>1. payload' \in Payload
    BY <1>1, BlankType DEF BuildHead, IInv, TypeOK
  <2> QED
    BY <1>1, <2>1, Built DEF BuildHead, PastCap, PCs, IInv, TypeOK
<1>2. CASE BuildPrompt
  <2>1. payload \in Payload /\ snap.priors \in SUBSET File /\ repo \in Repository
    BY <1>2 DEF BuildPrompt, IInv, TypeOK, Context
  <2>2. payload' \in Payload
    BY <1>2, <2>1, ShownType DEF BuildPrompt
  <2> QED
    BY <1>2, <2>2, Built DEF BuildPrompt, PastCap, PCs, IInv, TypeOK
<1>3. CASE FreeHead
  <2>1. free' \in Payload
    BY <1>3, BlankType DEF FreeHead, IInv, TypeOK
  <2> QED
    BY <1>3, <2>1, Built DEF FreeHead, PastCap, PCs, IInv, TypeOK
<1>4. CASE FreePrompt
  <2>1. free \in Payload /\ {} \in SUBSET File /\ repo \in Repository
    BY <1>4 DEF FreePrompt, IInv, TypeOK
  <2>2. free' \in Payload
    BY <1>4, <2>1, ShownType DEF FreePrompt
  <2> QED
    BY <1>4, <2>2, Built DEF FreePrompt, PastCap, PCs, IInv, TypeOK
<1>5. CASE FreePrint
  <2>1. free \in Payload /\ repo \in Repository
    BY <1>5 DEF FreePrint, IInv, TypeOK
  <2>2. free' \in Payload
    BY <1>5, <2>1, PrintedType DEF FreePrint
  <2> QED
    BY <1>5, <2>2, Built DEF FreePrint, PastCap, PCs, IInv, TypeOK
<1>6. CASE FreeFails
  BY <1>6, Built DEF FreeFails, PastCap, PCs, IInv, TypeOK
<1> QED
  BY <1>1, <1>2, <1>3, <1>4, <1>5, <1>6

LEMMA NoProgressKeeps ==
    ASSUME IInv, pc = "print", NoProgress, repo' = repo
    PROVE  IInv'
<1> DEFINE w == [snap EXCEPT !.blockCount = @ + 1, !.reviewed = TRUE]
<1>1. /\ store' = IF req.stop THEN Saved(store, snap, w) ELSE store
      /\ Reply(hist, req, "NO_PROGRESS", snap.priors, FALSE)
  BY DEF NoProgress
<1>2. /\ snap \in Context /\ store \in Context /\ hist \in History
      /\ req \in Request /\ Backed(store, hist) /\ Backed(snap, hist)
      /\ Apart(store) /\ repo' \in Repository
  BY Running
<1>3. /\ snap.rounds \in Nat /\ snap.blockCount + 1 \in Nat
      /\ store.rounds \in Nat /\ store.blockCount \in Nat
  BY <1>2 DEF Context
<1>4. w \in Context
  BY <1>2, <1>3 DEF Context
<1>5. /\ w.baseline = snap.baseline /\ w.status = snap.status
      /\ w.exclusions = snap.exclusions /\ w.rounds = snap.rounds
      /\ w.blockCount = snap.blockCount + 1 /\ w.notified = snap.notified
  BY <1>2 DEF Context
<1>6. /\ w.rounds >= snap.rounds /\ w.blockCount >= snap.blockCount + 1
      /\ store.rounds >= store.rounds /\ store.blockCount >= store.blockCount
  BY <1>3, <1>5
<1> HIDE DEF w
<1>7. CASE req.stop
  <2>1. Backed(w, Told(hist, req, "NO_PROGRESS", FALSE))
    BY <1>2, <1>6, <1>7, <1>4, <1>5, StaysBacked
  <2>2. /\ store' \in Context /\ Apart(store')
        /\ Backed(store', Told(hist, req, "NO_PROGRESS", FALSE))
    BY <1>1, <1>2, <1>7, <1>4, <1>5, <2>1, SavedBacked
  <2> QED
    BY <1>1, <1>2, <2>2, Ended
<1>8. CASE ~req.stop
  <2>1. Backed(store, Told(hist, req, "NO_PROGRESS", FALSE))
    BY <1>2, <1>6, <1>8, StaysBacked
  <2> QED
    BY <1>1, <1>2, <1>8, <2>1, Ended
<1> QED
  BY <1>7, <1>8

LEMMA ErrorCachedKeeps ==
    ASSUME IInv, pc = "print", ErrorCached, repo' = repo
    PROVE  IInv'
<1> DEFINE notify == req.stop /\ ~snap.notified
           noted == snap.notified \/ notify
           w == [snap EXCEPT !.blockCount = @ + 1, !.reviewed = TRUE,
                             !.notified = noted]
<1>1. /\ store' = IF req.stop THEN Saved(store, snap, w) ELSE store
      /\ Reply(hist, req, "CACHED_ERROR", {}, notify)
  BY Running DEF ErrorCached, NotifyUser, Context
<1>2. /\ snap \in Context /\ store \in Context /\ hist \in History
      /\ req \in Request /\ Backed(store, hist) /\ Backed(snap, hist)
      /\ Apart(store) /\ repo' \in Repository
  BY Running
<1>3. /\ notify \in BOOLEAN /\ noted \in BOOLEAN
      /\ (snap.notified => noted) /\ (notify => ~snap.notified /\ noted)
      /\ (notify => req.stop)
  BY <1>2 DEF Context, Request
<1> HIDE DEF notify, noted
<1>4. /\ snap.rounds \in Nat /\ snap.blockCount \in Nat
      /\ snap.blockCount + 1 \in Nat
  BY <1>2 DEF Context
<1>5. w \in Context
  BY <1>2, <1>3, <1>4 DEF Context
<1>6. /\ w.baseline = snap.baseline /\ w.status = snap.status
      /\ w.exclusions = snap.exclusions /\ w.rounds = snap.rounds
      /\ w.blockCount = snap.blockCount + 1 /\ w.notified = noted
  BY <1>2, <1>3 DEF Context
<1>7. w.rounds >= snap.rounds /\ w.blockCount >= snap.blockCount
  BY <1>4, <1>6
<1> HIDE DEF w
<1>8. CASE req.stop
  <2>1. Backed(w, Told(hist, req, "CACHED_ERROR", notify))
    BY <1>2, <1>3, <1>7, <1>5, <1>6, StaysBacked
  <2>2. /\ store' \in Context /\ Apart(store')
        /\ Backed(store', Told(hist, req, "CACHED_ERROR", notify))
    BY <1>1, <1>2, <1>8, <1>5, <1>6, <2>1, SavedBacked
  <2> QED
    BY <1>1, <1>2, <1>3, <2>2, Ended
<1>9. CASE ~req.stop
  <2>1. notify = FALSE
    BY <1>3, <1>9
  <2> QED
    BY <1>1, <1>2, <1>9, <2>1, RepliedOnly
<1> QED
  BY <1>8, <1>9

LEMMA BuildPrintKeeps ==
    ASSUME IInv, BuildPrint
    PROVE  IInv'
<1> DEFINE p == Printed(payload)
<1>1. pc = "print" /\ repo' = repo
  BY DEF BuildPrint
<1>2. p \in Payload
  BY <1>1, PrintedType DEF IInv, TypeOK
<1>3. CASE UNCHANGED store /\ Reply(hist, req, "EMPTY", {}, FALSE)
  BY <1>1, <1>3, Running, RepliedOnly
<1>4. CASE UNCHANGED store /\ Reply(hist, req, "NO_CHANGES", {}, FALSE)
  BY <1>1, <1>4, Running, RepliedOnly
<1>5. CASE NoProgress
  BY <1>1, <1>5, NoProgressKeeps
<1>6. CASE ErrorCached
  BY <1>1, <1>6, ErrorCachedKeeps
<1>7. CASE RefuseAtCap(hist, store, snap, req, "MAX_ROUNDS")
  BY <1>1, <1>7, Running, Refused
<1>8. CASE Launch(p)
  <2> HIDE DEF p
  <2> QED
    BY <1>1, <1>2, <1>8, Running, Built DEF Launch, PastCap, PCs
<1> QED
  BY <1>3, <1>4, <1>5, <1>6, <1>7, <1>8 DEF BuildPrint

\* What a pass caches is one of three baselines, each of which the reviewer
\* saw all of.
LEMMA PassedIs ==
    ASSUME payload \in Payload, free \in Payload \cup {None}, req \in Request
    PROVE  /\ PassedBaseline \in Baseline
           /\ PassedBaseline.of.shown \subseteq payload.shown
           /\ PassedBaseline.of.print \subseteq payload.print
           /\ SameRange(PassedBaseline.of, payload)
           /\ PassedBaseline.key = req.key
           /\ PassedBaseline.extras = req.extras
<1>1. /\ BaselineOf(payload, req) \in Baseline
      /\ [BaselineOf(payload, req) EXCEPT !.fast = FALSE] \in Baseline
      /\ BaselineOf(payload, req).of = payload
      /\ BaselineOf(payload, req).key = req.key
      /\ BaselineOf(payload, req).extras = req.extras
      /\ [BaselineOf(payload, req) EXCEPT !.fast = FALSE].of = payload
      /\ [BaselineOf(payload, req) EXCEPT !.fast = FALSE].key = req.key
      /\ [BaselineOf(payload, req) EXCEPT !.fast = FALSE].extras = req.extras
  BY BaselineIs
<1>2. \/ PassedBaseline = BaselineOf(payload, req)
      \/ PassedBaseline = [BaselineOf(payload, req) EXCEPT !.fast = FALSE]
      \/ /\ PassedBaseline = BaselineOf(free, req)
         /\ free # None /\ ShowsNothingUnreviewed(free, payload)
  BY DEF PassedBaseline
<1>3. CASE \/ PassedBaseline = BaselineOf(payload, req)
           \/ PassedBaseline = [BaselineOf(payload, req) EXCEPT !.fast = FALSE]
  BY <1>1, <1>3 DEF SameRange
<1>4. CASE /\ PassedBaseline = BaselineOf(free, req)
           /\ free # None /\ ShowsNothingUnreviewed(free, payload)
  <2>1. /\ BaselineOf(free, req) \in Baseline
        /\ BaselineOf(free, req).of = free
        /\ BaselineOf(free, req).key = req.key
        /\ BaselineOf(free, req).extras = req.extras
    BY <1>4, BaselineIs
  <2> QED
    BY <1>4, <2>1 DEF ShowsNothingUnreviewed
<1> QED
  BY <1>2, <1>3, <1>4

\* A judgement is what the reviewer was given.
LEMMA JudgedIs ==
    ASSUME payload \in Payload, req \in Request, snap \in Context,
           NEW status \in {"PASS", "ISSUES", "ESCALATE"}
    PROVE  /\ Judged(status) \in Judgement
           /\ Judged(status) # None
           /\ Judged(status).status = status /\ Judged(status).of = payload
           /\ Judged(status).key = req.key
           /\ Judged(status).extras = req.extras
           /\ Judged(status).exclusions = snap.exclusions
<1>1. Judged(status) \in Judgement
  BY DEF Judged, Judgement, Request, Context
<1> QED
  BY <1>1, NoneAssumption DEF Judged
\* A verdict or a cached failure that is saved stands for itself.
LEMMA JudgedBacked ==
    ASSUME payload \in Payload, req \in Request, snap \in Context,
           NEW status \in {"PASS", "ISSUES", "ESCALATE"},
           NEW w \in Context, NEW h \in History, Counts(w, h),
           h.judged = Judged(status), w.status = status,
           w.baseline.of.shown \subseteq payload.shown,
           w.baseline.of.print \subseteq payload.print,
           SameRange(w.baseline.of, payload),
           w.baseline.key = req.key, w.baseline.extras = req.extras,
           w.exclusions = snap.exclusions
    PROVE  Backed(w, h)
<1>1. /\ Judged(status) # None
      /\ Judged(status).status = status /\ Judged(status).of = payload
      /\ Judged(status).key = req.key
      /\ Judged(status).extras = req.extras
      /\ Judged(status).exclusions = snap.exclusions
  BY JudgedIs
<1> QED
  BY <1>1 DEF Backed, Stands

LEMMA ReviewerFailsKeeps ==
    ASSUME IInv, ReviewerFails
    PROVE  IInv'
<1> DEFINE notify == req.stop /\ ~snap.notified
           noted == snap.notified \/ notify
           run == [snap EXCEPT !.rounds = @ + 1, !.reviewed = TRUE,
                               !.notified = noted]
           failed == [run EXCEPT !.baseline = BaselineOf(payload, req),
                                 !.status = "ESCALATE"]
           again == [hist EXCEPT !.runs = @ + 1]
           cached == [hist EXCEPT !.runs = @ + 1, !.judged = Judged("ESCALATE")]
<1>1. pc = "review" /\ repo' = repo
  BY DEF ReviewerFails
<1>2. /\ snap \in Context /\ store \in Context /\ hist \in History
      /\ req \in Request /\ Backed(store, hist) /\ Backed(snap, hist)
      /\ Apart(store) /\ repo' \in Repository /\ payload \in Payload
  BY <1>1, Running DEF IInv, TypeOK
<1>3. \/ /\ store' = Saved(store, snap, run)
         /\ Reply(again, req, "ERROR", {}, notify)
      \/ /\ store' = Saved(store, snap, failed)
         /\ Reply(cached, req, "ERROR", {}, notify)
  <2>1. PICK transientAuth \in BOOLEAN :
          /\ store' = Saved(store, snap, IF transientAuth THEN run ELSE failed)
          /\ Reply([hist EXCEPT !.runs = @ + 1,
                                !.judged = IF transientAuth THEN @
                                           ELSE Judged("ESCALATE")],
                   req, "ERROR", {}, notify)
    BY DEF ReviewerFails, NotifyUser
  <2>2. [hist EXCEPT !.runs = @ + 1, !.judged = hist.judged] = again
    BY <1>2 DEF History
  <2> QED
    BY <2>1, <2>2
<1>4. /\ notify \in BOOLEAN /\ noted \in BOOLEAN
      /\ (snap.notified => noted) /\ (notify => ~snap.notified /\ noted)
  BY <1>2 DEF Context, Request
<1>5. /\ snap.rounds \in Nat /\ snap.rounds + 1 \in Nat
      /\ snap.blockCount \in Nat
      /\ hist.runs \in Nat /\ hist.runs + 1 \in Nat
      /\ hist.blocks \in Nat /\ hist.toasts \in Nat
  BY <1>2 DEF Context, History
<1> HIDE DEF notify, noted
<1>6. /\ run \in Context /\ run.rounds = snap.rounds + 1
      /\ run.blockCount = snap.blockCount /\ run.notified = noted
      /\ run.baseline = snap.baseline /\ run.status = snap.status
      /\ run.exclusions = snap.exclusions
  BY <1>2, <1>4, <1>5 DEF Context
<1>7. /\ BaselineOf(payload, req) \in Baseline
      /\ BaselineOf(payload, req).of = payload
      /\ BaselineOf(payload, req).key = req.key
      /\ BaselineOf(payload, req).extras = req.extras
  BY <1>2, BaselineIs
<1>8. Judged("ESCALATE") \in Judgement
  BY <1>2, JudgedIs
<1>9. /\ again \in History /\ again.runs = hist.runs + 1
      /\ again.blocks = hist.blocks /\ again.toasts = hist.toasts
      /\ again.judged = hist.judged
      /\ cached \in History /\ cached.runs = hist.runs + 1
      /\ cached.blocks = hist.blocks /\ cached.toasts = hist.toasts
      /\ cached.judged = Judged("ESCALATE")
  BY <1>2, <1>5, <1>8 DEF History
<1> HIDE DEF run
<1>10. /\ failed \in Context /\ failed.rounds = snap.rounds + 1
       /\ failed.blockCount = snap.blockCount /\ failed.notified = noted
       /\ failed.baseline = BaselineOf(payload, req)
       /\ failed.status = "ESCALATE" /\ failed.exclusions = snap.exclusions
  BY <1>6, <1>7 DEF Context
<1> HIDE DEF failed, again, cached
\* The snapshot with one more round, before the user is notified.
<1> DEFINE counted == [snap EXCEPT !.rounds = @ + 1]
<1>11. /\ counted \in Context /\ counted.rounds = snap.rounds + 1
       /\ counted.blockCount = snap.blockCount
       /\ counted.notified = snap.notified
       /\ counted.baseline = snap.baseline /\ counted.status = snap.status
       /\ counted.exclusions = snap.exclusions
  BY <1>2, <1>5 DEF Context
<1> HIDE DEF counted
<1>12. /\ run.rounds >= counted.rounds
       /\ run.blockCount >= IF req.stop /\ "ERROR" \in {"ISSUES", "NO_PROGRESS"}
                            THEN counted.blockCount + 1
                            ELSE counted.blockCount
  BY <1>5, <1>6, <1>11
<1>13. Backed(counted, again)
  BY <1>2, <1>5, <1>9, <1>11 DEF Backed, Stands, Counts
<1>14. Backed(run, Told(again, req, "ERROR", notify))
  BY <1>2, <1>4, <1>6, <1>9, <1>11, <1>12, <1>13, StaysBacked
<1> DEFINE t == Told(cached, req, "ERROR", notify)
<1>15. /\ t \in History /\ t.judged = Judged("ESCALATE")
       /\ t.runs = hist.runs + 1 /\ t.blocks = hist.blocks
       /\ t.toasts <= IF notify THEN hist.toasts + 1 ELSE hist.toasts
       /\ t.toasts \in Nat
  BY <1>2, <1>4, <1>9, ToldIs DEF History
<1> HIDE DEF t
<1>16. Counts(failed, t)
  BY <1>2, <1>4, <1>5, <1>10, <1>15 DEF Backed, Counts
<1>17. SameRange(payload, payload)
  BY DEF SameRange
<1>18. Backed(failed, t)
  BY <1>2, <1>7, <1>10, <1>15, <1>16, <1>17, JudgedBacked
<1>19. CASE /\ store' = Saved(store, snap, run)
            /\ Reply(again, req, "ERROR", {}, notify)
  <2>1. /\ store' \in Context /\ Apart(store')
        /\ Backed(store', Told(again, req, "ERROR", notify))
    BY <1>2, <1>6, <1>14, <1>19, SavedBacked
  <2> QED
    BY <1>2, <1>4, <1>9, <1>19, <2>1, Ended
<1>20. CASE /\ store' = Saved(store, snap, failed)
            /\ Reply(cached, req, "ERROR", {}, notify)
  <2>1. store' \in Context /\ Apart(store') /\ Backed(store', t)
    BY <1>2, <1>10, <1>18, <1>20, SavedBacked
  <2> QED
    BY <1>2, <1>4, <1>9, <1>20, <2>1, Ended DEF t
<1> QED
  BY <1>3, <1>19, <1>20

LEMMA PassesKeeps ==
    ASSUME IInv, pc = "review", repo' = repo, NEW found, Passes(found)
    PROVE  IInv'
<1> DEFINE w == [snap EXCEPT !.rounds = 0, !.blockCount = 0, !.priors = {},
                             !.baseline = PassedBaseline, !.status = "PASS",
                             !.reviewed = TRUE, !.dirty = FALSE,
                             !.notified = FALSE]
           h == [NoHistory EXCEPT !.judged = Judged("PASS")]
           t == Told(h, req, "PASS", FALSE)
<1>1. store' = Saved(store, snap, w) /\ Reply(h, req, "PASS", {}, FALSE)
  BY DEF Passes
<1>2. /\ snap \in Context /\ store \in Context
      /\ req \in Request /\ repo' \in Repository /\ payload \in Payload
      /\ free \in Payload \cup {None}
  BY Running DEF IInv, TypeOK
<1>3. /\ PassedBaseline \in Baseline
      /\ PassedBaseline.of.shown \subseteq payload.shown
      /\ PassedBaseline.of.print \subseteq payload.print
      /\ SameRange(PassedBaseline.of, payload)
      /\ PassedBaseline.key = req.key
      /\ PassedBaseline.extras = req.extras
  BY <1>2, PassedIs
<1>4. w \in Context
  BY <1>2, <1>3 DEF Context
<1>5. /\ w.rounds = 0 /\ w.blockCount = 0 /\ w.baseline = PassedBaseline
      /\ w.status = "PASS" /\ w.exclusions = snap.exclusions
  BY <1>2 DEF Context
<1>6. Judged("PASS") \in Judgement
  BY <1>2, JudgedIs
<1>7. /\ h \in History /\ h.judged = Judged("PASS")
      /\ h.runs = 0 /\ h.blocks = 0 /\ h.toasts = 0
  BY <1>6 DEF NoHistory, History
<1> HIDE DEF w, h
<1>8. /\ t \in History /\ t.judged = Judged("PASS") /\ t.runs = 0
      /\ t.blocks = 0 /\ t.toasts <= 0
  <2>1. /\ t \in History
        /\ t.judged = h.judged /\ t.runs = h.runs
        /\ t.blocks = IF req.stop /\ "PASS" \in {"ISSUES", "NO_PROGRESS"}
                      THEN h.blocks + 1 ELSE h.blocks
        /\ t.toasts <= IF FALSE THEN h.toasts + 1 ELSE h.toasts
    <3>1. FALSE \in BOOLEAN
      OBVIOUS
    <3> QED
      BY <1>2, <1>7, <3>1, ToldIs
  <2> QED
    BY <1>7, <2>1
<1> HIDE DEF t
<1>9. Counts(w, t)
  BY <1>5, <1>8 DEF Counts, History
<1>10. Backed(w, t)
  BY <1>2, <1>3, <1>4, <1>5, <1>8, <1>9, JudgedBacked
<1>11. store' \in Context /\ Apart(store') /\ Backed(store', t)
  BY <1>1, <1>2, <1>4, <1>5, <1>10, SavedBacked
<1> QED
  BY <1>1, <1>2, <1>7, <1>11, Ended DEF t

LEMMA FindsIssuesKeeps ==
    ASSUME IInv, pc = "review", repo' = repo, NEW found \in SUBSET File,
           FindsIssues(found)
    PROVE  IInv'
<1> DEFINE kept == Kept(found)
           n == IF req.stop THEN snap.blockCount + 1 ELSE snap.blockCount
           w == [snap EXCEPT !.rounds = @ + 1, !.blockCount = n,
                             !.priors = kept,
                             !.baseline = BaselineOf(payload, req),
                             !.status = "ISSUES", !.reviewed = TRUE,
                             !.notified = FALSE]
           h == [hist EXCEPT !.judged = Judged("ISSUES"), !.runs = @ + 1,
                             !.toasts = 0]
           t == Told(h, req, "ISSUES", FALSE)
<1>1. store' = Saved(store, snap, w) /\ Reply(h, req, "ISSUES", kept, FALSE)
  BY DEF FindsIssues
<1>2. /\ snap \in Context /\ store \in Context /\ hist \in History
      /\ req \in Request /\ repo' \in Repository /\ payload \in Payload
      /\ Backed(snap, hist)
  BY Running DEF IInv, TypeOK
<1>3. /\ BaselineOf(payload, req) \in Baseline
      /\ BaselineOf(payload, req).of = payload
      /\ BaselineOf(payload, req).key = req.key
      /\ BaselineOf(payload, req).extras = req.extras
  BY <1>2, BaselineIs
<1>4. kept \in SUBSET File
  BY DEF Kept
<1>5. /\ snap.rounds \in Nat /\ snap.rounds + 1 \in Nat
      /\ snap.blockCount \in Nat /\ n \in Nat
      /\ hist.runs \in Nat /\ hist.runs + 1 \in Nat
      /\ hist.blocks \in Nat /\ hist.toasts \in Nat
      /\ n = IF req.stop THEN snap.blockCount + 1 ELSE snap.blockCount
  BY <1>2 DEF Context, History
<1> HIDE DEF kept, n
<1>6. w \in Context
  BY <1>2, <1>3, <1>4, <1>5 DEF Context
<1>7. /\ w.rounds = snap.rounds + 1 /\ w.blockCount = n
      /\ w.baseline = BaselineOf(payload, req)
      /\ w.status = "ISSUES" /\ w.exclusions = snap.exclusions
  BY <1>2 DEF Context
<1>8. Judged("ISSUES") \in Judgement
  BY <1>2, JudgedIs
<1>9. /\ h \in History /\ h.judged = Judged("ISSUES")
      /\ h.runs = hist.runs + 1 /\ h.blocks = hist.blocks /\ h.toasts = 0
  BY <1>2, <1>5, <1>8 DEF History
<1> HIDE DEF w, h
<1>10. /\ t \in History /\ t.judged = Judged("ISSUES")
       /\ t.runs = hist.runs + 1
       /\ t.blocks = IF req.stop THEN hist.blocks + 1 ELSE hist.blocks
       /\ t.toasts <= 0
  <2>1. /\ t \in History
        /\ t.judged = h.judged /\ t.runs = h.runs
        /\ t.blocks = IF req.stop /\ "ISSUES" \in {"ISSUES", "NO_PROGRESS"}
                      THEN h.blocks + 1 ELSE h.blocks
        /\ t.toasts <= IF FALSE THEN h.toasts + 1 ELSE h.toasts
    <3>1. FALSE \in BOOLEAN
      OBVIOUS
    <3> QED
      BY <1>2, <1>9, <3>1, ToldIs
  <2> QED
    BY <1>9, <2>1
<1> HIDE DEF t
<1>11. Counts(w, t)
  BY <1>2, <1>5, <1>7, <1>10 DEF Backed, Counts, History
<1>12. SameRange(payload, payload)
  BY DEF SameRange
<1>13. Backed(w, t)
  BY <1>2, <1>3, <1>6, <1>7, <1>10, <1>11, <1>12, JudgedBacked
<1>14. store' \in Context /\ Apart(store') /\ Backed(store', t)
  BY <1>1, <1>2, <1>6, <1>7, <1>13, SavedBacked
<1> QED
  BY <1>1, <1>2, <1>9, <1>14, Ended DEF t

LEMMA CrashKeeps ==
    ASSUME IInv, Crash
    PROVE  IInv'
<1>1. /\ pc' = "idle" /\ free' = None /\ relisted' = FALSE
      /\ repo' = repo /\ store' = store /\ hist' = hist
  BY DEF Crash
<1>2. TypeOK'
  BY <1>1 DEF IInv, TypeOK, PCs
<1> QED
  BY <1>1, <1>2 DEF IInv, PastCap, Apart

-----------------------------------------------------------------------------
(* What happens meanwhile.                                                 *)

\* A change from outside leaves the pipeline alone; what it makes of the
\* stored context and of the history must be backed.
LEMMA Disturbed ==
    ASSUME IInv, UNCHANGED pipeline,
           repo' \in Repository, relisted' \in BOOLEAN,
           store' \in Context, hist' \in History,
           Backed(store', hist'), Apart(store'),
           hist'.judged = hist.judged, hist'.runs <= hist.runs,
           hist'.blocks <= hist.blocks, hist'.toasts <= hist.toasts
    PROVE  IInv'
<1>1. /\ pc' = pc /\ req' = req /\ snap' = snap /\ payload' = payload
      /\ free' = free
  BY DEF pipeline
<1>2. TypeOK'
  BY <1>1 DEF IInv, TypeOK
<1>3. ASSUME pc # "idle" PROVE Backed(snap, hist')
  <2>1. snap \in Context /\ hist \in History /\ Backed(snap, hist)
    BY <1>3, Running
  <2> QED
    BY <2>1 DEF Backed, Stands, Counts, Context, History
<1>4. pc \in PastCap => ~BlockCapReached(req', snap')
  BY <1>1 DEF IInv
<1> QED
  BY <1>1, <1>2, <1>3, <1>4 DEF IInv, Apart, BlockCapReached

\* The history a change from outside leaves as it is.
LEMMA SameHistory ==
    ASSUME hist \in History, hist' = hist
    PROVE  /\ hist' \in History
           /\ hist'.judged = hist.judged /\ hist'.runs <= hist.runs
           /\ hist'.blocks <= hist.blocks /\ hist'.toasts <= hist.toasts
BY DEF History

LEMMA StoreDisturbed ==
    ASSUME IInv, Notify \/ Exclude \/ Include \/ Reset
    PROVE  IInv'
<1>1. /\ repo \in Repository /\ store \in Context /\ hist \in History
      /\ relisted \in BOOLEAN /\ Backed(store, hist) /\ Apart(store)
  BY DEF IInv, TypeOK
<1>2. CASE Notify
  <2>1. /\ store' = [store EXCEPT !.dirty = TRUE] /\ repo' = repo
        /\ UNCHANGED pipeline /\ relisted' = relisted /\ hist' = hist
    BY <1>2 DEF Notify
  <2>2. store' \in Context /\ Backed(store', hist) /\ Apart(store')
    BY <1>1, <2>1 DEF Context, Backed, Stands, Counts, Apart
  <2> QED
    BY <1>1, <2>1, <2>2, SameHistory, Disturbed
<1>3. CASE Exclude
  <2>1. PICK f \in File : store' = Excluding(store, f)
    BY <1>3 DEF Exclude
  <2>2. /\ repo' = repo /\ UNCHANGED pipeline /\ relisted' \in BOOLEAN
        /\ hist' = hist
    BY <1>1, <1>3 DEF Exclude
  <2> DEFINE d == store.dirty \/ f \notin store.exclusions
             b == IF f \in store.exclusions THEN store.baseline ELSE None
  <2>3. d \in BOOLEAN /\ b \in Baseline \cup {None}
    BY <1>1 DEF Context
  <2>4. /\ b # None => b = store.baseline /\ f \in store.exclusions
        /\ store' = [store EXCEPT !.exclusions = @ \cup {f},
                                  !.priors = @ \ {f}, !.dirty = d,
                                  !.baseline = b]
    BY <2>1 DEF Excluding
  <2> HIDE DEF d, b
  <2>5. store' \in Context
    BY <1>1, <2>3, <2>4 DEF Context
  <2>6. /\ store'.exclusions = store.exclusions \cup {f}
        /\ store'.priors = store.priors \ {f} /\ store'.baseline = b
        /\ store'.rounds = store.rounds
        /\ store'.blockCount = store.blockCount
        /\ store'.notified = store.notified /\ store'.status = store.status
    BY <1>1, <2>4 DEF Context
  <2>7. Stands(store', hist)
    <3>1. ASSUME b # None PROVE store'.exclusions = store.exclusions
      BY <2>4, <2>6, <3>1
    <3> QED
      BY <1>1, <2>4, <2>6, <3>1 DEF Backed, Stands
  <2>8. Backed(store', hist) /\ Apart(store')
    BY <1>1, <2>6, <2>7 DEF Backed, Counts, Apart
  <2> QED
    BY <1>1, <2>2, <2>5, <2>8, SameHistory, Disturbed
<1>4. CASE Include
  <2>1. PICK f \in store.exclusions : store' = Including(store, f)
    BY <1>4 DEF Include
  <2>2. /\ repo' = repo /\ UNCHANGED pipeline /\ relisted' = relisted
        /\ hist' = hist
    BY <1>4 DEF Include
  <2>3. store' \in Context /\ Backed(store', hist) /\ Apart(store')
    BY <1>1, <2>1 DEF Including, Context, Backed, Stands, Counts, Apart
  <2> QED
    BY <1>1, <2>2, <2>3, SameHistory, Disturbed
<1>5. CASE Reset
  <2>1. /\ store' = [BlankContext EXCEPT !.exclusions = store.exclusions]
        /\ hist' = [hist EXCEPT !.runs = 0, !.blocks = 0, !.toasts = 0]
        /\ repo' = repo /\ UNCHANGED pipeline /\ relisted' = relisted
    BY <1>5 DEF Reset
  <2>2. /\ hist' \in History /\ hist'.judged = hist.judged
        /\ hist'.runs = 0 /\ hist'.blocks = 0 /\ hist'.toasts = 0
    BY <1>1, <2>1 DEF History
  <2>3. /\ hist'.runs <= hist.runs /\ hist'.blocks <= hist.blocks
        /\ hist'.toasts <= hist.toasts
    BY <1>1, <2>2 DEF History
  <2>4. BlankContext \in Context /\ store.exclusions \in SUBSET File
    BY <1>1 DEF BlankContext, Context
  <2>5. store' \in Context /\ store'.baseline = None
    BY <2>1, <2>4 DEF BlankContext, Context
  <2>6. /\ store'.rounds = 0 /\ store'.blockCount = 0 /\ store'.priors = {}
    BY <2>1 DEF BlankContext
  <2>7. Backed(store', hist') /\ Apart(store')
    BY <2>2, <2>5, <2>6 DEF Backed, Stands, Counts, Apart
  <2> QED
    BY <1>1, <2>1, <2>2, <2>3, <2>5, <2>7, Disturbed
<1> QED
  BY <1>2, <1>3, <1>4, <1>5

LEMMA RepoDisturbed ==
    ASSUME IInv, Edit \/ Commit \/ Push
    PROVE  IInv'
<1>1. /\ repo \in Repository /\ store \in Context /\ hist \in History
      /\ relisted \in BOOLEAN /\ Backed(store, hist) /\ Apart(store)
  BY DEF IInv, TypeOK
<1>2. ASSUME NEW new \in Repository, RepoChanges(new)
      PROVE  IInv'
  <2>1. /\ repo' = new /\ store' = store /\ UNCHANGED pipeline
        /\ relisted' = relisted /\ hist' = hist
    BY <1>2 DEF RepoChanges
  <2> QED
    BY <1>1, <1>2, <2>1, SameHistory, Disturbed
<1>3. CASE Edit
  <2>1. PICK f \in File, v \in 0 .. Versions :
          RepoChanges([repo EXCEPT !.tree[f] = v])
    BY <1>3 DEF Edit
  <2>2. [repo EXCEPT !.tree[f] = v] \in Repository
    BY <1>1 DEF Repository, Tree
  <2> QED
    BY <1>2, <2>1, <2>2
<1>4. CASE Commit
  <2> DEFINE ahead == [f \in File |-> IF repo.tree[f] # 0 THEN repo.tree[f]
                                      ELSE repo.ahead[f]]
  <2>1. RepoChanges([repo EXCEPT !.head = @ + 1, !.tree = Clean,
                                 !.ahead = ahead])
    BY <1>4 DEF Commit
  <2>2. ahead \in Tree /\ Clean \in Tree /\ repo.head + 1 \in Nat
    BY <1>1, VersionsAssumption DEF Repository, Tree, Clean
  <2> HIDE DEF ahead
  <2>3. [repo EXCEPT !.head = @ + 1, !.tree = Clean, !.ahead = ahead]
          \in Repository
    BY <1>1, <2>2 DEF Repository
  <2> QED
    BY <1>2, <2>1, <2>3
<1>5. CASE Push
  <2>1. RepoChanges([repo EXCEPT !.base = repo.head, !.ahead = Clean])
    BY <1>5 DEF Push
  <2>2. Clean \in Tree
    BY VersionsAssumption DEF Tree, Clean
  <2>3. [repo EXCEPT !.base = repo.head, !.ahead = Clean] \in Repository
    BY <1>1, <2>2 DEF Repository
  <2> QED
    BY <1>2, <2>1, <2>3
<1> QED
  BY <1>3, <1>4, <1>5

LEMMA StepIInv == IInv /\ [Next]_vars => IInv'
<1> SUFFICES ASSUME IInv, [Next]_vars PROVE IInv'
  OBVIOUS
<1>1. CASE Begin
  BY <1>1, BeginKeeps
<1>2. CASE HeadProbe
  BY <1>2, FastPathKeeps DEF HeadProbe
<1>3. CASE CleanProbe
  <2>1. (IF Fallback THEN "base" ELSE "done") \in {"clean", "base", "done"}
    OBVIOUS
  <2> QED
    BY <1>3, <2>1, FastPathKeeps DEF CleanProbe
<1>4. CASE BaseProbe
  BY <1>4, FastPathKeeps DEF BaseProbe
<1>5. CASE BuildHead \/ BuildPrompt \/ FreeHead \/ FreePrompt \/ FreePrint
              \/ FreeFails
  BY <1>5, BuildKeeps
<1>6. CASE BuildPrint
  BY <1>6, BuildPrintKeeps
<1>7. CASE ReviewerFails
  BY <1>7, ReviewerFailsKeeps
<1>8. CASE Verdict
  BY <1>8, PassesKeeps, FindsIssuesKeeps DEF Verdict
<1>9. CASE Fails
  BY <1>9, Running, RepliedOnly DEF Fails
<1>10. CASE Crash
  BY <1>10, CrashKeeps
<1>11. CASE Notify \/ Exclude \/ Include \/ Reset
  BY <1>11, StoreDisturbed
<1>12. CASE Edit \/ Commit \/ Push
  BY <1>12, RepoDisturbed
<1>13. CASE UNCHANGED vars
  BY <1>13, StutterKeeps
<1> QED
  BY <1>1, <1>2, <1>3, <1>4, <1>5, <1>6, <1>7, <1>8, <1>9, <1>10, <1>11,
     <1>12, <1>13 DEF Next, Pipeline, Meanwhile

-----------------------------------------------------------------------------
(* The theorems.                                                           *)

\* The stored context and the snapshot stay true of the history, however
\* notifications, exclusions, resets, edits, commits, failures and crashes
\* fall between the steps of a pipeline (runReview, saveContext).
THEOREM Invariance == Spec => []IInv
BY InitIInv, StepIInv, PTL DEF Spec

\* The context a pipeline reads, carries and writes back is always whole.
THEOREM TypesHold == Spec => []TypeOK
<1>1. IInv => TypeOK
  BY DEF IInv
<1> QED
  BY <1>1, Invariance, PTL

\* However the exclusion list changed while reviews ran, the baseline stored
\* beside it is of a verdict reached under it (saveContext,
\* handleExclusionMutation).
THEOREM BaselinesMatch == Spec => []BaselineMatchesExclusions
<1>1. IInv => BaselineMatchesExclusions
  BY DEF IInv, Backed, Stands, BaselineMatchesExclusions
<1> QED
  BY <1>1, Invariance, PTL

\* The user is told of a run of failures and caps once, also if a reset came
\* while a pipeline that had read the context before it was running
\* (computeNotifyUser).
THEOREM ToldOnce == Spec => []NotifyOnce
<1>1. IInv => NotifyOnce
  <2> SUFFICES ASSUME IInv PROVE hist.toasts <= 1
    BY DEF NotifyOnce
  <2>1. hist.toasts \in Nat /\ hist.toasts <= IF store.notified THEN 1 ELSE 0
    BY DEF IInv, TypeOK, History, Backed, Counts
  <2> QED
    BY <2>1
<1> QED
  BY <1>1, Invariance, PTL

\* What an answer says, and what it adds to the history.
LEMMA Replied ==
    ASSUME NEW h, NEW r, NEW kind, NEW found, NEW notify,
           Reply(h, r, kind, found, notify)
    PROVE  /\ pc' = "idle" /\ hist' = Told(h, r, kind, notify)
           /\ answer'.kind = kind /\ answer'.found = found
BY DEF Reply

\* What each end of a pipeline answers.
LEMMA AnswerOf ==
    /\ Reply(hist, req, "EMPTY", {}, FALSE) =>
          pc' = "idle" /\ answer'.kind = "EMPTY"
    /\ Reply(hist, req, "NO_CHANGES", {}, FALSE) =>
          pc' = "idle" /\ answer'.kind = "NO_CHANGES"
    /\ \A kind : RefuseAtCap(hist, store, snap, req, kind) =>
          pc' = "idle" /\ answer'.kind = kind
    /\ NoProgress => pc' = "idle" /\ answer'.kind = "NO_PROGRESS"
    /\ ErrorCached => pc' = "idle" /\ answer'.kind = "CACHED_ERROR"
    /\ ReviewerFails => pc' = "idle" /\ answer'.kind = "ERROR"
    /\ Fails => pc' = "idle" /\ answer'.kind = "FAILED"
    /\ \A found : Passes(found) => pc' = "idle" /\ answer'.kind = "PASS"
    /\ \A found : FindsIssues(found) =>
          /\ pc' = "idle" /\ answer'.kind = "ISSUES"
          /\ answer'.found = Kept(found)
<1>1. /\ Reply(hist, req, "EMPTY", {}, FALSE) =>
            pc' = "idle" /\ answer'.kind = "EMPTY"
      /\ Reply(hist, req, "NO_CHANGES", {}, FALSE) =>
            pc' = "idle" /\ answer'.kind = "NO_CHANGES"
  <2>1. ASSUME Reply(hist, req, "EMPTY", {}, FALSE)
        PROVE  pc' = "idle" /\ answer'.kind = "EMPTY"
    BY <2>1, Replied
  <2>2. ASSUME Reply(hist, req, "NO_CHANGES", {}, FALSE)
        PROVE  pc' = "idle" /\ answer'.kind = "NO_CHANGES"
    BY <2>2, Replied
  <2> QED
    BY <2>1, <2>2
<1>2. ASSUME NEW kind, RefuseAtCap(hist, store, snap, req, kind)
      PROVE  pc' = "idle" /\ answer'.kind = kind
  <2>1. Reply(hist, req, kind, {}, NotifyUser(req, snap))
    BY <1>2 DEF RefuseAtCap
  <2> QED
    BY <2>1, Replied
<1>3. ASSUME NoProgress PROVE pc' = "idle" /\ answer'.kind = "NO_PROGRESS"
  <2>1. Reply(hist, req, "NO_PROGRESS", snap.priors, FALSE)
    BY <1>3 DEF NoProgress
  <2> QED
    BY <2>1, Replied
<1>4. ASSUME ErrorCached PROVE pc' = "idle" /\ answer'.kind = "CACHED_ERROR"
  <2>1. Reply(hist, req, "CACHED_ERROR", {}, NotifyUser(req, snap))
    BY <1>4 DEF ErrorCached
  <2> QED
    BY <2>1, Replied
<1>5. ASSUME ReviewerFails PROVE pc' = "idle" /\ answer'.kind = "ERROR"
  <2>1. PICK transientAuth \in BOOLEAN :
          Reply([hist EXCEPT !.runs = @ + 1,
                             !.judged = IF transientAuth THEN @
                                        ELSE Judged("ESCALATE")],
                req, "ERROR", {}, NotifyUser(req, snap))
    BY <1>5 DEF ReviewerFails
  <2> QED
    BY <2>1, Replied
<1>6. ASSUME Fails PROVE pc' = "idle" /\ answer'.kind = "FAILED"
  BY <1>6, Replied DEF Fails
<1>7. ASSUME NEW found, Passes(found)
      PROVE  pc' = "idle" /\ answer'.kind = "PASS"
  <2>1. Reply([NoHistory EXCEPT !.judged = Judged("PASS")],
              req, "PASS", {}, FALSE)
    BY <1>7 DEF Passes
  <2> QED
    BY <2>1, Replied
<1>8. ASSUME NEW found, FindsIssues(found)
      PROVE  /\ pc' = "idle" /\ answer'.kind = "ISSUES"
             /\ answer'.found = Kept(found)
  <2>1. Reply([hist EXCEPT !.judged = Judged("ISSUES"), !.runs = @ + 1,
                           !.toasts = 0],
              req, "ISSUES", Kept(found), FALSE)
    BY <1>8 DEF FindsIssues
  <2> QED
    BY <2>1, Replied
<1> QED
  BY <1>1, <1>2, <1>3, <1>4, <1>5, <1>6, <1>7, <1>8

\* How a pipeline can end with an answer.
LEMMA Enders ==
    ASSUME [Next]_vars, pc # "idle", pc' = "idle", answer' # None
    PROVE  \/ RefuseAtCap(hist, store, snap, req, "MAX_BLOCKS")
           \/ /\ pc \in {"head", "clean", "base"} /\ UNCHANGED store
              /\ Reply(hist, req, "NO_CHANGES", {}, FALSE)
           \/ BuildPrint
           \/ ReviewerFails
           \/ Verdict
           \/ Fails
<1>1. ASSUME NEW at \in {"head", "clean", "base"}, NEW holds,
             NEW next \in {"clean", "base", "done"}, FastPath(at, holds, next)
      PROVE  \/ RefuseAtCap(hist, store, snap, req, "MAX_BLOCKS")
             \/ /\ pc \in {"head", "clean", "base"} /\ UNCHANGED store
                /\ Reply(hist, req, "NO_CHANGES", {}, FALSE)
  BY <1>1 DEF FastPath, PreCap
<1>2. CASE HeadProbe
  BY <1>1, <1>2 DEF HeadProbe
<1>3. CASE CleanProbe
  <2>1. (IF Fallback THEN "base" ELSE "done") \in {"clean", "base", "done"}
    OBVIOUS
  <2> QED
    BY <1>1, <1>3, <2>1 DEF CleanProbe
<1>4. CASE BaseProbe
  BY <1>1, <1>4 DEF BaseProbe
<1>5. ~Begin
  BY DEF Begin
<1>6. ~(BuildHead \/ BuildPrompt \/ FreeHead \/ FreePrompt \/ FreePrint
          \/ FreeFails)
  BY DEF BuildHead, BuildPrompt, FreeHead, FreePrompt, FreePrint, FreeFails
<1>7. ~Crash
  BY DEF Crash
<1>8. ~(Notify \/ Exclude \/ Include \/ Reset)
  BY DEF Notify, Exclude, Include, Reset, pipeline
<1>9. ~(Edit \/ Commit \/ Push)
  BY DEF Edit, Commit, Push, RepoChanges, pipeline
<1>10. ~UNCHANGED vars
  BY DEF vars
<1> QED
  BY <1>2, <1>3, <1>4, <1>5, <1>6, <1>7, <1>8, <1>9, <1>10
     DEF Next, Pipeline, Meanwhile

\* What BuildPrint can decide.
LEMMA Decisions ==
    ASSUME BuildPrint
    PROVE  LET p == Printed(payload)
           IN  \/ Reply(hist, req, "EMPTY", {}, FALSE)
               \/ /\ Unchanged(snap, req, p) /\ snap.status = "PASS"
                  /\ Reply(hist, req, "NO_CHANGES", {}, FALSE)
               \/ /\ Unchanged(snap, req, p) /\ snap.status = "ISSUES"
                  /\ snap.priors # {} /\ NoProgress
               \/ /\ Unchanged(snap, req, p) /\ snap.status = "ESCALATE"
                  /\ ErrorCached
               \/ RefuseAtCap(hist, store, snap, req, "MAX_ROUNDS")
               \/ ~RoundCapReached /\ Launch(p)
BY DEF BuildPrint

\* A cached answer repeats the last verdict about what was judged then: the
\* hash compared is of another build, minutes later, maybe without the
\* flagged files, but everything in it was judged (buildReviewPayload,
\* the unchanged check of runReview).
THEOREM CachedAnswers == Spec => CachedIsJudged
<1>1. ASSUME IInv, [Next]_vars, pc = "print",
             NEW kind \in {"NO_CHANGES", "NO_PROGRESS", "CACHED_ERROR"},
             Answers(kind)
      PROVE  /\ hist.judged # None
             /\ hist.judged.status = CASE kind = "NO_CHANGES" -> "PASS"
                                       [] kind = "NO_PROGRESS" -> "ISSUES"
                                       [] kind = "CACHED_ERROR" -> "ESCALATE"
             /\ payload.shown \subseteq hist.judged.of.shown
             /\ \A f \in payload.listed \cup payload.context :
                   <<f, repo.tree[f]>> \in hist.judged.of.print
             /\ payload.head = hist.judged.of.head
             /\ payload.base = hist.judged.of.base
             /\ req.key = hist.judged.key
             /\ \/ req.extras = hist.judged.extras
                \/ kind = "NO_CHANGES" /\ req.extras = NoExtras
             /\ snap.exclusions = hist.judged.exclusions
  <2> DEFINE p == Printed(payload)
  <2>1. pc' = "idle" /\ answer' # None /\ answer'.kind = kind
    BY <1>1 DEF Answers
  <2>2. payload \in Payload /\ snap \in Context /\ Stands(snap, hist)
    BY <1>1 DEF IInv, TypeOK, Backed
  <2>3. /\ p.shown = payload.shown /\ p.head = payload.head
        /\ p.base = payload.base
        /\ p.print = {<<f, repo.tree[f]>> : f \in payload.listed \cup payload.context}
    BY <2>2 DEF Printed, Payload
  <2>4. BuildPrint
    <3>1. ~RefuseAtCap(hist, store, snap, req, "MAX_BLOCKS")
      BY <2>1, AnswerOf
    <3>2. ~ReviewerFails /\ ~Verdict
      BY <1>1 DEF ReviewerFails, Verdict
    <3>3. ~Fails
      BY <2>1, AnswerOf
    <3> QED
      BY <1>1, <2>1, <3>1, <3>2, <3>3, Enders
  <2>5. /\ Unchanged(snap, req, p)
        /\ \/ kind = "NO_CHANGES" /\ snap.status = "PASS"
           \/ kind = "NO_PROGRESS" /\ snap.status = "ISSUES"
           \/ kind = "CACHED_ERROR" /\ snap.status = "ESCALATE"
    <3> HIDE DEF p
    <3>1. CASE Reply(hist, req, "EMPTY", {}, FALSE)
      BY <2>1, <3>1, AnswerOf
    <3>2. CASE /\ Unchanged(snap, req, p) /\ snap.status = "PASS"
               /\ Reply(hist, req, "NO_CHANGES", {}, FALSE)
      BY <2>1, <3>2, AnswerOf
    <3>3. CASE /\ Unchanged(snap, req, p) /\ snap.status = "ISSUES"
               /\ snap.priors # {} /\ NoProgress
      BY <2>1, <3>3, AnswerOf
    <3>4. CASE /\ Unchanged(snap, req, p) /\ snap.status = "ESCALATE"
               /\ ErrorCached
      BY <2>1, <3>4, AnswerOf
    <3>5. CASE RefuseAtCap(hist, store, snap, req, "MAX_ROUNDS")
      BY <2>1, <3>5, AnswerOf
    <3>6. CASE ~RoundCapReached /\ Launch(p)
      BY <2>1, <3>6 DEF Launch
    <3> QED
      BY <2>4, <3>1, <3>2, <3>3, <3>4, <3>5, <3>6, Decisions DEF p
  <2> HIDE DEF p
  <2>6. /\ snap.baseline # None
        /\ SameProgress(snap.baseline.of, p) /\ SameRange(snap.baseline.of, p)
        /\ snap.baseline.key = req.key
        /\ ExtrasAccepted(snap.baseline, req.extras, snap.status = "PASS")
    BY <2>5 DEF Unchanged
  <2>7. /\ hist.judged # None /\ snap.status = hist.judged.status
        /\ p.shown \subseteq hist.judged.of.shown
        /\ p.print \subseteq hist.judged.of.print
        /\ p.head = hist.judged.of.head /\ p.base = hist.judged.of.base
        /\ req.key = hist.judged.key
        /\ snap.exclusions = hist.judged.exclusions
    BY <2>2, <2>6 DEF Stands, SameProgress, SameRange
  <2>8. \/ req.extras = hist.judged.extras
        \/ kind = "NO_CHANGES" /\ req.extras = NoExtras
    BY <2>2, <2>5, <2>6 DEF Stands, ExtrasAccepted
  <2>9. hist.judged.status = CASE kind = "NO_CHANGES" -> "PASS"
                               [] kind = "NO_PROGRESS" -> "ISSUES"
                               [] kind = "CACHED_ERROR" -> "ESCALATE"
    BY <2>5, <2>7
  <2> QED
    BY <2>3, <2>7, <2>8, <2>9
<1> DEFINE P == \A kind \in {"NO_CHANGES", "NO_PROGRESS", "CACHED_ERROR"} :
         pc = "print" /\ Answers(kind) =>
            /\ hist.judged # None
            /\ hist.judged.status = CASE kind = "NO_CHANGES" -> "PASS"
                                      [] kind = "NO_PROGRESS" -> "ISSUES"
                                      [] kind = "CACHED_ERROR" -> "ESCALATE"
            /\ payload.shown \subseteq hist.judged.of.shown
            /\ \A f \in payload.listed \cup payload.context :
                  <<f, repo.tree[f]>> \in hist.judged.of.print
            /\ payload.head = hist.judged.of.head
            /\ payload.base = hist.judged.of.base
            /\ req.key = hist.judged.key
            /\ \/ req.extras = hist.judged.extras
               \/ kind = "NO_CHANGES" /\ req.extras = NoExtras
            /\ snap.exclusions = hist.judged.exclusions
<1>2. IInv /\ [Next]_vars => [P]_vars
  BY <1>1
<1> QED
  BY <1>2, Invariance, PTL DEF Spec, CachedIsJudged

\* An excluded file's findings are neither carried to the next round nor
\* reported by a review that was running when it was excluded.
THEOREM ExcludedStaysOut == Spec => ExclusionsHold
<1>1. ASSUME IInv, [Next]_vars
      PROVE  /\ store'.priors \cap store'.exclusions = {}
             /\ Answers("ISSUES") => answer'.found \cap store.exclusions = {}
  <2>1. store'.priors \cap store'.exclusions = {}
    BY <1>1, StepIInv DEF IInv, Apart
  <2>2. ASSUME Answers("ISSUES") PROVE answer'.found \cap store.exclusions = {}
    <3>1. /\ pc # "idle" /\ pc' = "idle" /\ answer' # None
          /\ answer'.kind = "ISSUES"
      BY <2>2 DEF Answers
    <3>2. CASE Verdict
      <4>1. PICK found \in SUBSET File : Passes(found) \/ FindsIssues(found)
        BY <3>2 DEF Verdict
      <4>2. ~Passes(found)
        BY <3>1, AnswerOf
      <4>3. answer'.found = Kept(found)
        BY <4>1, <4>2, AnswerOf
      <4> QED
        BY <4>3 DEF Kept
    <3>3. ~RefuseAtCap(hist, store, snap, req, "MAX_BLOCKS")
      BY <3>1, AnswerOf
    <3>4. ~Reply(hist, req, "NO_CHANGES", {}, FALSE) /\ ~ReviewerFails /\ ~Fails
      BY <3>1, AnswerOf
    <3>5. ~BuildPrint
      <4>1. /\ ~Reply(hist, req, "EMPTY", {}, FALSE)
            /\ ~Reply(hist, req, "NO_CHANGES", {}, FALSE)
        BY <3>1, AnswerOf
      <4>2. ~NoProgress /\ ~ErrorCached
        BY <3>1, AnswerOf
      <4>3. ~RefuseAtCap(hist, store, snap, req, "MAX_ROUNDS")
        BY <3>1, AnswerOf
      <4>4. ~Launch(Printed(payload))
        BY <3>1 DEF Launch
      <4> QED
        BY <4>1, <4>2, <4>3, <4>4, Decisions
    <3> QED
      BY <1>1, <3>1, <3>2, <3>3, <3>4, <3>5, Enders
  <2> QED
    BY <2>1, <2>2
<1>2. IInv /\ [Next]_vars =>
        [/\ store'.priors \cap store'.exclusions = {}
         /\ Answers("ISSUES") => answer'.found \cap store.exclusions = {}]_vars
  BY <1>1
<1> QED
  BY <1>2, Invariance, PTL DEF Spec, ExclusionsHold

\* Only BuildPrint starts a reviewer, and only under the cap: no reset, idle
\* reset or forced review in between lets an unforced review past it.
THEOREM RoundsAreCapped == Spec => RoundsCapped
<1>1. ASSUME IInv, [Next]_vars, pc = "print", pc' \in {"freeBuild", "review"},
             ~req.force
      PROVE  hist.runs < MaxRounds
  <2>1. BuildPrint
    <3>1. ~(Begin \/ HeadProbe \/ CleanProbe \/ BaseProbe)
      BY <1>1 DEF Begin, HeadProbe, CleanProbe, BaseProbe, FastPath
    <3>2. ~(BuildHead \/ BuildPrompt \/ FreeHead \/ FreePrompt \/ FreePrint
              \/ FreeFails)
      BY <1>1 DEF BuildHead, BuildPrompt, FreeHead, FreePrompt, FreePrint,
                  FreeFails
    <3>3. ~(ReviewerFails \/ Verdict \/ Fails \/ Crash)
      BY <1>1 DEF ReviewerFails, Verdict, Fails, Crash, Reply
    <3>4. ~Meanwhile
      BY <1>1 DEF Meanwhile, Notify, Exclude, Include, Reset, Edit, Commit,
                  Push, RepoChanges, pipeline
    <3>5. ~UNCHANGED vars
      BY <1>1 DEF vars
    <3> QED
      BY <1>1, <3>1, <3>2, <3>3, <3>4, <3>5 DEF Next, Pipeline
  <2>2. ~RoundCapReached
    <3>1. /\ ~Reply(hist, req, "EMPTY", {}, FALSE)
          /\ ~Reply(hist, req, "NO_CHANGES", {}, FALSE)
          /\ ~NoProgress /\ ~ErrorCached
          /\ ~RefuseAtCap(hist, store, snap, req, "MAX_ROUNDS")
      BY <1>1, AnswerOf
    <3> QED
      BY <2>1, <3>1, Decisions
  <2>3. hist.runs \in Nat /\ snap.rounds \in Nat /\ hist.runs <= snap.rounds
    BY <1>1 DEF IInv, TypeOK, History, Context, Backed, Counts
  <2> QED
    BY <1>1, <2>2, <2>3, LimitsAssumption DEF RoundCapReached
<1>2. IInv /\ [Next]_vars =>
        [pc = "print" /\ pc' \in {"freeBuild", "review"} /\ ~req.force =>
            hist.runs < MaxRounds]_vars
  BY <1>1
<1> QED
  BY <1>2, Invariance, PTL DEF Spec, RoundsCapped

\* An answer that does not block a Stop hook leaves the number of blocks.
LEMMA Unblocked ==
    ASSUME NEW h \in History, NEW r, NEW kind, NEW found, NEW notify,
           ~r.stop \/ kind \notin {"ISSUES", "NO_PROGRESS"},
           Reply(h, r, kind, found, notify)
    PROVE  hist'.blocks = h.blocks
<1> DEFINE n == IF notify /\ h.toasts < 2 THEN h.toasts + 1 ELSE h.toasts
<1>1. hist' = [h EXCEPT !.blocks = h.blocks, !.toasts = n]
  BY DEF Reply, Told, History
<1> HIDE DEF n
<1> QED
  BY <1>1 DEF History

\* The steps that block a Stop hook.
LEMMA Blockers ==
    ASSUME IInv, [Next]_vars, hist'.blocks > hist.blocks
    PROVE  /\ \/ pc = "print" /\ NoProgress /\ snap.priors # {}
              \/ /\ pc = "review"
                 /\ \E found \in SUBSET File : FindsIssues(found)
           /\ req.stop
<1>1. hist \in History /\ hist.blocks \in Nat
  BY DEF IInv, TypeOK, History
<1>2. hist'.blocks # hist.blocks /\ hist'.blocks # 0
  BY <1>1
\* The cap.
<1>3. ASSUME NEW h, NEW cur, NEW s, NEW r, h \in History,
             PreCap(h, cur, s, r)
      PROVE  hist'.blocks = h.blocks
  <2>1. CASE RefuseAtCap(h, cur, s, r, "MAX_BLOCKS")
    BY <1>3, <2>1, Unblocked DEF RefuseAtCap
  <2>2. CASE hist' = h
    BY <2>2
  <2> QED
    BY <1>3, <2>1, <2>2 DEF PreCap
<1>4. ~Begin
  <2> SUFFICES ASSUME Begin PROVE FALSE
    OBVIOUS
  <2>1. PICK r \in Request, idle \in BOOLEAN :
          LET s == IF idle THEN IdleReset(store) ELSE store
              h == IF idle THEN [hist EXCEPT !.runs = 0, !.blocks = 0] ELSE hist
          IN  hist' = h \/ PreCap(h, s, s, r)
    BY DEF Begin
  <2> DEFINE h == IF idle THEN [hist EXCEPT !.runs = 0, !.blocks = 0] ELSE hist
             s == IF idle THEN IdleReset(store) ELSE store
  <2>2. h \in History /\ h.blocks \in {0, hist.blocks}
    BY <1>1 DEF History
  <2>3. hist' = h \/ PreCap(h, s, s, r)
    BY <2>1
  <2> HIDE DEF h, s
  <2>4. hist'.blocks = h.blocks
    BY <1>3, <2>2, <2>3
  <2> QED
    BY <1>2, <2>2, <2>4
\* The fast path.
<1>5. ASSUME NEW at, NEW holds, NEW next PROVE ~FastPath(at, holds, next)
  <2>1. ~PreCap(hist, store, snap, req)
    BY <1>1, <1>2, <1>3
  <2>2. hist' # hist
    BY <1>2
  <2>3. ASSUME Reply(hist, req, "NO_CHANGES", {}, FALSE) PROVE FALSE
    BY <1>1, <1>2, <2>3, Unblocked
  <2> QED
    BY <2>1, <2>2, <2>3 DEF FastPath
<1>6. ~(HeadProbe \/ CleanProbe \/ BaseProbe)
  BY <1>5 DEF HeadProbe, CleanProbe, BaseProbe
\* The builds.
<1>7. ~(BuildHead \/ BuildPrompt \/ FreeHead \/ FreePrompt \/ FreePrint
          \/ FreeFails)
  BY <1>2 DEF BuildHead, BuildPrompt, FreeHead, FreePrompt, FreePrint,
              FreeFails, rest
<1>8. ASSUME BuildPrint
      PROVE  pc = "print" /\ NoProgress /\ snap.priors # {} /\ req.stop
  <2>1. ASSUME Reply(hist, req, "EMPTY", {}, FALSE) PROVE FALSE
    BY <1>1, <1>2, <2>1, Unblocked
  <2>2. ASSUME Reply(hist, req, "NO_CHANGES", {}, FALSE) PROVE FALSE
    BY <1>1, <1>2, <2>2, Unblocked
  <2>3. ASSUME ErrorCached PROVE FALSE
    BY <1>1, <1>2, <2>3, Unblocked DEF ErrorCached
  <2>4. ASSUME RefuseAtCap(hist, store, snap, req, "MAX_ROUNDS") PROVE FALSE
    BY <1>1, <1>2, <2>4, Unblocked DEF RefuseAtCap
  <2>5. ~Launch(Printed(payload))
    BY <1>2 DEF Launch, rest
  <2>6. NoProgress => req.stop
    BY <1>1, <1>2, Unblocked DEF NoProgress
  <2>7. pc = "print"
    BY <1>8 DEF BuildPrint
  <2> QED
    BY <1>8, <2>1, <2>2, <2>3, <2>4, <2>5, <2>6, <2>7, Decisions
\* The reviewer.
<1>9. ASSUME NEW status \in {"PASS", "ISSUES", "ESCALATE"}, pc = "review"
      PROVE  Judged(status) \in Judgement
  <2>1. payload \in Payload /\ req \in Request /\ snap \in Context
    BY <1>9 DEF IInv, TypeOK
  <2> QED
    BY <2>1, JudgedIs
<1>10. ASSUME ReviewerFails PROVE FALSE
  <2>1. PICK transientAuth \in BOOLEAN :
          Reply([hist EXCEPT !.runs = @ + 1,
                             !.judged = IF transientAuth THEN @
                                        ELSE Judged("ESCALATE")],
                req, "ERROR", {}, NotifyUser(req, snap))
    BY <1>10 DEF ReviewerFails
  <2> DEFINE j == IF transientAuth THEN hist.judged ELSE Judged("ESCALATE")
             h == [hist EXCEPT !.runs = @ + 1, !.judged = j]
  <2>2. pc = "review"
    BY <1>10 DEF ReviewerFails
  <2>3. j \in Judgement \cup {None} /\ hist.runs + 1 \in Nat
    BY <1>1, <1>9, <2>2 DEF History
  <2>4. Reply(h, req, "ERROR", {}, NotifyUser(req, snap))
    BY <2>1
  <2> HIDE DEF j
  <2>5. h \in History /\ h.blocks = hist.blocks
    BY <1>1, <2>3 DEF History
  <2> HIDE DEF h
  <2> QED
    BY <1>2, <2>4, <2>5, Unblocked
<1>11. ASSUME Verdict
       PROVE  /\ pc = "review" /\ req.stop
              /\ \E found \in SUBSET File : FindsIssues(found)
  <2>1. pc = "review"
    BY <1>11 DEF Verdict
  <2>2. ASSUME NEW found, Passes(found) PROVE FALSE
    <3> DEFINE h == [NoHistory EXCEPT !.judged = Judged("PASS")]
    <3>1. h \in History /\ h.blocks = 0
      BY <1>9, <2>1 DEF NoHistory, History
    <3>2. Reply(h, req, "PASS", {}, FALSE)
      BY <2>2 DEF Passes
    <3> HIDE DEF h
    <3> QED
      BY <1>2, <3>1, <3>2, Unblocked
  <2>3. ASSUME NEW found, FindsIssues(found) PROVE req.stop
    <3> DEFINE h == [hist EXCEPT !.judged = Judged("ISSUES"),
                                 !.runs = @ + 1, !.toasts = 0]
    <3>1. h \in History /\ h.blocks = hist.blocks
      <4>1. hist.runs + 1 \in Nat /\ Judged("ISSUES") \in Judgement
        BY <1>1, <1>9, <2>1 DEF History
      <4> QED
        BY <1>1, <4>1 DEF History
    <3>2. Reply(h, req, "ISSUES", Kept(found), FALSE)
      BY <2>3 DEF FindsIssues
    <3> HIDE DEF h
    <3> QED
      BY <1>2, <3>1, <3>2, Unblocked
  <2> QED
    BY <1>11, <2>1, <2>2, <2>3 DEF Verdict
\* The rest.
<1>12. ASSUME Fails PROVE FALSE
  BY <1>1, <1>2, <1>12, Unblocked DEF Fails
<1>13. ~(Crash \/ Notify \/ Exclude \/ Include \/ Edit \/ Commit \/ Push)
  BY <1>2 DEF Crash, Notify, Exclude, Include, Edit, Commit, Push, RepoChanges
<1>14. ~Reset
  BY <1>1, <1>2 DEF Reset, History
<1>15. ~UNCHANGED vars
  BY <1>2 DEF vars
<1> QED
  BY <1>4, <1>6, <1>7, <1>8, <1>10, <1>11, <1>12, <1>13, <1>14, <1>15
     DEF Next, Pipeline, Meanwhile

\* After MaxBlocks blocks only a new review of a context with issues but no
\* findings blocks again, whatever resets and crashes came between: the cap
\* is looked at before the payload is built, the count kept when the
\* pipeline ends (computeBlockCap).
THEOREM BlocksAreCapped == Spec => BlocksCapped
<1>1. ASSUME IInv, [Next]_vars, hist'.blocks > hist.blocks
      PROVE  \/ hist.blocks < MaxBlocks
             \/ /\ answer'.kind = "ISSUES"
                /\ snap.status = "ISSUES" /\ snap.priors = {}
  <2>1. /\ \/ pc = "print" /\ snap.priors # {}
           \/ pc = "review" /\ answer'.kind = "ISSUES"
        /\ req.stop
    BY <1>1, Blockers, AnswerOf
  <2>2. /\ pc # "idle" /\ pc \in PastCap
        /\ ~BlockCapReached(req, snap)
    BY <1>1, <2>1 DEF IInv, PastCap, PCs
  <2>3. /\ hist.blocks \in Nat /\ snap.blockCount \in Nat
        /\ hist.blocks <= snap.blockCount
    BY <1>1, <2>2 DEF IInv, TypeOK, History, Context, Backed, Counts
  <2>4. ~req.force
    BY <1>1, <2>1, <2>2 DEF IInv, TypeOK, Request
  <2>5. (snap.status = "ISSUES" /\ snap.priors = {}) \/ hist.blocks < MaxBlocks
    BY <2>1, <2>2, <2>3, <2>4, LimitsAssumption DEF BlockCapReached
  <2> QED
    BY <2>1, <2>5
<1>2. IInv /\ [Next]_vars =>
        [hist'.blocks > hist.blocks =>
            \/ hist.blocks < MaxBlocks
            \/ /\ answer'.kind = "ISSUES"
               /\ snap.status = "ISSUES" /\ snap.priors = {}]_vars
  BY <1>1
<1> QED
  BY <1>2, Invariance, PTL DEF Spec, BlocksCapped
=============================================================================
