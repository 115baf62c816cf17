-------------------------- MODULE TokenStateProofs --------------------------
(***************************************************************************)
(* Lemmas about TokenState for any tokens, grace periods and number of     *)
(* records kept: what reading the file can do to what is accepted, and     *)
(* that the records say of every revoked token that they name that it is   *)
(* revoked, whichever of them the file has dropped.                        *)
(***************************************************************************)
EXTENDS TokenState, SequenceTheorems, WellFoundedInduction, TLAPS

\* Some numbers up to n have a last one.
LEMMA LastOf ==
    ASSUME NEW n \in Nat, NEW S, S \subseteq 1 .. n, S # {}
    PROVE  \E i \in S : \A j \in S : j <= i
<1> DEFINE below == {n - i : i \in S}
           less == {ss \in Nat \X Nat : ss[1] < ss[2]}
<1>1. IsWellFoundedOn(less, Nat)
  BY NatLessThanWellFounded DEF OpToRel
<1>2. below \subseteq Nat /\ below # {}
  <2>1. \A i \in S : i \in 1 .. n /\ n - i \in Nat
    OBVIOUS
  <2>2. PICK i \in S : TRUE
    OBVIOUS
  <2> QED
    BY <2>1, <2>2
<1>3. PICK k \in below : \A m \in below : ~(<<m, k>> \in less)
  <2> HIDE DEF below, less
  <2> QED
    BY <1>1, <1>2, WFMin
<1>4. PICK i \in S : k = n - i
  OBVIOUS
<1>5. ASSUME NEW j \in S PROVE j <= i
  <2>1. n - j \in below /\ n - j \in Nat /\ k \in Nat
    OBVIOUS
  <2>2. ~(n - j < k)
    BY <1>3, <2>1
  <2> QED
    BY <1>4, <2>2
<1> QED
  BY <1>5

\* What says that a token is revoked stays in the file.
RevokedInv ==
    /\ auth.token \in issued \ revoked
    /\ revoked \subseteq issued
    /\ revoked # {} =>
          auth.rotations # <<>> /\ auth.rotations[Len(auth.rotations)].to = auth.token
    /\ \A i \in DOMAIN auth.rotations : auth.rotations[i].from \in revoked =>
          \E j \in i .. Len(auth.rotations) : auth.rotations[j].grace = "none"

TokenInv == TokenTypeOK /\ RevokedInv

\* Nothing is revoked at first.
LEMMA TokenInitInv == TokenInit => TokenInv
BY TokenAssumption, GraceAssumption DEF TokenInit, TokenInv, TokenTypeOK, RevokedInv

\* GraceUntil grants something only where no record is the file's token's own,
\* or to a token whose rotation, and every one since, granted the default
\* (auth.js:57-79).
LEMMA GraceUntilInNat ==
    ASSUME TokenTypeOK, NEW p \in Predecessor
    PROVE  /\ GraceUntil(p) \in Nat
           /\ GraceUntil(p) # 0 =>
                 \/ \A i \in DOMAIN auth.rotations : auth.rotations[i].to # auth.token
                 \/ \E l \in DOMAIN auth.rotations :
                       /\ auth.rotations[l].from = p.token
                       /\ \A i \in l .. Len(auth.rotations) :
                             auth.rotations[i].grace = "default"
<1> DEFINE records == auth.rotations
           from == {i \in DOMAIN records : records[i].from = p.token}
           last == CHOOSE i \in from : \A j \in from : j <= i
<1>1. records \in Seq(Rotation) /\ grace \in Nat /\ p.noticedAt \in Nat
  BY GraceAssumption, TokenAssumption DEF TokenTypeOK, Predecessor
<1>2. ASSUME from # {} PROVE last \in from /\ records[last].at \in Nat
  <2>1. \E i \in from : \A j \in from : j <= i
    <3>1. from \subseteq 1 .. Len(records) /\ Len(records) \in Nat
      BY <1>1
    <3> QED
      BY <3>1, <1>2, LastOf
  <2>2. last \in from
    <3> HIDE DEF from
    <3> QED
      BY <2>1
  <2>3. last \in 1 .. Len(records)
    BY <1>1, <2>2
  <2>4. records[last] \in Rotation
    <3> HIDE DEF records, from, last
    <3> QED
      BY <1>1, <2>3
  <2> QED
    BY <2>2, <2>4, TokenAssumption DEF Rotation
<1>3. GraceUntil(p) =
        IF \A i \in DOMAIN records : records[i].to # auth.token
        THEN p.noticedAt + grace
        ELSE IF from = {} THEN 0
        ELSE IF \A i \in last .. Len(records) : records[i].grace = "default"
             THEN records[last].at + grace
             ELSE 0
  BY DEF GraceUntil
<1>4. CASE \A i \in DOMAIN records : records[i].to # auth.token
  <2>1. GraceUntil(p) = p.noticedAt + grace
    BY <1>3, <1>4
  <2> QED
    BY <1>1, <1>4, <2>1
<1>5. CASE /\ ~\A i \in DOMAIN records : records[i].to # auth.token
           /\ from # {}
           /\ \A i \in last .. Len(records) : records[i].grace = "default"
  <2>1. GraceUntil(p) = records[last].at + grace
    BY <1>3, <1>5
  <2>2. last \in DOMAIN records /\ records[last].from = p.token
    <3> HIDE DEF last
    <3> QED
      BY <1>2, <1>5
  <2> HIDE DEF last
  <2>3. GraceUntil(p) \in Nat
    BY <1>1, <1>2, <1>5, <2>1
  <2> QED
    BY <1>5, <2>2, <2>3
<1>6. CASE /\ ~\A i \in DOMAIN records : records[i].to # auth.token
           /\ from = {} \/ ~\A i \in last .. Len(records) : records[i].grace = "default"
  <2>1. GraceUntil(p) = 0
    BY <1>3, <1>6
  <2> QED
    BY <2>1
<1> HIDE DEF last, from
<1> QED
  BY <1>4, <1>5, <1>6

\* Reading the file shortens a grant to what the file says (auth.js:114-130).
LEMMA ShortenedGrant ==
    ASSUME TokenTypeOK, NEW p \in Predecessor
    PROVE  /\ Shortened(p) \in Predecessor
           /\ Shortened(p).token = p.token
           /\ Shortened(p).until <= p.until
           /\ Shortened(p).until <= GraceUntil(p)
BY GraceUntilInNat DEF Shortened, Predecessor

\* What the server knows after it has read the file.
LEMMA Known ==
    ASSUME TokenTypeOK, Refresh
    PROVE  /\ now' = now
           /\ current' = IF auth.parses THEN auth.token ELSE current
           /\ previous' \subseteq Predecessor
           /\ \A p \in previous' :
                 /\ p.token \in Accepted /\ p.until > now
                 /\ auth.parses => \E q \in Predecessor :
                       q.token = p.token /\ p.until <= GraceUntil(q)
<1> DEFINE noticed == [token |-> current, noticedAt |-> now, until |-> now + grace]
           before  == IF auth.token # current THEN {noticed} ELSE previous
           known   == IF auth.parses THEN {Shortened(p) : p \in before} ELSE previous
<1>1. /\ now' = now
      /\ current' = IF auth.parses THEN auth.token ELSE current
      /\ previous' = {p \in known : p.until > now}
  BY DEF Refresh
<1>2. noticed \in Predecessor /\ now \in Nat
  BY TokenAssumption, GraceAssumption DEF TokenTypeOK, Predecessor
<1>3. before \subseteq Predecessor
  BY <1>2 DEF TokenTypeOK
<1>4. ASSUME NEW q \in before, q.until > now PROVE q.token \in Accepted
  BY <1>4 DEF Accepted
<1>5. ASSUME NEW p \in previous'
      PROVE  /\ p \in Predecessor
             /\ p.token \in Accepted /\ p.until > now
             /\ auth.parses => \E q \in Predecessor :
                       q.token = p.token /\ p.until <= GraceUntil(q)
  <2>1. p \in known /\ p.until > now
    BY <1>1
  <2>2. CASE auth.parses
    <3>1. PICK q \in before : p = Shortened(q)
      BY <2>1, <2>2
    <3>2. q \in Predecessor /\ q.until \in Nat
      BY <1>3 DEF Predecessor
    <3> HIDE DEF before, known, noticed
    <3>3. /\ p \in Predecessor /\ p.until \in Nat /\ p.token = q.token
          /\ p.until <= q.until /\ p.until <= GraceUntil(q)
      BY <3>1, <3>2, ShortenedGrant DEF Predecessor
    <3>4. q.until > now
      BY <1>2, <2>1, <3>2, <3>3
    <3> QED
      BY <1>4, <2>1, <3>2, <3>3, <3>4
  <2>3. CASE ~auth.parses
    BY <2>1, <2>3 DEF Accepted, TokenTypeOK
  <2> QED
    BY <2>2, <2>3
<1> QED
  BY <1>1, <1>5

\* Reading the file lets in its token and no other (auth.js:96-146).
LEMMA RefreshKeepsOut ==
    ASSUME TokenTypeOK, Refresh
    PROVE  Accepted' \subseteq Accepted \cup {auth.token}
<1>1. ASSUME NEW t \in Accepted', t # current' PROVE t \in Accepted
  BY <1>1, Known DEF Accepted
<1>2. current' \in Accepted \cup {auth.token}
  BY Known DEF Accepted
<1> QED
  BY <1>1, <1>2

\* Once the file is read, no token that it revoked is accepted
\* (auth.js:57-146).
LEMMA RefreshRevokes ==
    ASSUME TokenInv, Refresh, auth.parses
    PROVE  Accepted' \cap revoked = {}
<1> SUFFICES ASSUME NEW t \in Accepted', t \in revoked PROVE FALSE
  OBVIOUS
<1> USE DEF TokenInv, RevokedInv
<1>1. t # current'
  BY Known
<1>2. PICK p \in previous' : p.token = t
  BY <1>1 DEF Accepted
<1>3. PICK q \in Predecessor : q.token = t /\ p.until <= GraceUntil(q)
  BY <1>2, Known
<1>4. GraceUntil(q) # 0
  <2>1. p.until > now /\ p.until \in Nat /\ now \in Nat
    BY Known, TokenAssumption DEF Predecessor, TokenTypeOK
  <2> QED
    BY <1>3, <2>1
<1>5. auth.rotations \in Seq(Rotation)
  BY DEF TokenTypeOK
<1>6. ~ \A i \in DOMAIN auth.rotations : auth.rotations[i].to # auth.token
  <2>1. Len(auth.rotations) \in DOMAIN auth.rotations
    BY <1>5
  <2> QED
    BY <2>1
<1>7. PICK l \in DOMAIN auth.rotations :
         /\ auth.rotations[l].from = t
         /\ \A i \in l .. Len(auth.rotations) : auth.rotations[i].grace = "default"
  BY <1>3, <1>4, <1>6, GraceUntilInNat
<1> QED
  BY <1>7

\* Reading the file changes what the server knows only.
LEMMA RefreshStep ==
    ASSUME TokenInv, Refresh, grace' = grace, UNCHANGED authVars
    PROVE  TokenInv'
<1>1. TokenTypeOK'
  BY Known, TokenAssumption DEF TokenInv, TokenTypeOK, authVars, Rotation, Predecessor
<1>2. RevokedInv'
  BY DEF TokenInv, RevokedInv, authVars
<1> QED
  BY <1>1, <1>2 DEF TokenInv

\* The records that a rotation leaves: the last of those there were, and its own.
LEMMA RotationRecords ==
    ASSUME NEW r \in Seq(Rotation), NEW x \in Rotation, NEW d \in Nat,
           d <= Len(r)
    PROVE  LET s == SubSeq(Append(r, x), d + 1, Len(r) + 1)
           IN  /\ s \in Seq(Rotation)
               /\ Len(s) = Len(r) + 1 - d
               /\ s[Len(s)] = x
               /\ \A i \in 1 .. Len(s) - 1 : s[i] = r[d + i]
<1> DEFINE a == Append(r, x)
           s == SubSeq(a, d + 1, Len(r) + 1)
<1>1. /\ a \in Seq(Rotation) /\ Len(a) = Len(r) + 1 /\ a[Len(r) + 1] = x
      /\ \A i \in 1 .. Len(r) : a[i] = r[i]
  OBVIOUS
<1>2. \A i \in d + 1 .. Len(r) + 1 : a[i] \in Rotation
  BY <1>1
<1> HIDE DEF a
<1>3. /\ s \in Seq(Rotation)
      /\ Len(s) = Len(r) + 1 - d
      /\ \A i \in 1 .. Len(r) + 1 - d : s[i] = a[d + i]
  BY <1>2, SubSeqProperties
<1> HIDE DEF s
<1>4. s[Len(s)] = x
  BY <1>1, <1>3
<1>5. \A i \in 1 .. Len(s) - 1 : s[i] = r[d + i]
  BY <1>1, <1>3
<1> QED
  BY <1>3, <1>4, <1>5 DEF s, a

\* A rotation's record is the last, and revokes what the rotation does; those
\* that are dropped are the oldest (rotate-token.mjs).
LEMMA RotateStep ==
    ASSUME TokenInv, NEW kind \in {"default", "none"}, RotateToken(kind)
    PROVE  TokenInv'
<1> USE DEF TokenInv
<1>1. PICK t \in Token \ issued :
         LET record  == [to |-> t, from |-> auth.token, grace |-> kind, at |-> now]
             records == Append(auth.rotations, record)
             drop    == IF Len(records) > KeepRotations
                        THEN Len(records) - KeepRotations ELSE 0
         IN  /\ auth' = [auth EXCEPT !.token = t,
                           !.rotations = SubSeq(records, drop + 1, Len(records))]
             /\ issued' = issued \cup {t}
             /\ revoked' = IF kind = "none" THEN issued ELSE revoked
  BY DEF RotateToken
<1> DEFINE r == auth.rotations
           x == [to |-> t, from |-> auth.token, grace |-> kind, at |-> now]
           a == Append(r, x)
           d == IF Len(a) > KeepRotations THEN Len(a) - KeepRotations ELSE 0
           s == SubSeq(a, d + 1, Len(a))
<1>2. r \in Seq(Rotation) /\ x \in Rotation
  BY DEF TokenTypeOK, Rotation
<1>3. Len(a) = Len(r) + 1
  BY <1>2
<1>4. d \in Nat /\ d <= Len(r)
  BY <1>2, <1>3, TokenAssumption
<1>5. /\ auth' = [auth EXCEPT !.token = t, !.rotations = s]
      /\ issued' = issued \cup {t}
      /\ revoked' = IF kind = "none" THEN issued ELSE revoked
  BY <1>1
<1> HIDE DEF d
<1>6. /\ s \in Seq(Rotation)
      /\ Len(s) = Len(r) + 1 - d
      /\ s[Len(s)] = x
      /\ \A i \in 1 .. Len(s) - 1 : s[i] = r[d + i]
  <2>1. s = SubSeq(Append(r, x), d + 1, Len(r) + 1)
    BY <1>3
  <2> HIDE DEF r, x, a, s
  <2> QED
    BY <1>2, <1>4, <2>1, RotationRecords
<1> HIDE DEF s
<1>7. auth'.token = t /\ auth'.rotations = s /\ auth'.parses = auth.parses
  BY <1>5 DEF TokenTypeOK
<1>8. TokenTypeOK'
  BY <1>5, <1>6 DEF TokenTypeOK, RotateToken, serverVars
<1>9. Len(s) \in Nat \ {0} /\ DOMAIN s = 1 .. Len(s)
  BY <1>2, <1>4, <1>6
<1>10. revoked' # {} => auth'.rotations # <<>> /\ auth'.rotations[Len(auth'.rotations)].to = t
  BY <1>6, <1>7, <1>9
<1>11. t \in issued' \ revoked' /\ revoked' \subseteq issued'
  BY <1>5 DEF RevokedInv
<1>12. ASSUME NEW i \in DOMAIN s, s[i].from \in revoked'
       PROVE  \E j \in i .. Len(s) : s[j].grace = "none"
  <2>1. CASE kind = "none"
    BY <1>6, <1>9, <2>1
  <2>2. CASE kind # "none"
    <3>1. s[i].from \in revoked
      BY <1>5, <1>12, <2>2
    <3>2. i # Len(s)
      BY <1>6, <3>1 DEF RevokedInv
    <3>3. i \in 1 .. Len(s) - 1 /\ d + i \in 1 .. Len(r)
      BY <1>2, <1>4, <1>6, <1>9, <3>2
    <3>4. PICK j \in d + i .. Len(r) : r[j].grace = "none"
      BY <1>2, <1>6, <3>1, <3>3 DEF RevokedInv
    <3>5. j - d \in i .. Len(s) - 1 /\ s[j - d] = r[j]
      BY <1>2, <1>4, <1>6, <3>3, <3>4
    <3> QED
      BY <1>9, <3>4, <3>5
  <2> QED
    BY <2>1, <2>2
<1>13. RevokedInv'
  BY <1>7, <1>10, <1>11, <1>12 DEF RevokedInv
<1> QED
  BY <1>8, <1>13

\* Whatever happens to the file and the settings.
LEMMA TokenEventStep ==
    ASSUME TokenInv, TokenEvent
    PROVE  TokenInv' /\ UNCHANGED <<now, serverVars>>
<1>1. ASSUME NEW kind \in {"default", "none"}, RotateToken(kind)
      PROVE  TokenInv' /\ UNCHANGED <<now, serverVars>>
  BY <1>1, RotateStep DEF RotateToken
<1>2. CASE EditToken
  BY <1>2 DEF EditToken, TokenInv, TokenTypeOK, RevokedInv, serverVars
<1>3. CASE EditFile
  <2>1. PICK b \in BOOLEAN : auth' = [auth EXCEPT !.parses = b]
    BY <1>3 DEF EditFile, TokenInv, TokenTypeOK
  <2>2. auth'.token = auth.token /\ auth'.rotations = auth.rotations
    BY <2>1 DEF TokenInv, TokenTypeOK
  <2>3. TokenTypeOK'
    BY <1>3, <2>1 DEF EditFile, TokenInv, TokenTypeOK, serverVars
  <2>4. RevokedInv'
    BY <1>3, <2>2 DEF EditFile, TokenInv, RevokedInv
  <2> QED
    BY <1>3, <2>3, <2>4 DEF EditFile, TokenInv
<1>4. CASE SetGrace
  BY <1>4 DEF SetGrace, TokenInv, TokenTypeOK, RevokedInv, authVars, serverVars
<1> QED
  BY <1>1, <1>2, <1>3, <1>4 DEF TokenEvent

\* A server that starts knows the file's token.
LEMMA StartStep ==
    ASSUME TokenInv, ReadAtStart, UNCHANGED <<now, grace, authVars>>
    PROVE  TokenInv'
BY DEF ReadAtStart, TokenInv, TokenTypeOK, RevokedInv, authVars
=============================================================================
