----------------------------- MODULE TokenState ------------------------------
(***************************************************************************)
(* Which tokens the server accepts (server/src/auth.js).  The token is in  *)
(* config.json, which the server reads before it checks a request.  A      *)
(* rotation (install/rotate-token.mjs) replaces it and leaves a record, by *)
(* which the old one is accepted for a while or, after --revoke-now, no    *)
(* longer.  A person may replace it too, without a record.                 *)
(***************************************************************************)
EXTENDS Naturals, Sequences

CONSTANTS
    Token,
    Graces,         \* the lengths of the grace period one can set
    KeepRotations,  \* how many records the file keeps; ten in the code
    MaxTime         \* bound: the clock stops here

ASSUME GraceAssumption == Graces \subseteq Nat /\ Graces # {}
ASSUME TokenAssumption ==
    Token # {} /\ KeepRotations \in Nat \ {0} /\ MaxTime \in Nat

VARIABLES
    now,        \* the clock
    auth,       \* config.json: the token, the records, its syntax
    grace,      \* the length of the grace period in force
    current,    \* the token the server knows
    previous,   \* the one before, while it is accepted: a set of at most one
    issued,     \* history: the tokens that were in the file
    revoked     \* history: those no request may use, as a rotation said

authVars == <<auth, issued, revoked>>
serverVars == <<current, previous>>
tokenVars == <<now, auth, grace, current, previous, issued, revoked>>

Rotation == [to : Token, from : Token, grace : {"default", "none"},
             at : 0 .. MaxTime]
Predecessor == [token : Token, noticedAt : 0 .. MaxTime, until : Nat]

TokenTypeOK ==
    /\ now \in 0 .. MaxTime
    /\ auth \in [token : Token, rotations : Seq(Rotation), parses : BOOLEAN]
    /\ grace \in Graces
    /\ current \in Token
    /\ previous \in SUBSET Predecessor
    /\ issued \in SUBSET Token /\ revoked \in SUBSET Token

TokenInit ==
    /\ now = 0
    /\ \E t \in Token : auth = [token |-> t, rotations |-> <<>>, parses |-> TRUE]
    /\ grace \in Graces
    /\ current = auth.token
    /\ previous = {}
    /\ issued = {auth.token}
    /\ revoked = {}

-----------------------------------------------------------------------------
(* The server.                                                             *)

\* Fault: a later rotation that revokes is not looked for.
GraceUntilOwnRecord(p) ==
    LET from == {i \in DOMAIN auth.rotations : auth.rotations[i].from = p.token}
        last == CHOOSE i \in from : \A j \in from : j <= i
    IN  IF from # {} /\ auth.rotations[last].grace = "default"
        THEN auth.rotations[last].at + grace
        ELSE 0

\* Until when the predecessor p is accepted, by the file: when the token has a
\* record, the one that rotated p out counts, unless it or a later one revokes;
\* else the grace runs from the moment the change was noticed.
GraceUntil(p) ==
    LET records == auth.rotations
        from == {i \in DOMAIN records : records[i].from = p.token}
    IN  IF \A i \in DOMAIN records : records[i].to # auth.token
        THEN p.noticedAt + grace
        ELSE IF from = {} THEN 0
        ELSE LET last == CHOOSE i \in from : \A j \in from : j <= i
             IN  IF \A i \in last .. Len(records) : records[i].grace = "default"
                 THEN records[last].at + grace
                 ELSE 0

\* What the file says can only shorten what was granted.
Shortened(p) ==
    [p EXCEPT !.until = IF GraceUntil(p) < @ THEN GraceUntil(p) ELSE @]

\* The server reads the file; one that makes no sense changes nothing but
\* that the grace runs out.
Refresh ==
    LET noticed == [token |-> current, noticedAt |-> now, until |-> now + grace]
        before  == IF auth.token # current THEN {noticed} ELSE previous
        known   == IF auth.parses THEN {Shortened(p) : p \in before} ELSE previous
    IN  /\ UNCHANGED now
        /\ current' = IF auth.parses THEN auth.token ELSE current
        /\ previous' = {p \in known : p.until > now}

\* The tokens it accepts.
Accepted == {current} \cup {p.token : p \in {q \in previous : q.until > now}}

\* A server that starts knows the token of the file, and none before.
ReadAtStart ==
    /\ auth.parses
    /\ current' = auth.token
    /\ previous' = {}

-----------------------------------------------------------------------------
(* The file.                                                               *)

(* A rotation, which grants the old token its grace or revokes it and all  *)
(* before it.  The records before the last KeepRotations are dropped.      *)
RotateToken(kind) ==
    /\ auth.parses
    /\ \E t \in Token \ issued :
          LET record  == [to |-> t, from |-> auth.token, grace |-> kind, at |-> now]
              records == Append(auth.rotations, record)
              drop    == IF Len(records) > KeepRotations
                         THEN Len(records) - KeepRotations ELSE 0
          IN  /\ auth' = [auth EXCEPT !.token = t,
                            !.rotations = SubSeq(records, drop + 1, Len(records))]
              /\ issued' = issued \cup {t}
              /\ revoked' = IF kind = "none" THEN issued ELSE revoked
    /\ UNCHANGED <<now, grace, serverVars>>

(* Somebody writes another token into the file, or one from before.        *)
(* Without a record for it, what was revoked unnoticed is so no longer.    *)
EditToken ==
    /\ auth.parses
    /\ \E t \in Token \ {auth.token} :
          /\ auth' = [auth EXCEPT !.token = t]
          /\ issued' = issued \cup {t}
    /\ revoked' = {}
    /\ UNCHANGED <<now, grace, serverVars>>

(* An editor's save is caught half-way, or complete.                       *)
EditFile ==
    /\ auth' = [auth EXCEPT !.parses = ~@]
    /\ UNCHANGED <<issued, revoked, now, grace, serverVars>>

(* The setting auth.previousTokenGraceHours is changed.                    *)
SetGrace ==
    /\ grace' \in Graces \ {grace}
    /\ UNCHANGED <<now, authVars, serverVars>>

TokenEvent ==
    \/ \E kind \in {"default", "none"} : RotateToken(kind)
    \/ EditToken \/ EditFile \/ SetGrace
=============================================================================
