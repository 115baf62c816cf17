----------------------------- MODULE ContextLock -----------------------------
(***************************************************************************)
(* What the pipelines of a context are promised: the context's stored      *)
(* state is under a lock that one pipeline holds at a time and that is     *)
(* given in the order it was asked for.  A pipeline may leave the line     *)
(* before its turn, and whoever stands behind it moves up.  ReviewQueue    *)
(* implements the lock with a chain of promises.                           *)
(***************************************************************************)
CONSTANTS
    Proc,   \* the pipelines
    Ctx,    \* the contexts
    None    \* no pipeline

VARIABLES
    waiting,    \* waiting[c]: the pipelines in line for context c
    before,     \* before[p]: the pipelines that stand before p in its line
    holder      \* holder[c]: the pipeline that holds context c

vars == <<waiting, before, holder>>

Init ==
    /\ waiting = [c \in Ctx |-> {}]
    /\ before = [p \in Proc |-> {}]
    /\ holder = [c \in Ctx |-> None]

\* p leaves the line of c, and those behind it move up.
Leave(p, c) ==
    /\ p \in waiting[c]
    /\ waiting' = [waiting EXCEPT ![c] = @ \ {p}]
    /\ before' = [q \in Proc |-> IF q = p THEN {} ELSE before[q] \ {p}]

\* p joins the end of the line.
Ask(p, c) ==
    /\ \A d \in Ctx : p \notin waiting[d] /\ holder[d] # p
    /\ waiting' = [waiting EXCEPT ![c] = @ \cup {p}]
    /\ before' = [before EXCEPT ![p] = waiting[c]]
    /\ UNCHANGED holder

\* The first in line, p takes the lock when it is free.
Acquire(p, c) ==
    /\ before[p] = {}
    /\ holder[c] = None
    /\ Leave(p, c)
    /\ holder' = [holder EXCEPT ![c] = p]

GiveUp(p, c) == Leave(p, c) /\ UNCHANGED holder

Release(c) ==
    /\ holder[c] # None
    /\ holder' = [holder EXCEPT ![c] = None]
    /\ UNCHANGED <<waiting, before>>

Next ==
    \E c \in Ctx :
        \/ \E p \in Proc : Ask(p, c) \/ Acquire(p, c) \/ GiveUp(p, c)
        \/ Release(c)

Spec == Init /\ [][Next]_vars

First(p, c) == p \in waiting[c] /\ before[p] = {}

(* A free lock is not left lying: whoever is first in line takes it or     *)
(* leaves, although links that were given up stand between it and the      *)
(* pipeline that held the lock last (review.js:801-808).                   *)
HeadIsServed ==
    \A c \in Ctx, p \in Proc :
        First(p, c) /\ holder[c] = None ~> p \notin waiting[c]
=============================================================================
