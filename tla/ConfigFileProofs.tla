-------------------------- MODULE ConfigFileProofs ---------------------------
(***************************************************************************)
(* Proofs about ConfigFile for any set of programs.  One program at a time *)
(* is within the lock; so what it read is what edits by hand have replaced *)
(* since the last save at worst, which makes every save one of the         *)
(* register; and what it derives from the file follows its own save.       *)
(***************************************************************************)
EXTENDS ConfigFile, TLAPS

\* The lock is held by the program that is in it, and by no other.
LockInv == \A p \in Program : pc[p] \in InLock <=> holder = p

\* What a program has read is what the file held since the last save.
ReadInv ==
    \A p \in Program :
        pc[p] \in {"read", "staged", "checked"} =>
            SavesIn(text[p]) \in undone \cup {SavesIn(file)}

\* Only an installer looks for a token; a program that refreshes what follows
\* from the file has it as it is; a rotation that does is the last that saved.
MirrorInv ==
    \A p \in Program :
        /\ pc[p] = "looking" => p \in Install
        /\ pc[p] = "sourced" /\ undone = {} => text[p] = file
        /\ pc[p] = "cached" => p \in Rotate
        /\ pc[p] = "cached" /\ undone = {} => cache = file.token
        /\ p \in Rotate /\ pc[p] \in {"saved", "sourced", "cached"} => last = p

IInv == TypeOK /\ LockInv /\ ReadInv /\ MirrorInv /\ MirrorsFollow

-----------------------------------------------------------------------------
(* Types.                                                                  *)

LEMMA ChangedType ==
    ASSUME NEW p \in Program, NEW c \in Contents
    PROVE  Changed(p, c) \in Contents
BY DEF Changed, Contents

LEMMA InstalledType == Installed \in Contents
BY DEF Installed, Contents

\* The components keep their types (config-lock.mjs, config-store.js,
\* rotate-token.mjs, ensure-token.mjs).
LEMMA TypeStep == TypeOK /\ [Next]_vars => TypeOK'
<1> SUFFICES ASSUME TypeOK, [Next]_vars PROVE TypeOK'
  OBVIOUS
<1> USE NamesAssumption, InstalledType DEF TypeOK
<1>1. ASSUME NEW p \in Program, Acquire(p) PROVE TypeOK'
  BY <1>1 DEF Acquire, First, At, Goto, fileVars, mirrors, progress, Pc, InLock
<1>2. ASSUME NEW p \in Program, GiveUp(p) PROVE TypeOK'
  BY <1>2 DEF GiveUp, At, Goto, fileVars, mirrors, progress, Pc, Ended
<1>3. ASSUME NEW p \in Program, ReadFile(p) PROVE TypeOK'
  BY <1>3 DEF ReadFile, Read, At, Goto, fileVars, mirrors, progress, Pc, InLock
<1>4. ASSUME NEW p \in Program, Refuse(p) PROVE TypeOK'
  BY <1>4 DEF Refuse, Release, At, Goto, fileVars, mirrors, progress, Pc,
              InLock, Ended
<1>5. ASSUME NEW p \in Program, Stage(p) PROVE TypeOK'
  BY <1>5 DEF Stage, Retry, Release, At, Goto, fileVars, mirrors, progress, Pc,
              InLock, Ended
<1>6. ASSUME NEW p \in Program, Check(p) PROVE TypeOK'
  BY <1>6 DEF Check, Retry, Release, At, Goto, fileVars, mirrors, progress, Pc,
              InLock, Ended
<1>7. ASSUME NEW p \in Program, Rename(p) PROVE TypeOK'
  <2>1. Changed(p, text[p]) \in Contents
    BY ChangedType
  <2> QED
    BY <1>7, <2>1 DEF Rename, Replace, At, Goto, mirrors, progress, Pc, InLock
<1>8. ASSUME NEW p \in Program, ReadSource(p) PROVE TypeOK'
  BY <1>8 DEF ReadSource, Read, At, Goto, fileVars, mirrors, Pc, InLock
<1>9. ASSUME NEW p \in Program, RefreshHookCredentials(p) PROVE TypeOK'
  BY <1>9 DEF RefreshHookCredentials, Release, At, Goto, fileVars, progress, Pc,
              InLock, Ended, Contents
<1>10. ASSUME NEW p \in Program, UpdateCodexEntry(p) PROVE TypeOK'
  BY <1>10 DEF UpdateCodexEntry, Release, At, Goto, fileVars, Pc, Ended
<1>11. ASSUME NEW p \in Program, WriteFails(p) PROVE TypeOK'
  BY <1>11 DEF WriteFails, Release, Goto, fileVars, mirrors, Pc, Ended
<1>12. ASSUME NEW p \in Program, RefreshFails(p) PROVE TypeOK'
  BY <1>12 DEF RefreshFails, Release, Goto, fileVars, Pc, Ended
<1>13. ASSUME NEW p \in Program, Stop(p) PROVE TypeOK'
  BY <1>13 DEF Stop, Release, Goto, fileVars, mirrors, Pc, Ended
<1>14. ASSUME EditByHand PROVE TypeOK'
  <2>1. file' \in Contents
    <3> DEFINE edited(b) == [b EXCEPT !.holds = @ \cup {Hand}, !.parses = TRUE]
    <3>1. PICK base \in {file, Installed} :
             file' \in {edited(base), [edited(base) EXCEPT !.token = NoOne],
                       [file EXCEPT !.parses = FALSE]}
      BY <1>14 DEF EditByHand
    <3>2. edited(base) \in Contents
      BY DEF Contents
    <3> HIDE DEF edited
    <3>3. [edited(base) EXCEPT !.token = NoOne] \in Contents
      BY <3>2 DEF Contents
    <3>4. [file EXCEPT !.parses = FALSE] \in Contents
      BY DEF Contents
    <3> QED
      BY <3>1, <3>2, <3>3, <3>4
  <2>2. undone' \in SUBSET SUBSET Program
    BY <1>14 DEF EditByHand, SavesIn
  <2> QED
    BY <1>14, <2>1, <2>2 DEF EditByHand, mirrors, progress
<1>15. CASE UNCHANGED vars
  BY <1>15 DEF vars
<1>16. ASSUME NEW p \in Program, LookForToken(p) PROVE TypeOK'
  BY <1>16 DEF LookForToken, Release, At, Goto, fileVars, mirrors, progress, Pc,
               InLock, Ended
<1> QED
  BY <1>1, <1>2, <1>3, <1>4, <1>5, <1>6, <1>7, <1>8, <1>9, <1>10, <1>11,
     <1>12, <1>13, <1>14, <1>15, <1>16 DEF Next, Step

-----------------------------------------------------------------------------
(* The lock.                                                               *)

\* A step of a program is taken outside the lock or with it: what it does to
\* the lock and to how far the programs have got.
Takes(p) == /\ pc[p] = "started" /\ holder = NoOne /\ holder' = p
            /\ pc' \in {[pc EXCEPT ![p] = s] : s \in InLock}
Waits(p) == /\ pc[p] = "started" /\ holder' = holder
            /\ pc' = [pc EXCEPT ![p] = "failed"]
Keeps(p) == /\ pc[p] \in InLock /\ holder' = holder
            /\ pc' \in {[pc EXCEPT ![p] = s] : s \in InLock}
Leaves(p) == /\ holder' = IF holder = p THEN NoOne ELSE holder
             /\ pc' \in {[pc EXCEPT ![p] = s] : s \in Ended}

LEMMA LockShape ==
    ASSUME NEW p \in Program, Step(p) \/ Stop(p)
    PROVE  Takes(p) \/ Waits(p) \/ Keeps(p) \/ Leaves(p)
<1> USE DEF Takes, Waits, Keeps, Leaves, At, Goto, InLock, Ended
<1>1. CASE Acquire(p)
  BY <1>1 DEF Acquire, First
<1>2. CASE GiveUp(p)
  BY <1>2 DEF GiveUp
<1>3. CASE ReadFile(p)
  BY <1>3 DEF ReadFile, Read
<1>4. CASE Refuse(p)
  BY <1>4 DEF Refuse, Release
<1>5. CASE Stage(p)
  BY <1>5 DEF Stage, Retry, Release
<1>6. CASE Check(p)
  BY <1>6 DEF Check, Retry, Release
<1>7. CASE Rename(p)
  BY <1>7 DEF Rename
<1>8. CASE ReadSource(p)
  BY <1>8 DEF ReadSource, Read
<1>9. CASE RefreshHookCredentials(p)
  BY <1>9 DEF RefreshHookCredentials, Release
<1>10. CASE UpdateCodexEntry(p)
  BY <1>10 DEF UpdateCodexEntry, Release
<1>11. CASE WriteFails(p)
  BY <1>11 DEF WriteFails, Release
<1>12. CASE RefreshFails(p)
  BY <1>12 DEF RefreshFails, Release
<1>13. CASE Stop(p)
  BY <1>13 DEF Stop, Release
<1>14. CASE LookForToken(p)
  BY <1>14 DEF LookForToken, Release
<1> QED
  BY <1>1, <1>2, <1>3, <1>4, <1>5, <1>6, <1>7, <1>8, <1>9, <1>10, <1>11,
     <1>12, <1>13, <1>14 DEF Step

LEMMA LockStep == TypeOK /\ LockInv /\ [Next]_vars => LockInv'
<1> SUFFICES ASSUME TypeOK, LockInv, [Next]_vars PROVE LockInv'
  OBVIOUS
<1>1. ASSUME NEW p \in Program, Step(p) \/ Stop(p) PROVE LockInv'
  <2>1. Takes(p) \/ Waits(p) \/ Keeps(p) \/ Leaves(p)
    BY <1>1, LockShape
  <2> QED
    BY <2>1, NamesAssumption
    DEF TypeOK, LockInv, Takes, Waits, Keeps, Leaves, InLock, Ended
<1>2. CASE EditByHand
  BY <1>2 DEF LockInv, EditByHand
<1>3. CASE UNCHANGED vars
  BY <1>3 DEF LockInv, vars
<1> QED
  BY <1>1, <1>2, <1>3 DEF Next

-----------------------------------------------------------------------------
(* What the programs have read.                                            *)

LEMMA ReadStep ==
    TypeOK /\ LockInv /\ ReadInv /\ [Next]_vars => ReadInv'
<1> SUFFICES ASSUME TypeOK, LockInv, ReadInv, [Next]_vars PROVE ReadInv'
  OBVIOUS
<1> USE NamesAssumption DEF TypeOK, ReadInv
<1>1. ASSUME NEW p \in Program, Acquire(p) PROVE ReadInv'
  BY <1>1 DEF Acquire, First, At, Goto, fileVars, mirrors, progress
<1>2. ASSUME NEW p \in Program, GiveUp(p) PROVE ReadInv'
  BY <1>2 DEF GiveUp, At, Goto, fileVars, mirrors, progress
<1>3. ASSUME NEW p \in Program, ReadFile(p) PROVE ReadInv'
  BY <1>3 DEF ReadFile, Read, At, Goto, fileVars, mirrors
<1>4. ASSUME NEW p \in Program, Refuse(p) PROVE ReadInv'
  BY <1>4 DEF Refuse, Release, At, Goto, fileVars, mirrors, progress
<1>5. ASSUME NEW p \in Program, Stage(p) PROVE ReadInv'
  BY <1>5 DEF Stage, Retry, Release, At, Goto, fileVars, mirrors, progress
<1>6. ASSUME NEW p \in Program, Check(p) PROVE ReadInv'
  BY <1>6 DEF Check, Retry, Release, At, Goto, fileVars, mirrors, progress
<1>7. ASSUME NEW p \in Program, Rename(p) PROVE ReadInv'
  <2>1. \A q \in Program \ {p} : pc'[q] = pc[q] /\ holder # q
    BY <1>7 DEF Rename, At, Goto, LockInv, InLock
  <2>2. pc'[p] = "saved"
    BY <1>7 DEF Rename, At, Goto
  <2> QED
    BY <2>1, <2>2 DEF LockInv, InLock
<1>8. ASSUME NEW p \in Program, ReadSource(p) PROVE ReadInv'
  BY <1>8 DEF ReadSource, Read, At, Goto, fileVars, mirrors
<1>9. ASSUME NEW p \in Program, RefreshHookCredentials(p) PROVE ReadInv'
  BY <1>9 DEF RefreshHookCredentials, Release, At, Goto, fileVars, progress
<1>10. ASSUME NEW p \in Program, UpdateCodexEntry(p) PROVE ReadInv'
  BY <1>10 DEF UpdateCodexEntry, Release, At, Goto, fileVars
<1>11. ASSUME NEW p \in Program, WriteFails(p) PROVE ReadInv'
  BY <1>11 DEF WriteFails, Release, Goto, fileVars, mirrors
<1>12. ASSUME NEW p \in Program, RefreshFails(p) PROVE ReadInv'
  BY <1>12 DEF RefreshFails, Release, Goto, fileVars
<1>13. ASSUME NEW p \in Program, Stop(p) PROVE ReadInv'
  BY <1>13 DEF Stop, Release, Goto, fileVars, mirrors
<1>14. ASSUME EditByHand PROVE ReadInv'
  <2>1. undone' = undone \cup {SavesIn(file)} /\ text' = text /\ pc' = pc
    BY <1>14 DEF EditByHand, mirrors, progress
  <2> QED
    BY <2>1
<1>15. CASE UNCHANGED vars
  BY <1>15 DEF vars
<1>16. ASSUME NEW p \in Program, LookForToken(p) PROVE ReadInv'
  BY <1>16 DEF LookForToken, Release, At, Goto, fileVars, mirrors, progress
<1> QED
  BY <1>1, <1>2, <1>3, <1>4, <1>5, <1>6, <1>7, <1>8, <1>9, <1>10, <1>11,
     <1>12, <1>13, <1>14, <1>15, <1>16 DEF Next, Step

-----------------------------------------------------------------------------
(* What follows from the file.                                             *)

LEMMA MirrorStep ==
    TypeOK /\ LockInv /\ MirrorInv /\ MirrorsFollow /\ [Next]_vars
        => MirrorInv' /\ MirrorsFollow'
<1> SUFFICES ASSUME TypeOK, LockInv, MirrorInv, MirrorsFollow, [Next]_vars
             PROVE  MirrorInv' /\ MirrorsFollow'
  OBVIOUS
<1> USE NamesAssumption, KindsAssumption DEF TypeOK, MirrorInv, MirrorsFollow
<1>1. ASSUME NEW p \in Program, Acquire(p) PROVE MirrorInv' /\ MirrorsFollow'
  BY <1>1 DEF Acquire, First, At, Goto, fileVars, mirrors, progress
<1>2. ASSUME NEW p \in Program, GiveUp(p) PROVE MirrorInv' /\ MirrorsFollow'
  BY <1>2 DEF GiveUp, At, Goto, fileVars, mirrors, progress
<1>3. ASSUME NEW p \in Program, ReadFile(p) PROVE MirrorInv' /\ MirrorsFollow'
  BY <1>3 DEF ReadFile, Read, At, Goto, fileVars, mirrors
<1>4. ASSUME NEW p \in Program, Refuse(p) PROVE MirrorInv' /\ MirrorsFollow'
  BY <1>4 DEF Refuse, Release, At, Goto, fileVars, mirrors, progress
<1>5. ASSUME NEW p \in Program, Stage(p) PROVE MirrorInv' /\ MirrorsFollow'
  BY <1>5 DEF Stage, Retry, Release, At, Goto, fileVars, mirrors, progress
<1>6. ASSUME NEW p \in Program, Check(p) PROVE MirrorInv' /\ MirrorsFollow'
  BY <1>6 DEF Check, Retry, Release, At, Goto, fileVars, mirrors, progress
<1>7. ASSUME NEW p \in Program, Rename(p) PROVE MirrorInv' /\ MirrorsFollow'
  <2>1. /\ pc[p] = "checked" /\ pc' = [pc EXCEPT ![p] = "saved"]
        /\ last' = p /\ undone' = {} /\ holder = p
    BY <1>7 DEF Rename, Replace, At, Goto, LockInv, InLock
  <2>2. \A q \in Program \ {p} :
           pc'[q] = pc[q] /\ pc[q] \notin {"saved", "sourced", "cached"}
    BY <2>1 DEF LockInv, InLock
  <2> QED
    BY <2>1, <2>2
<1>8. ASSUME NEW p \in Program, ReadSource(p) PROVE MirrorInv' /\ MirrorsFollow'
  BY <1>8 DEF ReadSource, Read, At, Goto, fileVars, mirrors
<1>9. ASSUME NEW p \in Program, RefreshHookCredentials(p)
      PROVE  MirrorInv' /\ MirrorsFollow'
  BY <1>9 DEF RefreshHookCredentials, Release, At, Goto, fileVars, progress,
              LockInv, InLock
<1>10. ASSUME NEW p \in Program, UpdateCodexEntry(p)
       PROVE  MirrorInv' /\ MirrorsFollow'
  <2>1. p \in Rotate => last = p
    BY <1>10 DEF UpdateCodexEntry, At
  <2> QED
    BY <1>10, <2>1 DEF UpdateCodexEntry, Release, At, Goto, fileVars, LockInv,
                       InLock
<1>11. ASSUME NEW p \in Program, WriteFails(p) PROVE MirrorInv' /\ MirrorsFollow'
  BY <1>11 DEF WriteFails, Release, Goto, fileVars, mirrors
<1>12. ASSUME NEW p \in Program, RefreshFails(p)
       PROVE  MirrorInv' /\ MirrorsFollow'
  BY <1>12 DEF RefreshFails, Release, Goto, fileVars, LockInv, InLock
<1>13. ASSUME NEW p \in Program, Stop(p) PROVE MirrorInv' /\ MirrorsFollow'
  BY <1>13 DEF Stop, Release, Goto, fileVars, mirrors, InLock
<1>14. ASSUME EditByHand PROVE MirrorInv' /\ MirrorsFollow'
  <2>1. undone' # {}
    BY <1>14 DEF EditByHand
  <2>2. UNCHANGED <<last, cache, codex, pc>>
    BY <1>14 DEF EditByHand, mirrors
  <2> QED
    BY <2>1, <2>2
<1>15. CASE UNCHANGED vars
  BY <1>15 DEF vars
<1>16. ASSUME NEW p \in Program, LookForToken(p)
       PROVE  MirrorInv' /\ MirrorsFollow'
  BY <1>16 DEF LookForToken, Release, At, Goto, fileVars, mirrors, progress
<1> QED
  BY <1>1, <1>2, <1>3, <1>4, <1>5, <1>6, <1>7, <1>8, <1>9, <1>10, <1>11,
     <1>12, <1>13, <1>14, <1>15, <1>16 DEF Next, Step

-----------------------------------------------------------------------------
(* The theorems.                                                           *)

LEMMA InitIInv == Init => IInv
<1> SUFFICES ASSUME Init PROVE IInv
  OBVIOUS
<1> USE NamesAssumption DEF Init
<1>1. TypeOK
  BY InstalledType DEF TypeOK, Pc
<1>2. LockInv
  BY DEF LockInv, InLock
<1>3. ReadInv /\ MirrorInv /\ MirrorsFollow
  BY DEF ReadInv, MirrorInv, MirrorsFollow
<1> QED
  BY <1>1, <1>2, <1>3 DEF IInv

LEMMA StepIInv == IInv /\ [Next]_vars => IInv'
BY TypeStep, LockStep, ReadStep, MirrorStep DEF IInv

(* The lock is held by the program in it, what a program has read is no    *)
(* older than the last save, and what it derives from the file follows     *)
(* (acquireConfigLock, updateConfigFile, refreshHookCredentials).          *)
THEOREM Invariance == Spec => []IInv
BY InitIInv, StepIInv, PTL DEF Spec

(* The files, the programs' progress and what they have read are what the  *)
(* model says they are (config-lock.mjs, config-store.js).                 *)
THEOREM TypeCorrect == Spec => []TypeOK
<1>1. IInv => TypeOK
  BY DEF IInv
<1> QED
  BY <1>1, Invariance, PTL

(* No two programs are within the lock (acquireConfigLock).                *)
THEOREM OneInLock ==
    Spec => [](\A p, q \in Program : pc[p] \in InLock /\ pc[q] \in InLock => p = q)
<1>1. IInv => \A p, q \in Program : pc[p] \in InLock /\ pc[q] \in InLock => p = q
  BY DEF IInv, LockInv
<1> QED
  BY <1>1, Invariance, PTL

(* What is derived from the file follows the program that saved last.      *)
THEOREM MirrorsFollowTheFile == Spec => []MirrorsFollow
<1>1. IInv => MirrorsFollow
  BY DEF IInv
<1> QED
  BY <1>1, Invariance, PTL

\* A save is a save of the register.
LEMMA SaveRefines ==
    ASSUME IInv, NEW p \in Program, Rename(p)
    PROVE  Register!Add(p)
<1>1. pc[p] = "checked" /\ file' = Changed(p, text[p]) /\ undone' = {}
  BY DEF Rename, Replace, At
<1>2. SavesIn(text[p]) \in undone \cup {SavesIn(file)}
  BY <1>1 DEF IInv, ReadInv
<1>3. text[p] \in Contents
  BY DEF IInv, TypeOK
<1>4. SavesIn(file)' = SavesIn(text[p]) \cup {p}
  BY <1>1, <1>3, NamesAssumption DEF SavesIn, Changed, Contents
<1> QED
  BY <1>1, <1>2, <1>4 DEF Register!Add

\* An edit by hand is an edit of the register.
LEMMA EditRefines ==
    ASSUME IInv, EditByHand
    PROVE  Register!Edit
<1>1. file \in Contents
  BY DEF IInv, TypeOK
<1>2. SavesIn(file)' \in SUBSET SavesIn(file)
  BY <1>1, NamesAssumption DEF EditByHand, SavesIn, Installed, Contents
<1> QED
  BY <1>2 DEF EditByHand, Register!Edit

LEMMA StepRefines == IInv /\ [Next]_vars => [Register!Next]_(Register!vars)
<1> SUFFICES ASSUME IInv, [Next]_vars PROVE [Register!Next]_(Register!vars)
  OBVIOUS
<1>1. ASSUME NEW p \in Program, Rename(p) PROVE Register!Next
  BY <1>1, SaveRefines DEF Register!Next
<1>2. ASSUME EditByHand PROVE Register!Next
  BY <1>2, EditRefines DEF Register!Next
<1>3. ASSUME NEW p \in Program, Step(p) \/ Stop(p), ~Rename(p)
      PROVE  UNCHANGED <<file, undone>>
  BY <1>3 DEF Step, Acquire, GiveUp, LookForToken, ReadFile, Read, Refuse, Stage, Check,
              ReadSource, RefreshHookCredentials, UpdateCodexEntry, WriteFails,
              RefreshFails, Stop, fileVars
<1>4. ASSUME UNCHANGED <<file, undone>> PROVE UNCHANGED Register!vars
  BY <1>4 DEF Register!vars, SavesIn
<1>5. CASE UNCHANGED vars
  BY <1>4, <1>5 DEF vars
<1> QED
  BY <1>1, <1>2, <1>3, <1>4, <1>5 DEF Next

(* No program undoes what another saved: for any set of programs,          *)
(* config.json is a register that every save adds to (config-lock.mjs,     *)
(* config-store.js).                                                       *)
THEOREM SavesAreKeptAlways == Spec => SavesAreKept
<1>1. Init => Register!Init
  BY DEF Init, Register!Init, SavesIn, Installed
<1>2. Spec => []IInv
  BY Invariance
<1>3. Spec => Register!Init /\ [][Register!Next]_(Register!vars)
  BY <1>1, <1>2, StepRefines, PTL DEF Spec
<1> QED
  BY <1>3 DEF SavesAreKept, Register!Spec
=============================================================================
