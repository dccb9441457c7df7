-------------------------- MODULE MultipartProofs ---------------------------
(***************************************************************************)
(* What holds of a multipart upload for any PUTs, parts and completes, any *)
(* client and any number of faults: types, that completes exclude each     *)
(* other, that their lock is held by somebody, and what an object that was *)
(* published without a task can still be completed with.                   *)
(***************************************************************************)
EXTENDS MultipartUpload, TLAPS

LEMMA InitTyped == Init => TypeOK
<1> SUFFICES ASSUME Init PROVE TypeOK
  OBVIOUS
<1> USE MultipartAssumption DEF Init
<1>1. /\ todo \in [Completes -> SUBSET Parts]
      /\ left \in [Removers -> SUBSET (Parts \cup Puts)]
      /\ temp \in SUBSET Puts /\ faults \in 0 .. MaxFaults
  OBVIOUS
<1>2. merged \in [Completes -> Seq(Puts)] /\ object \in Seq(Puts)
  OBVIOUS
<1> QED
  BY <1>1, <1>2 DEF TypeOK

\* The PUTs.
LEMMA PutTyped ==
  ASSUME TypeOK, NEW q \in Puts,
         \/ PutAdmit(q) \/ PutRefuse(q) \/ PutOpen(q)
         \/ PutRename(q) \/ PutAck(q) \/ PutFail(q)
  PROVE  TypeOK'
<1> USE DEF TypeOK, lifeVars, filesVars, mergeVars, rmVars, PutGoesTo
<1>1. CASE PutAdmit(q)
  BY <1>1 DEF PutAdmit
<1>2. CASE PutRefuse(q)
  BY <1>2 DEF PutRefuse, ActiveSessionMissed
<1>3. CASE PutOpen(q)
  BY <1>3 DEF PutOpen
<1>4. CASE PutRename(q)
  <2>1. PartOf[q] \in Parts
    BY DEF Parts
  <2> QED
    BY <1>4, <2>1 DEF PutRename
<1>5. CASE PutAck(q)
  BY <1>5 DEF PutAck
<1>6. CASE PutFail(q)
  BY <1>6 DEF PutFail
<1> QED
  BY <1>1, <1>2, <1>3, <1>4, <1>5, <1>6

\* The steps of a complete, without the removal of the directory.
LEMMA CompleteTyped ==
  ASSUME TypeOK, NEW c \in Completes,
         \/ CompleteStart(c) \/ CompleteRefuse(c) \/ CompleteList(c)
         \/ MergePart(c) \/ Publish(c) \/ CompleteRemove(c) \/ CompleteFail(c)
         \/ RegisterTask(c) \/ RegisterFails(c)
  PROVE  TypeOK'
<1> USE DEF TypeOK, lifeVars, filesVars, mergeVars, rmVars, CompGoesTo
<1>1. CASE CompleteStart(c)
  BY <1>1 DEF CompleteStart
<1>2. CASE CompleteRefuse(c)
  BY <1>2 DEF CompleteRefuse, ActiveSessionMissed
<1>3. CASE CompleteList(c)
  <2>1. PartsWithFile(part) \in SUBSET Parts
    BY DEF PartsWithFile
  <2> QED
    BY <1>3, <2>1 DEF CompleteList
<1>4. CASE MergePart(c)
  <2>1. PICK n \in todo[c] : AppendPart(c, n)
    BY <1>4 DEF MergePart
  <2>2. part[n] \in Puts
    BY <2>1 DEF AppendPart
  <2>3. Append(merged[c], part[n]) \in Seq(Puts)
    BY <2>2
  <2> QED
    BY <1>4, <2>1, <2>3 DEF AppendPart, MergePart
<1>5. CASE Publish(c)
  BY <1>5 DEF Publish
<1>6. CASE CompleteRemove(c)
  BY <1>6 DEF CompleteRemove, Removers
<1>7. CASE CompleteFail(c)
  BY <1>7 DEF CompleteFail, Rollback
<1>8. CASE RegisterTask(c)
  BY <1>8 DEF RegisterTask
<1>9. CASE RegisterFails(c)
  BY <1>9, MultipartAssumption DEF RegisterFails
<1> QED
  BY <1>1, <1>2, <1>3, <1>4, <1>5, <1>6, <1>7, <1>8, <1>9

\* The removals, whoever asked for them.
LEMMA RemovalTyped ==
  ASSUME TypeOK, NEW r \in Removers,
         \/ RmScan(r) \/ RmUnlink(r) \/ RmDone(r) \/ RmNotEmpty(r) \/ RmError(r)
  PROVE  TypeOK'
<1> USE DEF TypeOK, lifeVars, filesVars, mergeVars, rmVars
<1>1. CASE RmScan(r)
  <2>1. Files \in SUBSET (Parts \cup Puts)
    BY DEF Files, PartsWithFile
  <2> QED
    BY <1>1, <2>1 DEF RmScan
<1>2. CASE RmUnlink(r)
  <2>1. PICK f \in left[r] :
          /\ left' = [left EXCEPT ![r] = @ \ {f}]
          /\ temp' = temp \ {f}
          /\ part' = [n \in Parts |-> IF n = f THEN None ELSE part[n]]
    BY <1>2 DEF RmUnlink
  <2>2. part' \in [Parts -> Puts \cup {None}]
    BY <2>1
  <2> QED
    BY <1>2, <2>1, <2>2 DEF RmUnlink
<1>3. CASE RmDone(r)
  BY <1>3 DEF RmDone
<1>4. ASSUME RmThrows(r), faults' \in 0 .. MaxFaults
      PROVE  TypeOK'
  <2>1. CASE r \in Completes
    BY <1>4, <2>1 DEF RmThrows, Rollback, CompGoesTo
  <2>2. CASE r \notin Completes
    BY <1>4, <2>2 DEF RmThrows
  <2> QED
    BY <2>1, <2>2
<1>5. CASE RmNotEmpty(r)
  BY <1>4, <1>5 DEF RmNotEmpty
<1>6. CASE RmError(r)
  <2>1. faults' \in 0 .. MaxFaults
    BY <1>6, MultipartAssumption DEF RmError
  <2> QED
    BY <1>4, <1>6, <2>1 DEF RmError
<1> QED
  BY <1>1, <1>2, <1>3, <1>5, <1>6

\* Initiation, abort, sweep, the clock and a restart.
LEMMA RestTyped ==
  ASSUME TypeOK,
         \/ InitiateMkdir \/ InitiateSet \/ AbortStart \/ AbortRefuse
         \/ Expire \/ Sweep \/ Restart
  PROVE  TypeOK'
<1> USE DEF TypeOK, lifeVars, filesVars, mergeVars, rmVars
<1>1. CASE InitiateMkdir \/ InitiateSet
  BY <1>1 DEF InitiateMkdir, InitiateSet
<1>2. CASE AbortStart \/ AbortRefuse
  BY <1>2 DEF AbortStart, AbortRefuse, ActiveSessionMissed, Removers
<1>3. CASE Expire
  BY <1>3 DEF Expire
<1>4. CASE Sweep
  BY <1>4 DEF Sweep, Removers
<1>5. CASE Restart
  BY <1>5, MultipartAssumption DEF Restart
<1> QED
  BY <1>1, <1>2, <1>3, <1>4, <1>5

LEMMA NextTyped == TypeOK /\ [Next]_vars => TypeOK'
<1> SUFFICES ASSUME TypeOK, [Next]_vars PROVE TypeOK'
  OBVIOUS
<1>1. CASE UNCHANGED vars
  BY <1>1 DEF vars, TypeOK
<1> QED
  BY <1>1, PutTyped, CompleteTyped, RemovalTyped, RestTyped DEF Next

(***************************************************************************)
(* Every variable of an upload keeps its type.                             *)
(***************************************************************************)
THEOREM TypeCorrect == Spec => []TypeOK
  BY InitTyped, NextTyped, PTL DEF Spec

---------------------------------------------------------------------------
(***************************************************************************)
(* OneComplete is not inductive: that no complete starts beside another    *)
(* rests on the status, which says INITIATED only when none is under way,  *)
(* and on the session being gone for good once one has succeeded.          *)
(***************************************************************************)
Counts(c) == CompActive(c) \/ comp[c] = "ok"

StatusIsLock ==
  \A c \in Completes : /\ CompActive(c) => session # "INITIATED"
                       /\ comp[c] \in {"removed", "ok"} => session = "none"

RemovingIsActive == \A c \in Completes : RmActive(c) => comp[c] = "removing"

\* Nothing runs before the initiation is answered, nor after a restart.
OnlyOnceAnswered ==
  /\ start # "done" => /\ session = "none"
                       /\ \A c \in Completes : ~CompActive(c)
  /\ start \notin {"done", "lost"} => \A c \in Completes : comp[c] = "new"

ExclusionInv ==
  /\ TypeOK
  /\ OneComplete
  /\ StatusIsLock
  /\ RemovingIsActive
  /\ OnlyOnceAnswered

\* A request to complete that was refused or fails ends what it began.
LEMMA RollbackExcludes ==
  ASSUME ExclusionInv, NEW c \in Completes, CompActive(c), Rollback(c),
         UNCHANGED start,
         \A d \in Completes : d # c => RmActive(d)' = RmActive(d),
         ~RmActive(c)'
  PROVE  OneComplete' /\ StatusIsLock' /\ RemovingIsActive' /\ OnlyOnceAnswered'
<1> USE DEF ExclusionInv, TypeOK, Rollback, CompGoesTo
<1>1. /\ comp'[c] = "failed"
      /\ \A d \in Completes : d # c => comp'[d] = comp[d]
  OBVIOUS
<1>2. \A d \in Completes : d # c => ~Counts(d)
  BY DEF OneComplete, Counts
<1>3. \A d \in Completes : ~Counts(d)'
  BY <1>1, <1>2 DEF Counts, CompActive
<1>4. OneComplete' /\ StatusIsLock'
  BY <1>3 DEF OneComplete, StatusIsLock, Counts, CompActive
<1>5. RemovingIsActive'
  BY <1>1 DEF RemovingIsActive
<1>6. start = "done"
  BY DEF OnlyOnceAnswered, CompActive
<1> QED
  BY <1>4, <1>5, <1>6 DEF OnlyOnceAnswered

LEMMA ExclusionStep == ExclusionInv /\ [Next]_vars => ExclusionInv'
<1> SUFFICES ASSUME ExclusionInv, [Next]_vars
             PROVE  OneComplete' /\ StatusIsLock' /\ RemovingIsActive'
                    /\ OnlyOnceAnswered'
  BY NextTyped DEF ExclusionInv
<1> DEFINE Goal == OneComplete' /\ StatusIsLock' /\ RemovingIsActive'
                   /\ OnlyOnceAnswered'
<1> USE DEF ExclusionInv, lifeVars, mergeVars, rmVars
<1>1. ASSUME UNCHANGED <<start, session, comp, rm>> PROVE Goal
  BY <1>1 DEF OneComplete, StatusIsLock, RemovingIsActive, OnlyOnceAnswered,
     CompActive, RmActive
\* Whoever finds no session leaves none.
<1>2. ASSUME session' = "none", UNCHANGED <<start, comp>>,
             \A c \in Completes : RmActive(c)' => RmActive(c) PROVE Goal
  BY <1>2 DEF OneComplete, StatusIsLock, RemovingIsActive, OnlyOnceAnswered,
     CompActive
<1>3. ASSUME NEW q \in Puts, PutRefuse(q) PROVE Goal
  BY <1>1, <1>2, <1>3 DEF PutRefuse, ActiveSessionMissed, RmActive
<1>4. ASSUME NEW c \in Completes, CompleteStart(c) PROVE Goal
  BY <1>4 DEF CompleteStart, Active, CompGoesTo, ClientMaySend, TypeOK,
     OneComplete, StatusIsLock, RemovingIsActive, OnlyOnceAnswered,
     CompActive, RmActive
<1>5. ASSUME NEW c \in Completes, CompleteRefuse(c) PROVE Goal
  BY <1>5 DEF CompleteRefuse, Active, ActiveSessionMissed, CompGoesTo, TypeOK,
     ClientMaySend, OneComplete, StatusIsLock, RemovingIsActive,
     OnlyOnceAnswered, CompActive, RmActive
\* A complete that goes on stays the only one.
<1>6. ASSUME NEW c \in Completes, CompActive(c), UNCHANGED <<start, session>>,
             \A d \in Completes : d # c => comp'[d] = comp[d],
             comp'[c] \notin {"new", "removed", "ok"} \/ comp[c] = "removed",
             RemovingIsActive'
      PROVE  Goal
  <2>1. \A d \in Completes : d # c => ~Counts(d) /\ ~Counts(d)'
    BY <1>6 DEF OneComplete, Counts, CompActive
  <2>2. OneComplete'
    BY <2>1 DEF OneComplete, Counts
  <2>3. StatusIsLock'
    BY <1>6, <2>1 DEF StatusIsLock, Counts, CompActive
  <2>4. OnlyOnceAnswered'
    BY <1>6 DEF OnlyOnceAnswered, CompActive
  <2> QED
    BY <1>6, <2>2, <2>3, <2>4
<1>7. ASSUME NEW c \in Completes,
             \/ CompleteList(c) \/ Publish(c) \/ CompleteRemove(c)
             \/ RegisterTask(c) \/ RegisterFails(c)
      PROVE  Goal
  <2>1. /\ CompActive(c) /\ UNCHANGED <<start, session>>
        /\ \A d \in Completes : d # c => comp'[d] = comp[d]
        /\ comp'[c] \notin {"new", "removed", "ok"} \/ comp[c] = "removed"
    BY <1>7 DEF CompleteList, Publish, CompleteRemove, RegisterTask,
       RegisterFails, CompActive, CompGoesTo, TypeOK
  <2>2. RemovingIsActive'
    <3>1. CASE CompleteRemove(c)
      BY <3>1 DEF CompleteRemove, CompGoesTo, RemovingIsActive, RmActive,
         TypeOK, Removers
    <3>2. CASE ~CompleteRemove(c)
      <4>1. UNCHANGED rm /\ comp[c] # "removing"
        BY <1>7, <3>2 DEF CompleteList, Publish, RegisterTask, RegisterFails
      <4> QED
        BY <2>1, <4>1 DEF RemovingIsActive, RmActive
    <3> QED
      BY <3>1, <3>2
  <2> QED
    BY <1>6, <2>1, <2>2
<1>8. ASSUME NEW c \in Completes, CompleteFail(c) PROVE Goal
  <2>1. CompActive(c) /\ ~RmActive(c)'
    BY <1>8 DEF CompleteFail, CompActive, RmActive, RemovingIsActive
  <2> QED
    BY <1>8, <2>1, RollbackExcludes DEF CompleteFail, RmActive
<1>9. ASSUME NEW r \in Removers, RmDone(r) PROVE Goal
  <2>1. CASE r \in Completes
    <3>1. CompActive(r) /\ start = "done" /\ session' = "none"
      BY <1>9, <2>1, MultipartAssumption DEF RmDone, RmActive, RemovingIsActive,
         CompActive, OnlyOnceAnswered
    <3>2. /\ comp'[r] = "removed" /\ ~RmActive(r)'
          /\ \A d \in Completes : d # r => /\ comp'[d] = comp[d] /\ ~Counts(d)
                                          /\ rm'[d] = rm[d]
      BY <1>9, <2>1, <3>1 DEF RmDone, TypeOK, OneComplete, Counts, RmActive
    <3>3. OneComplete'
      BY <3>2 DEF OneComplete, Counts, CompActive
    <3>4. RemovingIsActive'
      BY <3>2 DEF RemovingIsActive, RmActive
    <3> QED
      BY <1>9, <3>1, <3>3, <3>4 DEF RmDone, StatusIsLock, OnlyOnceAnswered
  <2>2. CASE r \notin Completes
    <3>1. \A c \in Completes : comp'[c] = comp[c] /\ rm'[c] = rm[c]
      BY <1>9, <2>2 DEF RmDone, TypeOK
    <3> QED
      BY <1>9, <3>1 DEF RmDone, RmActive, CompActive, OneComplete,
         StatusIsLock, RemovingIsActive, OnlyOnceAnswered
  <2> QED
    BY <2>1, <2>2
<1>10. ASSUME NEW r \in Removers, RmActive(r), RmThrows(r) PROVE Goal
  <2>1. /\ rm'[r] = "stuck"
        /\ \A d \in Removers : d # r => rm'[d] = rm[d]
    BY <1>10 DEF RmThrows, TypeOK
  <2>2. CASE r \in Completes
    BY <1>10, <2>1, <2>2, RollbackExcludes
       DEF RmThrows, RmActive, RemovingIsActive, CompActive, Removers
  <2>3. CASE r \notin Completes
    BY <1>10, <2>1, <2>3 DEF RmThrows, RmActive, CompActive, Removers,
       OneComplete, StatusIsLock, RemovingIsActive, OnlyOnceAnswered
  <2> QED
    BY <2>2, <2>3
<1>11. ASSUME NEW r \in Removers,
              RmScan(r) \/ RmUnlink(r) \/ RmNotEmpty(r) \/ RmError(r)
       PROVE  Goal
  <2>1. CASE RmScan(r)
    BY <2>1 DEF RmScan, RmActive, CompActive, TypeOK, Removers, OneComplete,
       StatusIsLock, RemovingIsActive, OnlyOnceAnswered
  <2>2. CASE RmUnlink(r)
    BY <1>1, <2>2 DEF RmUnlink
  <2>3. CASE RmNotEmpty(r)
    BY <1>10, <2>3 DEF RmNotEmpty, RmActive
  <2>4. CASE RmError(r)
    BY <1>10, <2>4 DEF RmError
  <2> QED
    BY <1>11, <2>1, <2>2, <2>3, <2>4
<1>12. ASSUME AbortStart \/ AbortRefuse \/ Sweep PROVE Goal
  <2>1. \A c \in Completes : RmActive(c)' => RmActive(c)
    BY <1>12, MultipartAssumption
       DEF AbortStart, AbortRefuse, Sweep, RmActive, TypeOK, Removers
  <2>2. UNCHANGED <<start, comp>>
    BY <1>12 DEF AbortStart, AbortRefuse, Sweep
  <2>3. CASE AbortStart
    BY <2>1, <2>2, <2>3 DEF AbortStart, OneComplete, StatusIsLock,
       RemovingIsActive, OnlyOnceAnswered, CompActive
  <2> QED
    BY <1>2, <1>12, <2>1, <2>2, <2>3
       DEF AbortRefuse, ActiveSessionMissed, Sweep
<1>13. ASSUME Restart PROVE Goal
  BY <1>13 DEF Restart, RmActive, CompActive, TypeOK, Removers, OneComplete,
     StatusIsLock, RemovingIsActive, OnlyOnceAnswered
<1>14. ASSUME InitiateMkdir \/ InitiateSet PROVE Goal
  BY <1>14 DEF InitiateMkdir, InitiateSet, RmActive, CompActive, OneComplete,
     StatusIsLock, RemovingIsActive, OnlyOnceAnswered
\* The others touch neither status nor progress of a complete.
<1>15. ASSUME \/ \E q \in Puts : \/ PutAdmit(q) \/ PutOpen(q) \/ PutRename(q)
                                \/ PutAck(q) \/ PutFail(q)
              \/ \E c \in Completes : MergePart(c)
              \/ Expire
              \/ UNCHANGED vars
       PROVE  Goal
  BY <1>1, <1>15 DEF PutAdmit, PutOpen, PutRename, PutAck, PutFail, MergePart,
     AppendPart, Expire, vars
<1> QED
  BY <1>3, <1>4, <1>5, <1>7, <1>8, <1>9, <1>11, <1>12, <1>13, <1>14,
     <1>15 DEF Next

(***************************************************************************)
(* MultipartService.ts: the status set before the first await keeps        *)
(* completes of one upload apart for good, whatever fails between.         *)
(***************************************************************************)
THEOREM CompletesExclude == Spec => []OneComplete
<1>1. Init => ExclusionInv
  BY InitTyped DEF Init, ExclusionInv, OneComplete, StatusIsLock,
     RemovingIsActive, OnlyOnceAnswered, CompActive, RmActive, Removers
<1>2. ExclusionInv => OneComplete
  BY DEF ExclusionInv
<1> QED
  BY <1>1, <1>2, ExclusionStep, PTL DEF Spec

---------------------------------------------------------------------------
(***************************************************************************)
(* LockIsHeld takes that completes exclude each other: with two under way  *)
(* the failure of one would take the status from the other, and its own    *)
(* end would be no proof that nobody holds the lock.                       *)
(***************************************************************************)
LockInv == ExclusionInv /\ LockIsHeld

LEMMA LockStep == LockInv /\ [Next]_vars => LockInv'
<1> SUFFICES ASSUME LockInv, [Next]_vars PROVE LockIsHeld'
  BY ExclusionStep DEF LockInv
<1> USE DEF LockInv, LockIsHeld
\* Only CompleteStart sets the status.
<1>1. ASSUME session' # "COMPLETING" PROVE LockIsHeld'
  BY <1>1
<1>2. ASSUME session' = session, comp' = comp PROVE LockIsHeld'
  BY <1>2 DEF CompActive
<1>3. ASSUME NEW c \in Completes, CompActive(c)' PROVE LockIsHeld'
  BY <1>3
<1>4. ASSUME NEW c \in Completes,
             CompleteStart(c) \/ CompleteList(c) \/ Publish(c) \/ CompleteRemove(c)
      PROVE  LockIsHeld'
  <2>1. comp'[c] \in {"listing", "merging", "published", "removing"}
    BY <1>4 DEF CompleteStart, CompleteList, Publish, CompleteRemove,
       CompGoesTo, ExclusionInv, TypeOK
  <2> QED
    BY <1>3, <2>1 DEF CompActive
<1>5. ASSUME NEW c \in Completes, CompleteRefuse(c) PROVE LockIsHeld'
  <2>1. CASE session' = "none"
    BY <1>1, <2>1
  <2>2. CASE session' = session
    <3>1. comp[c] = "new" /\ comp' = [comp EXCEPT ![c] = "failed"]
      BY <1>5 DEF CompleteRefuse, CompGoesTo
    <3>2. \A d \in Completes : CompActive(d) => CompActive(d)'
      BY <3>1 DEF CompActive, ExclusionInv, TypeOK
    <3> QED
      BY <2>2, <3>2
  <2> QED
    BY <1>5, <2>1, <2>2 DEF CompleteRefuse, ActiveSessionMissed
<1>6. ASSUME NEW c \in Completes, RegisterTask(c) \/ RegisterFails(c)
      PROVE  LockIsHeld'
  <2>1. session' = "none"
    BY <1>6 DEF RegisterTask, RegisterFails, ExclusionInv, StatusIsLock
  <2> QED
    BY <1>1, <2>1
<1>7. ASSUME NEW c \in Completes, Rollback(c) PROVE LockIsHeld'
  BY <1>1, <1>7 DEF Rollback
<1>8. ASSUME NEW r \in Removers, RmDone(r) PROVE LockIsHeld'
  <2>1. CASE r = "sweep"
    <3>1. comp' = comp /\ session' = session
      BY <1>8, <2>1, MultipartAssumption DEF RmDone, ExclusionInv, TypeOK
    <3> QED
      BY <1>2, <3>1
  <2>2. CASE r # "sweep"
    BY <1>1, <1>8, <2>2 DEF RmDone
  <2> QED
    BY <2>1, <2>2
<1>9. ASSUME NEW r \in Removers, RmNotEmpty(r) \/ RmError(r) PROVE LockIsHeld'
  BY <1>2, <1>7, <1>9 DEF RmNotEmpty, RmError, RmThrows
<1>10. ASSUME NEW q \in Puts, PutRefuse(q) PROVE LockIsHeld'
  BY <1>1, <1>2, <1>10 DEF PutRefuse, ActiveSessionMissed
<1>11. CASE InitiateSet \/ AbortRefuse \/ Sweep \/ Restart
  BY <1>1, <1>11 DEF InitiateSet, AbortRefuse, ActiveSessionMissed, Sweep, Restart
<1>12. CASE \/ InitiateMkdir \/ AbortStart \/ Expire \/ UNCHANGED vars
            \/ \E q \in Puts : \/ PutAdmit(q) \/ PutOpen(q) \/ PutRename(q)
                               \/ PutAck(q) \/ PutFail(q)
            \/ \E c \in Completes : MergePart(c)
            \/ \E r \in Removers : RmScan(r) \/ RmUnlink(r)
  BY <1>2, <1>12 DEF InitiateMkdir, AbortStart, Expire, vars, PutAdmit, PutOpen,
     PutRename, PutAck, PutFail, MergePart, AppendPart, RmScan, RmUnlink
<1> QED
  BY <1>4, <1>5, <1>6, <1>7, <1>8, <1>9, <1>10, <1>11, <1>12
     DEF Next, CompleteFail

(***************************************************************************)
(* MultipartService.ts: the catch block, the deletion of the session and   *)
(* a restart are the only ends of a complete, and each of them releases    *)
(* the status.                                                             *)
(***************************************************************************)
THEOREM LockStaysHeld == Spec => []LockIsHeld
<1>1. Init => LockInv
  BY InitTyped DEF Init, LockInv, LockIsHeld, ExclusionInv, OneComplete,
     StatusIsLock, RemovingIsActive, OnlyOnceAnswered, CompActive, RmActive,
     Removers
<1>2. LockInv => LockIsHeld
  BY DEF LockInv
<1> QED
  BY <1>1, <1>2, LockStep, PTL DEF Spec

---------------------------------------------------------------------------
(***************************************************************************)
(* A session that does not expire and is not lost in a restart goes with   *)
(* an abort, or with a complete that is about to register, has registered  *)
(* or has failed to.                                                       *)
(***************************************************************************)
ClosedFor ==
  start = "done" /\ session = "none" /\ ~expired
    => \/ rm["abort"] = "over"
       \/ \E c \in Completes : comp[c] \in {"removed", "ok", "unqueued"}

Queued == \A c \in Completes : comp[c] = "ok" => task

UnqueuedInv == ExclusionInv /\ ClosedFor /\ Queued

LEMMA UnqueuedStep == UnqueuedInv /\ [Next]_vars => UnqueuedInv'
<1> SUFFICES ASSUME UnqueuedInv, [Next]_vars PROVE ClosedFor' /\ Queued'
  BY ExclusionStep DEF UnqueuedInv
<1> DEFINE Goal == ClosedFor' /\ Queued'
<1> USE DEF UnqueuedInv, Queued, lifeVars, mergeVars, rmVars
\* Steps that neither close the upload nor answer a complete.
<1>1. ASSUME UNCHANGED <<start, expired, task>>,
             session' = session \/ session' # "none" \/ expired,
             rm["abort"] = "over" => rm'["abort"] = "over",
             \A c \in Completes :
               /\ comp[c] \in {"removed", "ok", "unqueued"} => comp'[c] = comp[c]
               /\ comp'[c] = "ok" => comp[c] = "ok"
      PROVE  Goal
  BY <1>1 DEF ClosedFor
<1>2. ASSUME NEW q \in Puts,
             \/ PutAdmit(q) \/ PutRefuse(q) \/ PutOpen(q)
             \/ PutRename(q) \/ PutAck(q) \/ PutFail(q)
      PROVE  Goal
  BY <1>1, <1>2 DEF PutAdmit, PutRefuse, Active, ActiveSessionMissed, PutOpen,
     PutRename, PutAck, PutFail
<1>3. ASSUME NEW c \in Completes,
             \/ CompleteStart(c) \/ CompleteRefuse(c) \/ CompleteList(c)
             \/ Publish(c) \/ CompleteRemove(c) \/ CompleteFail(c)
      PROVE  Goal
  <2>1. UNCHANGED <<start, expired, task>>
    BY <1>3 DEF CompleteStart, CompleteRefuse, CompleteList, Publish,
       CompleteRemove, CompleteFail
  <2>2. session' = session \/ session' # "none" \/ expired
    BY <1>3 DEF CompleteStart, CompleteRefuse, Active, ActiveSessionMissed,
       CompleteList, Publish, CompleteRemove, CompleteFail, Rollback
  <2>3. /\ comp[c] \notin {"removed", "ok", "unqueued"} /\ comp'[c] # "ok"
        /\ \A d \in Completes : d # c => comp'[d] = comp[d]
    BY <1>3 DEF CompleteStart, CompleteRefuse, CompleteList, Publish,
       CompleteRemove, CompleteFail, Rollback, CompGoesTo, ExclusionInv, TypeOK
  <2>4. rm["abort"] = "over" => rm'["abort"] = "over"
    BY <1>3, MultipartAssumption DEF CompleteStart, CompleteRefuse, CompleteList,
       Publish, CompleteRemove, CompleteFail, ExclusionInv, TypeOK, Removers
  <2> QED
    BY <1>1, <2>1, <2>2, <2>3, <2>4
<1>4. ASSUME NEW c \in Completes, MergePart(c) PROVE Goal
  BY <1>1, <1>4 DEF MergePart, AppendPart
<1>5. ASSUME NEW c \in Completes, RegisterTask(c) \/ RegisterFails(c) PROVE Goal
  <2>1. /\ comp'[c] \in {"ok", "unqueued"} /\ (comp'[c] = "ok" => task')
        /\ task => task'
        /\ \A d \in Completes : d # c => comp'[d] = comp[d]
    BY <1>5 DEF RegisterTask, RegisterFails, CompGoesTo, ExclusionInv, TypeOK
  <2> QED
    BY <2>1 DEF ClosedFor
<1>6. ASSUME NEW r \in Removers,
             RmScan(r) \/ RmUnlink(r) \/ RmNotEmpty(r) \/ RmError(r)
      PROVE  Goal
  <2>1. UNCHANGED <<start, expired, task>>
    BY <1>6 DEF RmScan, RmUnlink, RmNotEmpty, RmError, RmThrows
  <2>2. session' = session \/ session' # "none"
    BY <1>6 DEF RmScan, RmUnlink, RmNotEmpty, RmError, RmThrows, Rollback
  <2>3. rm["abort"] = "over" => rm'["abort"] = "over"
    BY <1>6 DEF RmScan, RmUnlink, RmNotEmpty, RmError, RmThrows, RmActive,
       ExclusionInv, TypeOK, Removers
  <2>4. \A c \in Completes : \/ comp'[c] = comp[c]
                             \/ comp[c] = "removing" /\ comp'[c] = "failed"
    BY <1>6 DEF RmScan, RmUnlink, RmNotEmpty, RmError, RmThrows, Rollback,
       CompGoesTo, RmActive, RemovingIsActive, ExclusionInv, TypeOK
  <2> QED
    BY <1>1, <2>1, <2>2, <2>3, <2>4
<1>7. ASSUME NEW r \in Removers, RmDone(r) PROVE Goal
  <2>1. /\ UNCHANGED <<start, expired, task>>
        /\ rm' = [rm EXCEPT ![r] = "over"]
        /\ \A c \in Completes : comp'[c] = IF c = r THEN "removed" ELSE comp[c]
    BY <1>7 DEF RmDone
  <2>2. CASE r = "sweep"
    BY <1>7, <2>1, <2>2, MultipartAssumption
       DEF RmDone, ClosedFor, ExclusionInv, TypeOK, Removers
  <2>3. CASE r # "sweep"
    <3>1. ClosedFor'
      BY <2>1, <2>3 DEF ClosedFor, Removers, ExclusionInv, TypeOK
    <3> QED
      BY <2>1, <3>1
  <2> QED
    BY <2>2, <2>3
<1>8. ASSUME AbortStart \/ AbortRefuse PROVE Goal
  BY <1>1, <1>8 DEF AbortStart, AbortRefuse, Active, ActiveSessionMissed,
     ExclusionInv, TypeOK, Removers
\* After these the session is there, has expired or is lost in a restart.
<1>9. ASSUME InitiateMkdir \/ InitiateSet \/ Expire \/ Sweep PROVE Goal
  BY <1>9 DEF InitiateMkdir, InitiateSet, Expire, Sweep, ClosedFor
<1>10. ASSUME Restart PROVE Goal
  BY <1>10 DEF Restart, ClosedFor
<1>11. CASE UNCHANGED vars
  BY <1>11 DEF vars, ClosedFor
<1> QED
  BY <1>2, <1>3, <1>4, <1>5, <1>6, <1>7, <1>8, <1>9, <1>10, <1>11 DEF Next

(***************************************************************************)
(* MultipartService.ts: whatever the clients send and whatever fails, an   *)
(* object that was published and not queued keeps its session, unless it   *)
(* expires, is lost in a restart or is aborted, or unless the registration *)
(* is what has failed.                                                     *)
(***************************************************************************)
THEOREM UnqueuedSafe == Spec => []UnqueuedIsRetryable
<1>1. Init => UnqueuedInv
  BY InitTyped DEF Init, UnqueuedInv, ClosedFor, Queued, ExclusionInv,
     OneComplete, StatusIsLock, RemovingIsActive, OnlyOnceAnswered, CompActive,
     RmActive, Removers
<1>2. UnqueuedInv => UnqueuedIsRetryable
  BY DEF UnqueuedInv, ClosedFor, Queued, UnqueuedIsRetryable, Quiet,
     ClientIdle, CompActive
<1> QED
  BY <1>1, <1>2, UnqueuedStep, PTL DEF Spec
=============================================================================
