------------------------ MODULE MultipartRefinement ------------------------
(***************************************************************************)
(* For a client that waits for its answers a multipart upload implements   *)
(* an atomic one, whatever its parts, its PUTs and its completes, whether  *)
(* or not its session expires, whatever fails and however often the        *)
(* process restarts.                                                       *)
(***************************************************************************)
EXTENDS MultipartProofs

---------------------------------------------------------------------------
(* The inductive invariant, in six parts.                                  *)

Early == {"new", "listing", "merging", "published"}

\* Requests take turns; only the sweep does not wait for its own.
TurnInv ==
  /\ start \notin {"done", "lost"} => /\ ~expired
                                      /\ \A q \in Puts : put[q] = "new"
                                      /\ \A r \in Removers : rm[r] = "off"
  /\ start # "done" => /\ \A q \in Puts : ~PutActive(q)
                       /\ \A r \in Removers : ~RmActive(r)
  /\ \A p, q \in Puts : PutActive(p) /\ PutActive(q) => p = q
  /\ \A q \in Puts : PutActive(q) => /\ ~RmActive("abort")
                                     /\ \A c \in Completes : ~Counts(c)
  /\ \A c \in Completes : CompActive(c) => ~RmActive("abort")
  /\ \A c \in Completes : comp[c] \in Early => rm[c] = "off"
  /\ rm["sweep"] # "off" => expired /\ session = "none"

\* Until it expires the session says whose turn it is.
SessionInv ==
  ~expired =>
    /\ \A q \in Puts : PutActive(q) => session = "INITIATED"
    /\ \A c \in Completes :
         CompActive(c) /\ comp[c] # "removed" => session = "COMPLETING"
    /\ RmActive("abort") => session # "none"

\* Nothing has taken a part away that should be there.
Calm == ~expired /\ ~Damaged

\* The files are the parts last stored, but for a removal that is unlinking
\* them; that one has all of them on its list.
FilesInv ==
  /\ \A n \in Parts : /\ stored[n] # None => PartOf[stored[n]] = n
                      /\ part[n] \in {None, stored[n]}
  /\ ~expired => \A r \in Removers : rm[r] = "unlink" => left[r] = Files
  /\ Calm /\ Open /\ (\A r \in Removers : rm[r] # "unlink") => part = stored
  /\ start = "done" /\ session = "none" /\ ~expired => ~dir

StoredParts == {n \in Parts : stored[n] # None}
Appended(c) == {stored[n] : n \in StoredParts \ todo[c]}

Ascending(s) ==
  \A i, j \in DOMAIN s : i < j => PartOf[s[i]] < PartOf[s[j]]

\* What a complete has appended are parts before those it has not; all of
\* them, if none was gone when it listed them.
Merging(c) ==
  /\ todo[c] \subseteq StoredParts
  /\ todo[c] # {} \/ merged[c] # <<>>
  /\ Atomic!Elements(merged[c]) \subseteq Appended(c)
  /\ Calm => Atomic!Elements(merged[c]) = Appended(c)
  /\ Ascending(merged[c])
  /\ \A i \in DOMAIN merged[c], n \in todo[c] : PartOf[merged[c][i]] < n

Made == /\ Atomic!IsMadeOf(object, stored)
        /\ Calm => Atomic!IsWhole(object, stored)

Done == {"published", "removing", "removed", "ok"}

MergedSoFar(c) ==
  /\ comp[c] \in {"new", "listing"} => merged[c] = <<>>
  /\ comp[c] = "merging" => Merging(c)
  /\ comp[c] \in Done => Made

MergeInv == \A c \in Completes : MergedSoFar(c)

TaskInv == task => \E c \in Completes : comp[c] = "ok"

DamageHasCause == Damaged => expired \/ faults > 0

PatientInv ==
  /\ ExclusionInv
  /\ TurnInv
  /\ SessionInv
  /\ FilesInv
  /\ MergeInv
  /\ TaskInv
  /\ DamageHasCause

---------------------------------------------------------------------------
(* What the other steps rest on. *)

\* Nobody finds a session that he could delete before it expires.
LEMMA RefusalKeepsSession ==
  ASSUME ~expired, ActiveSessionMissed
  PROVE  session' = session
BY DEF ActiveSessionMissed, Active

\* Whatever a complete is doing, the initiation was answered and it is alone.
LEMMA CompleteIsAlone ==
  ASSUME PatientInv, NEW c \in Completes, CompActive(c)
  PROVE  /\ start = "done" /\ ~RmActive("abort")
         /\ \A q \in Puts : ~PutActive(q)
         /\ \A d \in Completes : d # c => ~Counts(d)
BY DEF PatientInv, ExclusionInv, OnlyOnceAnswered, OneComplete, TurnInv, Counts

LEMMA RemoverIsKnown ==
  ASSUME PatientInv, NEW r \in Removers, RmActive(r)
  PROVE  /\ start = "done"
         /\ \/ r = "abort"
            \/ r = "sweep" /\ expired /\ session = "none"
            \/ r \in Completes /\ comp[r] = "removing" /\ CompActive(r)
BY DEF PatientInv, TurnInv, ExclusionInv, RemovingIsActive, RmActive,
   CompActive, Removers

LEMMA OneRemoval ==
  ASSUME PatientInv, ~expired, NEW r \in Removers, NEW s \in Removers,
         RmActive(r), RmActive(s)
  PROVE  r = s
<1>1. \A x \in Removers : RmActive(x) =>
        x = "abort" \/ (x \in Completes /\ CompActive(x))
  BY RemoverIsKnown
<1>2. RmActive("abort") => \A c \in Completes : ~CompActive(c)
  BY DEF PatientInv, TurnInv
<1>3. \A c, d \in Completes : CompActive(c) /\ CompActive(d) => c = d
  BY DEF PatientInv, ExclusionInv, OneComplete
<1> QED
  BY <1>1, <1>2, <1>3

\* While a part is being stored nothing is removed, but by the sweep.
LEMMA PutIsAlone ==
  ASSUME PatientInv, NEW q \in Puts, PutActive(q)
  PROVE  /\ start = "done"
         /\ \A c \in Completes : ~Counts(c)
         /\ ~expired => /\ session = "INITIATED"
                        /\ \A r \in Removers : ~RmActive(r)
<1>1. start = "done" /\ ~RmActive("abort") /\ \A c \in Completes : ~Counts(c)
  BY DEF PatientInv, TurnInv
<1>2. \A r \in Removers : RmActive(r) => r = "sweep" /\ expired
  BY <1>1, RemoverIsKnown DEF Counts
<1> QED
  BY <1>1, <1>2 DEF PatientInv, SessionInv

---------------------------------------------------------------------------
(* What is damaged stays damaged, and only a removal that fails damages.   *)

LEMMA StuckStep ==
  ASSUME PatientInv, [Next]_vars, NEW r \in Removers
  PROVE  /\ rm[r] = "stuck" => rm'[r] = "stuck"
         /\ rm'[r] = "stuck" => rm[r] = "stuck" \/ RmNotEmpty(r) \/ RmError(r)
<1> DEFINE Goal ==
      /\ rm[r] = "stuck" => rm'[r] = "stuck"
      /\ rm'[r] = "stuck" => rm[r] = "stuck" \/ RmNotEmpty(r) \/ RmError(r)
<1> USE DEF rmVars
<1>1. TypeOK /\ TurnInv
  BY DEF PatientInv, ExclusionInv
<1>2. ASSUME rm' = rm PROVE Goal
  BY <1>2
<1>3. ASSUME NEW c \in Completes, CompleteRemove(c) PROVE Goal
  <2>1. rm[c] = "off" /\ rm' = [rm EXCEPT ![c] = "scan"]
    BY <1>1, <1>3 DEF CompleteRemove, TurnInv, Early
  <2> QED
    BY <1>1, <2>1 DEF TypeOK
<1>4. ASSUME AbortStart \/ AbortRefuse PROVE Goal
  BY <1>1, <1>4 DEF AbortStart, AbortRefuse, TypeOK
<1>5. ASSUME Sweep PROVE Goal
  BY <1>1, <1>5 DEF Sweep, TurnInv, TypeOK
<1>6. ASSUME NEW s \in Removers, RmScan(s) \/ RmDone(s) PROVE Goal
  BY <1>1, <1>6 DEF RmScan, RmDone, TypeOK
<1>7. ASSUME NEW s \in Removers, RmNotEmpty(s) \/ RmError(s) PROVE Goal
  BY <1>1, <1>7 DEF RmNotEmpty, RmError, RmThrows, RmActive, TypeOK
<1>8. ASSUME Restart PROVE Goal
  BY <1>8 DEF Restart, RmActive
<1>9. CASE \/ InitiateMkdir \/ InitiateSet \/ Expire \/ UNCHANGED vars
           \/ \E q \in Puts : \/ PutAdmit(q) \/ PutRefuse(q) \/ PutOpen(q)
                              \/ PutRename(q) \/ PutAck(q) \/ PutFail(q)
  BY <1>2, <1>9 DEF InitiateMkdir, InitiateSet, Expire, vars, PutAdmit,
     PutRefuse, PutOpen, PutRename, PutAck, PutFail
<1>10. CASE \/ \E c \in Completes :
                 \/ CompleteStart(c) \/ CompleteRefuse(c) \/ CompleteList(c)
                 \/ MergePart(c) \/ Publish(c) \/ CompleteFail(c)
                 \/ RegisterTask(c) \/ RegisterFails(c)
            \/ \E s \in Removers : RmUnlink(s)
  BY <1>2, <1>10 DEF CompleteStart, CompleteRefuse, CompleteList, MergePart,
     AppendPart, Publish, CompleteFail, RegisterTask, RegisterFails, RmUnlink
<1> QED
  BY <1>3, <1>4, <1>5, <1>6, <1>7, <1>8, <1>9, <1>10 DEF Next

\* Time does not go back, and faults are not forgotten.
LEMMA TimeStep ==
  ASSUME PatientInv, [Next]_vars
  PROVE  /\ expired => expired'
         /\ faults > 0 => faults' > 0
         /\ faults' = faults \/ faults' = faults + 1
         /\ expired' = expired \/ Expire
<1> DEFINE Goal == /\ expired' = expired \/ Expire
                   /\ faults' = faults \/ faults' = faults + 1
<1> SUFFICES Goal
  BY DEF PatientInv, ExclusionInv, TypeOK, Expire
<1> USE DEF lifeVars
<1>1. CASE \/ InitiateMkdir \/ InitiateSet \/ AbortStart \/ AbortRefuse
           \/ Expire \/ Sweep \/ Restart \/ UNCHANGED vars
  BY <1>1 DEF InitiateMkdir, InitiateSet, AbortStart, AbortRefuse, Expire,
     Sweep, Restart, vars
<1>2. ASSUME NEW q \in Puts,
             \/ PutAdmit(q) \/ PutRefuse(q) \/ PutOpen(q)
             \/ PutRename(q) \/ PutAck(q) \/ PutFail(q)
      PROVE  Goal
  BY <1>2 DEF PutAdmit, PutRefuse, PutOpen, PutRename, PutAck, PutFail
<1>3. ASSUME NEW c \in Completes,
             \/ CompleteStart(c) \/ CompleteRefuse(c) \/ CompleteList(c)
             \/ MergePart(c) \/ Publish(c) \/ CompleteRemove(c)
             \/ CompleteFail(c) \/ RegisterTask(c) \/ RegisterFails(c)
      PROVE  Goal
  BY <1>3 DEF CompleteStart, CompleteRefuse, CompleteList, MergePart, AppendPart,
     Publish, CompleteRemove, CompleteFail, RegisterTask, RegisterFails
<1>4. ASSUME NEW r \in Removers, \/ RmScan(r) \/ RmUnlink(r) \/ RmDone(r)
                                 \/ RmNotEmpty(r) \/ RmError(r)
      PROVE  Goal
  BY <1>4 DEF RmScan, RmUnlink, RmDone, RmNotEmpty, RmError, RmThrows
<1> QED
  BY <1>1, <1>2, <1>3, <1>4 DEF Next

LEMMA CalmStep ==
  ASSUME PatientInv, [Next]_vars
  PROVE  Calm' => Calm
<1>1. Damaged => Damaged'
  BY StuckStep DEF Damaged
<1> QED
  BY <1>1, TimeStep DEF Calm

\* What a removal has listed is all there is until it has unlinked it.
LEMMA DamageStep ==
  ASSUME PatientInv, [Next]_vars
  PROVE  DamageHasCause'
<1> SUFFICES ASSUME Damaged', ~expired' PROVE faults' > 0
  BY DEF DamageHasCause
<1>1. ~expired
  BY TimeStep
<1>2. CASE Damaged
  BY <1>1, <1>2, TimeStep DEF PatientInv, DamageHasCause
<1>3. CASE ~Damaged
  <2>1. PICK r \in Removers : RmNotEmpty(r) \/ RmError(r)
    BY <1>3, StuckStep DEF Damaged
  <2>2. ~RmNotEmpty(r)
    BY <1>1 DEF PatientInv, FilesInv, RmNotEmpty
  <2>3. faults' = faults + 1 /\ faults \in Nat
    BY <2>1, <2>2, MultipartAssumption DEF RmError, PatientInv, ExclusionInv, TypeOK
  <2> QED
    BY <2>3
<1> QED
  BY <1>2, <1>3

---------------------------------------------------------------------------
(* Turns. *)

LEMMA TurnStep ==
  ASSUME Patient, PatientInv, [Next]_vars
  PROVE  TurnInv'
<1> USE DEF TurnInv, lifeVars, mergeVars, rmVars
<1> DEFINE T == TurnInv'
<1>1. TypeOK /\ TurnInv /\ OnlyOnceAnswered
  BY DEF PatientInv, ExclusionInv
\* A request that only ends, or goes on where it is.
<1>2. ASSUME start \in {"done", "lost"}, UNCHANGED <<start, expired>>,
             session = "none" => session' = "none",
             rm["sweep"] = "off" => rm'["sweep"] = "off",
             \A r \in Removers : RmActive(r)' => RmActive(r),
             \A q \in Puts : PutActive(q)' => PutActive(q),
             \A c \in Completes :
               /\ CompActive(c)' => CompActive(c)
               /\ Counts(c)' => Counts(c)
               /\ comp'[c] \in Early => comp[c] \in Early /\ rm'[c] = rm[c]
      PROVE  T
  <2>1. "abort" \in Removers
    BY DEF Removers
  <2> QED
    BY <1>1, <1>2, <2>1
<1>3. CASE InitiateMkdir \/ InitiateSet
  BY <1>1, <1>3, MultipartAssumption DEF InitiateMkdir, InitiateSet,
     OnlyOnceAnswered, PutActive, CompActive, RmActive, Counts, Removers
<1>4. CASE AbortStart
  <2>1. /\ rm' = [rm EXCEPT !["abort"] = "scan"]
        /\ UNCHANGED <<start, session, expired, put, comp>>
        /\ start = "done"
        /\ \A q \in Puts : ~PutActive(q)
        /\ \A c \in Completes : ~CompActive(c)
    BY <1>1, <1>4 DEF AbortStart, ClientMaySend, ClientIdle, Active,
       OnlyOnceAnswered
  <2>2. /\ \A q \in Puts : ~PutActive(q)'
        /\ \A c \in Completes : ~CompActive(c)'
    BY <2>1 DEF PutActive, CompActive
  <2>3. /\ \A c \in Completes : rm'[c] = rm[c] /\ comp'[c] = comp[c]
        /\ rm'["sweep"] = rm["sweep"]
    BY <1>1, <2>1, MultipartAssumption DEF Removers, TypeOK
  <2> QED
    BY <1>1, <2>1, <2>2, <2>3
<1>5. CASE AbortRefuse
  <2>1. /\ rm' = [rm EXCEPT !["abort"] = "refused"]
        /\ session' = "none" /\ UNCHANGED <<start, expired, put, comp>>
        /\ start \in {"done", "lost"}
    BY <1>5 DEF AbortRefuse, ClientMaySend, ActiveSessionMissed
  <2>2. /\ \A r \in Removers : RmActive(r)' => RmActive(r)
        /\ \A c \in Completes : rm'[c] = rm[c]
        /\ rm'["sweep"] = rm["sweep"]
    BY <1>1, <2>1, MultipartAssumption DEF RmActive, Removers, TypeOK
  <2> QED
    BY <1>2, <2>1, <2>2 DEF PutActive, CompActive, Counts
<1>6. ASSUME NEW q \in Puts, PutAdmit(q) PROVE T
  <2>1. /\ put' = [put EXCEPT ![q] = "admitted"]
        /\ UNCHANGED <<start, session, expired, comp, rm>>
        /\ start = "done" /\ session # "none"
        /\ \A p \in Puts : ~PutActive(p)
        /\ \A c \in Completes : ~CompActive(c)
        /\ ~RmActive("abort")
    BY <1>1, <1>6 DEF PutAdmit, PutGoesTo, ClientMaySend, ClientIdle, Active,
       OnlyOnceAnswered
  <2>2. \A c \in Completes : ~Counts(c)
    BY <2>1 DEF PatientInv, ExclusionInv, StatusIsLock, Counts
  <2>3. \A p \in Puts : PutActive(p)' => p = q
    BY <1>1, <2>1 DEF PutActive, TypeOK
  <2> QED
    BY <1>1, <2>1, <2>2, <2>3 DEF CompActive, RmActive, Counts
<1>7. ASSUME NEW q \in Puts,
             \/ PutRefuse(q) \/ PutOpen(q) \/ PutRename(q) \/ PutAck(q) \/ PutFail(q)
      PROVE  T
  <2>1. start \in {"done", "lost"}
    BY <1>1, <1>7 DEF PutRefuse, ClientMaySend, PutOpen, PutRename, PutAck,
       PutFail, PutActive
  <2>2. /\ UNCHANGED <<start, expired, comp, rm>>
        /\ session = "none" => session' = "none"
    BY <1>7 DEF PutRefuse, ActiveSessionMissed, PutOpen, PutRename, PutAck, PutFail
  <2>3. \A p \in Puts : PutActive(p)' => PutActive(p)
    BY <1>1, <1>7 DEF PutRefuse, PutOpen, PutRename, PutAck, PutFail, PutGoesTo,
       PutActive, TypeOK
  <2> QED
    BY <1>2, <2>1, <2>2, <2>3 DEF CompActive, RmActive, Counts
<1>8. ASSUME NEW c \in Completes, CompleteStart(c) PROVE T
  <2>1. /\ comp' = [comp EXCEPT ![c] = "listing"] /\ comp[c] = "new"
        /\ UNCHANGED <<start, expired, put, rm>>
        /\ start = "done" /\ session # "none"
        /\ \A p \in Puts : ~PutActive(p)
        /\ \A d \in Completes : ~CompActive(d)
        /\ ~RmActive("abort")
    BY <1>1, <1>8 DEF CompleteStart, CompGoesTo, ClientMaySend, ClientIdle,
       Active, OnlyOnceAnswered
  <2>2. \A p \in Puts : ~PutActive(p)'
    BY <2>1 DEF PutActive
  <2>3. \A d \in Completes : comp'[d] \in Early => comp[d] \in Early
    BY <1>1, <2>1 DEF TypeOK, Early
  <2> QED
    BY <1>1, <2>1, <2>2, <2>3 DEF RmActive
<1>9. ASSUME NEW c \in Completes,
             \/ CompleteRefuse(c) \/ CompleteList(c) \/ MergePart(c)
             \/ Publish(c) \/ CompleteFail(c) \/ RegisterTask(c)
             \/ RegisterFails(c)
      PROVE  T
  <2>1. start \in {"done", "lost"}
    BY <1>1, <1>9 DEF CompleteRefuse, ClientMaySend, CompleteList, MergePart,
       Publish, CompleteFail, RegisterTask, RegisterFails, OnlyOnceAnswered,
       CompActive
  <2>2. /\ UNCHANGED <<start, expired, put, rm>>
        /\ session = "none" => session' = "none"
    BY <1>9 DEF CompleteRefuse, ActiveSessionMissed, CompleteList, MergePart,
       AppendPart, Publish, CompleteFail, Rollback, RegisterTask, RegisterFails
  <2>3. /\ \A d \in Completes : d # c => comp'[d] = comp[d]
        /\ CompActive(c)' => CompActive(c)
        /\ Counts(c)' => Counts(c)
        /\ comp'[c] \in Early => comp[c] \in Early
    BY <1>1, <1>9 DEF CompleteRefuse, CompleteList, MergePart, AppendPart,
       Publish, CompleteFail, Rollback, RegisterTask, RegisterFails, CompGoesTo,
       CompActive, Counts, Early, TypeOK
  <2> QED
    BY <1>2, <2>1, <2>2, <2>3 DEF PutActive, CompActive, RmActive, Counts
<1>10. ASSUME NEW c \in Completes, CompleteRemove(c) PROVE T
  <2>1. /\ comp' = [comp EXCEPT ![c] = "removing"]
        /\ rm' = [rm EXCEPT ![c] = "scan"]
        /\ UNCHANGED <<start, session, expired, put>>
        /\ CompActive(c)
    BY <1>10 DEF CompleteRemove, CompGoesTo, CompActive
  <2>2. start = "done" /\ ~RmActive("abort")
    BY <2>1, CompleteIsAlone
  <2>3. /\ c # "abort" /\ c # "sweep" /\ rm'["abort"] = rm["abort"]
        /\ rm'["sweep"] = rm["sweep"] /\ ~(comp'[c] \in Early)
        /\ \A d \in Completes : d # c => comp'[d] = comp[d] /\ rm'[d] = rm[d]
    BY <1>1, <2>1, MultipartAssumption DEF Removers, TypeOK, Early
  <2>4. \A q \in Puts : ~PutActive(q) /\ ~PutActive(q)'
    BY <2>1, CompleteIsAlone DEF PutActive
  <2> QED
    BY <1>1, <2>1, <2>2, <2>3, <2>4 DEF RmActive
<1>11. ASSUME NEW r \in Removers,
              \/ RmScan(r) \/ RmUnlink(r) \/ RmDone(r) \/ RmNotEmpty(r) \/ RmError(r)
       PROVE  T
  <2>1. /\ RmActive(r) /\ UNCHANGED <<start, expired, put>>
        /\ session = "none" => session' = "none"
    BY <1>11 DEF RmScan, RmUnlink, RmDone, RmNotEmpty, RmError, RmThrows,
       Rollback, RmActive
  <2>2. \A s \in Removers : s # r => rm'[s] = rm[s]
    BY <1>1, <1>11 DEF RmScan, RmUnlink, RmDone, RmNotEmpty, RmError, RmThrows,
       TypeOK
  <2>3. start = "done" /\ (r \in Completes => comp[r] = "removing")
    BY <2>1, RemoverIsKnown, MultipartAssumption
  <2>4. \A c \in Completes :
          \/ comp'[c] = comp[c]
          \/ c = r /\ comp'[c] \in {"removed", "failed"}
    BY <1>1, <1>11 DEF RmScan, RmUnlink, RmDone, RmNotEmpty, RmError, RmThrows,
       Rollback, CompGoesTo, TypeOK
  <2>5. \A c \in Completes :
          /\ CompActive(c)' => CompActive(c)
          /\ Counts(c)' => Counts(c)
          /\ comp'[c] \in Early => comp[c] \in Early /\ rm'[c] = rm[c]
    BY <2>2, <2>3, <2>4 DEF CompActive, Counts, Early, Removers
  <2>6. rm["sweep"] = "off" => rm'["sweep"] = "off"
    BY <2>1, <2>2 DEF RmActive, Removers
  <2> QED
    BY <1>2, <2>1, <2>2, <2>3, <2>5, <2>6 DEF PutActive, RmActive
<1>12. CASE Expire
  BY <1>1, <1>12 DEF Expire, OnlyOnceAnswered, PutActive, CompActive, RmActive,
     Counts
<1>13. CASE Sweep
  <2>1. /\ start = "done" /\ expired /\ session' = "none"
        /\ rm' = [rm EXCEPT !["sweep"] = "scan"]
        /\ UNCHANGED <<start, expired, put, comp>>
    BY <1>1, <1>13 DEF Sweep, OnlyOnceAnswered
  <2>2. \A s \in Completes \cup {"abort"} : rm'[s] = rm[s]
    BY <1>1, <2>1, MultipartAssumption DEF Removers, TypeOK
  <2> QED
    BY <1>1, <2>1, <2>2 DEF PutActive, CompActive, RmActive, Counts
<1>14. CASE Restart
  <2>1. /\ \A q \in Puts : ~PutActive(q)'
        /\ \A c \in Completes : ~CompActive(c)'
        /\ \A r \in Removers : /\ ~RmActive(r)'
                               /\ rm[r] = "off" <=> rm'[r] = "off"
        /\ session' = "none" /\ UNCHANGED expired
        /\ start' \in {"done", "lost"} => start \in {"done", "lost"}
        /\ start \notin {"done", "lost"} =>
             \A q \in Puts : put[q] = "new" => put'[q] = "new"
    BY <1>14 DEF Restart, PutActive, CompActive, RmActive
  <2>2. \A c \in Completes : comp'[c] \in Early => comp[c] \in Early
    BY <1>14 DEF Restart, CompActive, Early
  <2>3. start' \notin {"done", "lost"} => start \notin {"done", "lost"}
    BY <1>14 DEF Restart
  <2>4. "abort" \in Removers /\ "sweep" \in Removers /\ Completes \subseteq Removers
    BY DEF Removers
  <2> QED
    BY <1>1, <2>1, <2>2, <2>3, <2>4
<1>15. CASE UNCHANGED vars
  BY <1>1, <1>15 DEF vars, PutActive, CompActive, RmActive, Counts
<1> QED
  BY <1>3, <1>4, <1>5, <1>6, <1>7, <1>8, <1>9, <1>10, <1>11, <1>12, <1>13,
     <1>14, <1>15 DEF Next

---------------------------------------------------------------------------
(* The session, until it expires. *)

LEMMA SessionStep ==
  ASSUME Patient, PatientInv, [Next]_vars
  PROVE  SessionInv'
<1> SUFFICES ASSUME ~expired'
             PROVE  /\ \A q \in Puts : PutActive(q)' => session' = "INITIATED"
                    /\ \A c \in Completes : CompActive(c)' /\ comp'[c] # "removed"
                         => session' = "COMPLETING"
                    /\ RmActive("abort")' => session' # "none"
  BY DEF SessionInv
<1> DEFINE S == /\ \A q \in Puts : PutActive(q)' => session' = "INITIATED"
                /\ \A c \in Completes : CompActive(c)' /\ comp'[c] # "removed"
                     => session' = "COMPLETING"
                /\ RmActive("abort")' => session' # "none"
<1> USE DEF lifeVars, mergeVars, rmVars
<1>1. TypeOK /\ SessionInv /\ ~expired
  BY TimeStep DEF PatientInv, ExclusionInv
\* A request that only ends, or goes on where it is.
<1>2. ASSUME session' = session, RmActive("abort")' => RmActive("abort"),
             \A q \in Puts : PutActive(q)' => PutActive(q),
             \A c \in Completes : CompActive(c)' /\ comp'[c] # "removed"
               => CompActive(c) /\ comp[c] # "removed"
      PROVE  S
  BY <1>1, <1>2 DEF SessionInv
\* One that ends with nobody else at work.
<1>3. ASSUME ~RmActive("abort")', \A q \in Puts : ~PutActive(q)',
             \A c \in Completes : ~CompActive(c)' \/ comp'[c] = "removed"
      PROVE  S
  BY <1>3
<1>4. CASE InitiateMkdir \/ InitiateSet
  <2>1. start # "done" /\ UNCHANGED <<put, comp, rm>>
    BY <1>4 DEF InitiateMkdir, InitiateSet
  <2>2. ~RmActive("abort") /\ \A q \in Puts : ~PutActive(q)
    BY <2>1 DEF PatientInv, TurnInv, Removers
  <2>3. \A c \in Completes : ~CompActive(c)
    BY <2>1, CompleteIsAlone
  <2> QED
    BY <1>3, <2>1, <2>2, <2>3 DEF PutActive, CompActive, RmActive
<1>5. CASE AbortStart
  <2>1. /\ UNCHANGED <<session, put, comp>> /\ session # "none"
        /\ \A q \in Puts : ~PutActive(q)
        /\ \A c \in Completes : ~CompActive(c)
    BY <1>5 DEF AbortStart, ClientMaySend, ClientIdle, Active
  <2> QED
    BY <2>1 DEF PutActive, CompActive
<1>6. CASE AbortRefuse
  <2>1. /\ session' = session /\ UNCHANGED <<put, comp>> /\ ~RmActive("abort")'
    BY <1>1, <1>6, RefusalKeepsSession DEF AbortRefuse, RmActive, TypeOK, Removers
  <2> QED
    BY <1>2, <2>1 DEF PutActive, CompActive
<1>7. ASSUME NEW q \in Puts, PutAdmit(q) PROVE S
  <2>1. /\ UNCHANGED <<session, comp, rm>> /\ session = "INITIATED"
        /\ \A c \in Completes : ~CompActive(c)
        /\ ~RmActive("abort")
    BY <1>1, <1>7 DEF PutAdmit, ClientMaySend, ClientIdle, Active, TypeOK
  <2> QED
    BY <2>1 DEF CompActive, RmActive
<1>8. ASSUME NEW q \in Puts,
             \/ PutRefuse(q) \/ PutOpen(q) \/ PutRename(q) \/ PutAck(q) \/ PutFail(q)
      PROVE  S
  <2>1. session' = session
    BY <1>1, <1>8, RefusalKeepsSession DEF PutRefuse, PutOpen, PutRename, PutAck,
       PutFail
  <2>2. UNCHANGED <<comp, rm>>
    BY <1>8 DEF PutRefuse, PutOpen, PutRename, PutAck, PutFail
  <2>3. \A p \in Puts : PutActive(p)' => PutActive(p)
    BY <1>1, <1>8 DEF PutRefuse, PutOpen, PutRename, PutAck, PutFail, PutGoesTo,
       PutActive, TypeOK
  <2> QED
    BY <1>2, <2>1, <2>2, <2>3 DEF CompActive, RmActive
<1>9. ASSUME NEW c \in Completes, CompleteStart(c) PROVE S
  <2>1. /\ session' = "COMPLETING" /\ UNCHANGED <<put, rm>>
        /\ \A p \in Puts : ~PutActive(p)
        /\ ~RmActive("abort")
    BY <1>9 DEF CompleteStart, ClientMaySend, ClientIdle
  <2> QED
    BY <2>1 DEF PutActive, RmActive
<1>10. ASSUME NEW c \in Completes,
              \/ CompleteRefuse(c) \/ CompleteList(c) \/ MergePart(c)
              \/ Publish(c) \/ CompleteRemove(c) \/ RegisterTask(c)
              \/ RegisterFails(c)
       PROVE  S
  <2>1. session' = session
    BY <1>1, <1>10, RefusalKeepsSession DEF CompleteRefuse, CompleteList,
       MergePart, AppendPart, Publish, CompleteRemove, RegisterTask, RegisterFails
  <2>2. put' = put /\ rm'["abort"] = rm["abort"]
    BY <1>1, <1>10, MultipartAssumption DEF CompleteRefuse, CompleteList,
       MergePart, AppendPart, Publish, CompleteRemove, RegisterTask,
       RegisterFails, Removers, TypeOK
  <2>3. \A d \in Completes : CompActive(d)' /\ comp'[d] # "removed"
          => CompActive(d) /\ comp[d] # "removed"
    BY <1>1, <1>10 DEF CompleteRefuse, CompleteList, MergePart, AppendPart,
       Publish, CompleteRemove, RegisterTask, RegisterFails, CompGoesTo,
       CompActive, TypeOK
  <2> QED
    BY <1>2, <2>1, <2>2, <2>3 DEF PutActive, RmActive
<1>11. ASSUME NEW c \in Completes, CompActive(c), Rollback(c), put' = put,
              rm'["abort"] = rm["abort"]
       PROVE  S
  <2>1. /\ comp'[c] = "failed"
        /\ \A d \in Completes : d # c => comp'[d] = comp[d] /\ ~CompActive(d)
    BY <1>1, <1>11, CompleteIsAlone DEF Rollback, CompGoesTo, TypeOK, Counts
  <2>2. ~RmActive("abort") /\ \A q \in Puts : ~PutActive(q)
    BY <1>11, CompleteIsAlone
  <2> QED
    BY <1>3, <1>11, <2>1, <2>2 DEF PutActive, CompActive, RmActive
<1>12. ASSUME NEW c \in Completes, CompleteFail(c) PROVE S
  BY <1>11, <1>12 DEF CompleteFail, CompActive
<1>13. ASSUME NEW r \in Removers, RmScan(r) \/ RmUnlink(r) PROVE S
  <2>1. /\ UNCHANGED <<session, put, comp>>
        /\ RmActive("abort")' => RmActive("abort")
    BY <1>1, <1>13 DEF RmScan, RmUnlink, RmActive, TypeOK, Removers
  <2> QED
    BY <1>2, <2>1 DEF PutActive, CompActive
<1>14. ASSUME NEW r \in Removers, RmDone(r) PROVE S
  <2>1. /\ RmActive(r) /\ put' = put
        /\ rm' = [rm EXCEPT ![r] = "over"]
        /\ \A c \in Completes : comp'[c] = IF c = r THEN "removed" ELSE comp[c]
    BY <1>14 DEF RmDone, RmActive
  <2>2. CASE r = "abort"
    <3>1. ~RmActive("abort")'
      BY <1>1, <2>1, <2>2 DEF RmActive, TypeOK, Removers
    <3>2. /\ \A q \in Puts : ~PutActive(q)
          /\ \A c \in Completes : ~CompActive(c)
      BY <2>1, <2>2 DEF PatientInv, TurnInv
    <3> QED
      BY <1>3, <2>1, <3>1, <3>2 DEF PutActive, CompActive
  <2>3. CASE r \in Completes
    <3>1. CompActive(r) /\ r # "abort"
      BY <2>1, <2>3, RemoverIsKnown, MultipartAssumption
    <3>2. /\ ~RmActive("abort") /\ \A q \in Puts : ~PutActive(q)
          /\ \A c \in Completes : c # r => ~CompActive(c)
      BY <2>3, <3>1, CompleteIsAlone DEF Counts
    <3>3. ~RmActive("abort")'
      BY <1>1, <2>1, <3>1, <3>2 DEF RmActive, TypeOK, Removers
    <3> QED
      BY <1>3, <2>1, <3>2, <3>3 DEF PutActive, CompActive
  <2> QED
    BY <1>1, <2>1, <2>2, <2>3, RemoverIsKnown
<1>15. ASSUME NEW r \in Removers, RmNotEmpty(r) \/ RmError(r) PROVE S
  <2>1. RmActive(r) /\ RmThrows(r)
    BY <1>15 DEF RmNotEmpty, RmError, RmActive
  <2>2. CASE r \in Completes
    <3>1. CompActive(r) /\ rm'["abort"] = rm["abort"]
      BY <1>1, <2>1, <2>2, RemoverIsKnown, MultipartAssumption
         DEF RmThrows, Removers, TypeOK
    <3> QED
      BY <1>11, <2>1, <2>2, <3>1 DEF RmThrows
  <2>3. CASE r \notin Completes
    <3>1. UNCHANGED <<session, put, comp>> /\ (RmActive("abort")' => RmActive("abort"))
      BY <1>1, <2>1, <2>3 DEF RmThrows, RmActive, TypeOK, Removers
    <3> QED
      BY <1>2, <3>1 DEF PutActive, CompActive
  <2> QED
    BY <2>2, <2>3
<1>16. CASE Restart
  <2>1. ~RmActive("abort")'
    BY <1>16 DEF Restart, RmActive, Removers
  <2> QED
    BY <1>3, <1>16, <2>1 DEF Restart, PutActive, CompActive
<1>17. ~Expire /\ ~Sweep
  BY <1>1 DEF Expire, Sweep
<1>18. CASE UNCHANGED vars
  BY <1>2, <1>18 DEF vars, PutActive, CompActive, RmActive
<1> QED
  BY <1>4, <1>5, <1>6, <1>7, <1>8, <1>9, <1>10, <1>12, <1>13, <1>14, <1>15,
     <1>16, <1>17, <1>18 DEF Next

---------------------------------------------------------------------------
(* Files. *)

\* A file is what was last stored in its place, if it is there.
PartsAreStored ==
  \A n \in Parts : /\ stored[n] # None => PartOf[stored[n]] = n
                   /\ part[n] \in {None, stored[n]}

LEMMA PartsStep ==
  ASSUME PatientInv, [Next]_vars
  PROVE  PartsAreStored'
<1> USE DEF PartsAreStored, lifeVars, filesVars, mergeVars, rmVars
<1>1. TypeOK /\ PartsAreStored
  BY DEF PatientInv, ExclusionInv, FilesInv
<1>2. ASSUME UNCHANGED <<part, stored>> PROVE PartsAreStored'
  BY <1>1, <1>2
<1>3. ASSUME NEW q \in Puts, PutRename(q) PROVE PartsAreStored'
  BY <1>1, <1>3 DEF PutRename, TypeOK
<1>4. ASSUME NEW r \in Removers, RmUnlink(r) PROVE PartsAreStored'
  BY <1>1, <1>4 DEF RmUnlink
<1>5. CASE \/ InitiateMkdir \/ InitiateSet \/ AbortStart \/ AbortRefuse
           \/ Expire \/ Sweep \/ Restart \/ UNCHANGED vars
           \/ \E q \in Puts : \/ PutAdmit(q) \/ PutRefuse(q) \/ PutOpen(q)
                              \/ PutAck(q) \/ PutFail(q)
  BY <1>2, <1>5 DEF InitiateMkdir, InitiateSet, AbortStart, AbortRefuse, Expire,
     Sweep, Restart, vars, PutAdmit, PutRefuse, PutOpen, PutAck, PutFail
<1>6. CASE \/ \E c \in Completes :
                \/ CompleteStart(c) \/ CompleteRefuse(c) \/ CompleteList(c)
                \/ MergePart(c) \/ Publish(c) \/ CompleteRemove(c)
                \/ CompleteFail(c) \/ RegisterTask(c) \/ RegisterFails(c)
           \/ \E r \in Removers : RmScan(r) \/ RmDone(r) \/ RmNotEmpty(r)
                                  \/ RmError(r)
  BY <1>2, <1>6 DEF CompleteStart, CompleteRefuse, CompleteList, MergePart,
     AppendPart, Publish, CompleteRemove, CompleteFail, RegisterTask,
     RegisterFails, RmScan, RmDone, RmNotEmpty, RmError, RmThrows
<1> QED
  BY <1>3, <1>4, <1>5, <1>6 DEF Next

LEMMA FilesStep ==
  ASSUME PatientInv, [Next]_vars
  PROVE  FilesInv'
<1> DEFINE Listed == \A r \in Removers : rm[r] = "unlink" => left[r] = Files
           Whole  == Calm /\ Open /\ (\A r \in Removers : rm[r] # "unlink")
                       => part = stored
           Gone   == start = "done" /\ session = "none" => ~dir
           F      == Listed' /\ Whole' /\ Gone'
<1> SUFFICES ASSUME ~expired' PROVE F
  BY PartsStep DEF FilesInv, PartsAreStored, Calm
<1> USE DEF lifeVars, filesVars, mergeVars, rmVars
<1>1. TypeOK /\ Listed /\ Whole /\ Gone /\ ~expired /\ (Calm' => Calm)
  BY TimeStep, CalmStep DEF PatientInv, ExclusionInv, FilesInv
\* Nothing that FilesInv is about changes.
<1>2. ASSUME UNCHANGED <<start, filesVars, stored, left>>,
             (session' = "none") <=> (session = "none"),
             \A r \in Removers : rm'[r] = "unlink" <=> rm[r] = "unlink"
      PROVE  F
  BY <1>1, <1>2 DEF Files, Open
<1>3. CASE InitiateMkdir \/ InitiateSet
  <2>1. Open /\ Open' /\ UNCHANGED <<part, temp, rm, left, stored>>
    BY <1>3 DEF InitiateMkdir, InitiateSet, Open
  <2>2. Gone'
    BY <1>3 DEF InitiateMkdir, InitiateSet
  <2> QED
    BY <1>1, <2>1, <2>2 DEF Files
<1>4. CASE AbortStart \/ AbortRefuse
  <2>1. session' = session
    BY <1>1, <1>4, RefusalKeepsSession DEF AbortStart, AbortRefuse
  <2>2. \A r \in Removers : rm'[r] = "unlink" <=> rm[r] = "unlink"
    BY <1>1, <1>4 DEF AbortStart, AbortRefuse, TypeOK
  <2> QED
    BY <1>2, <1>4, <2>1, <2>2 DEF AbortStart, AbortRefuse
<1>5. ASSUME NEW q \in Puts, PutAdmit(q) \/ PutRefuse(q) \/ PutAck(q) PROVE F
  BY <1>1, <1>2, <1>5, RefusalKeepsSession DEF PutAdmit, PutRefuse, PutAck
\* While a part is stored no removal runs, and the upload is open.
<1>6. ASSUME NEW q \in Puts, PutOpen(q) \/ PutRename(q) \/ PutFail(q) PROVE F
  <2>1. /\ session = "INITIATED"
        /\ \A r \in Removers : rm[r] # "unlink"
    BY <1>1, <1>6, PutIsAlone DEF PutOpen, PutRename, PutFail, PutActive, RmActive
  <2>2. UNCHANGED <<start, session, rm, left>>
    BY <1>6 DEF PutOpen, PutRename, PutFail
  <2>3. \/ UNCHANGED <<part, stored>>
        \/ /\ part' = [part EXCEPT ![PartOf[q]] = q]
           /\ stored' = [stored EXCEPT ![PartOf[q]] = q]
    BY <1>6 DEF PutOpen, PutRename, PutFail
  <2> QED
    BY <1>1, <2>1, <2>2, <2>3 DEF Open
<1>7. ASSUME NEW c \in Completes,
             \/ CompleteStart(c) \/ CompleteRefuse(c) \/ CompleteList(c)
             \/ MergePart(c) \/ Publish(c) \/ CompleteRemove(c)
             \/ CompleteFail(c) \/ RegisterTask(c) \/ RegisterFails(c)
      PROVE  F
  <2>1. UNCHANGED <<start, filesVars, stored, left>>
    BY <1>7 DEF CompleteStart, CompleteRefuse, CompleteList, MergePart,
       AppendPart, Publish, CompleteRemove, CompleteFail, RegisterTask,
       RegisterFails
  <2>2. (session' = "none") <=> (session = "none")
    BY <1>1, <1>7, RefusalKeepsSession DEF CompleteStart, Active,
       CompleteRefuse, CompleteList, MergePart, AppendPart, Publish,
       CompleteRemove, CompleteFail, Rollback, RegisterTask, RegisterFails
  <2>3. \A r \in Removers : rm'[r] = "unlink" <=> rm[r] = "unlink"
    <3>1. CASE CompleteRemove(c)
      <4>1. rm[c] = "off" /\ rm' = [rm EXCEPT ![c] = "scan"]
        BY <3>1 DEF CompleteRemove, PatientInv, TurnInv, Early
      <4> QED
        BY <1>1, <4>1 DEF TypeOK
    <3>2. CASE ~CompleteRemove(c)
      <4>1. rm' = rm
        BY <1>7, <3>2 DEF CompleteStart, CompleteRefuse, CompleteList,
           MergePart, AppendPart, Publish, CompleteFail, RegisterTask,
           RegisterFails
      <4> QED
        BY <4>1
    <3> QED
      BY <3>1, <3>2
  <2> QED
    BY <1>2, <2>1, <2>2, <2>3
<1>8. ASSUME NEW r \in Removers, RmScan(r) PROVE F
  <2>1. /\ UNCHANGED <<start, session, dir, part, temp, stored>>
        /\ rm' = [rm EXCEPT ![r] = "unlink"]
        /\ left' = [left EXCEPT ![r] = Files]
    BY <1>8 DEF RmScan
  <2>2. Files' = Files
    BY <2>1 DEF Files
  <2> QED
    BY <1>1, <2>1, <2>2 DEF TypeOK
<1>9. ASSUME NEW r \in Removers, RmUnlink(r) PROVE F
  <2>1. PICK f \in left[r] :
          /\ left' = [left EXCEPT ![r] = @ \ {f}]
          /\ temp' = temp \ {f}
          /\ part' = [n \in Parts |-> IF n = f THEN None ELSE part[n]]
    BY <1>9 DEF RmUnlink
  <2>2. rm[r] = "unlink" /\ UNCHANGED <<start, session, dir, rm, stored>>
    BY <1>9 DEF RmUnlink
  <2>3. Files' = Files \ {f}
    BY <2>1 DEF Files, PartsWithFile
  <2>4. \A s \in Removers : rm[s] = "unlink" => s = r
    BY <1>1, <2>2, OneRemoval DEF RmActive
  <2>5. Listed'
    BY <1>1, <2>1, <2>2, <2>3, <2>4 DEF TypeOK
  <2> QED
    BY <1>1, <2>2, <2>5
\* The removal that ends closes the upload.
<1>10. ASSUME NEW r \in Removers, RmDone(r) PROVE F
  <2>1. start = "done" /\ r # "sweep"
    BY <1>1, <1>10, RemoverIsKnown, MultipartAssumption DEF RmDone, RmActive
  <2>2. /\ session' = "none" /\ ~dir' /\ ~Open'
        /\ UNCHANGED <<part, temp, left, stored>>
        /\ \A s \in Removers : rm'[s] = "unlink" => rm[s] = "unlink"
    BY <1>1, <1>10, <2>1 DEF RmDone, TypeOK, Open
  <2> QED
    BY <1>1, <2>2 DEF Files
<1>11. ASSUME NEW r \in Removers, RmNotEmpty(r) \/ RmError(r) PROVE F
  <2>1. /\ UNCHANGED <<start, filesVars, stored>>
        /\ (session' = "none") <=> (session = "none")
        /\ rm' = [rm EXCEPT ![r] = "stuck"]
        /\ left' = [left EXCEPT ![r] = {}]
    BY <1>11 DEF RmNotEmpty, RmError, RmThrows, Rollback
  <2>2. Damaged'
    BY <1>1, <2>1 DEF Damaged, TypeOK
  <2>3. \A s \in Removers : rm'[s] = "unlink"
          => rm[s] = "unlink" /\ left'[s] = left[s]
    BY <1>1, <2>1 DEF TypeOK
  <2> QED
    BY <1>1, <2>1, <2>2, <2>3 DEF Calm, Files
\* A restart leaves an upload open that was never answered.
<1>12. CASE Restart
  <2>1. /\ \A r \in Removers : rm'[r] # "unlink"
        /\ start' # "done" /\ UNCHANGED <<part, stored>>
    BY <1>12 DEF Restart, RmActive
  <2>2. Open' => start \notin {"done", "lost"}
    BY <1>12 DEF Restart, Open
  <2>3. start \notin {"done", "lost"} => \A r \in Removers : rm[r] # "unlink"
    BY DEF PatientInv, TurnInv
  <2> QED
    BY <1>1, <2>1, <2>2, <2>3 DEF Open
<1>13. ~Expire /\ ~Sweep
  BY <1>1 DEF Expire, Sweep
<1>14. CASE UNCHANGED vars
  BY <1>2, <1>14 DEF vars
<1> QED
  BY <1>3, <1>4, <1>5, <1>6, <1>7, <1>8, <1>9, <1>10, <1>11, <1>12, <1>13,
     <1>14 DEF Next

---------------------------------------------------------------------------
(* The object. *)

\* No removal has begun and no PUT runs while a complete lists and merges.
LEMMA CompleteSeesStored ==
  ASSUME PatientInv, Calm, NEW c \in Completes, comp[c] \in {"listing", "merging"}
  PROVE  part = stored
<1>1. start = "done" /\ session = "COMPLETING" /\ ~RmActive("abort")
  BY CompleteIsAlone DEF PatientInv, SessionInv, Calm, CompActive
<1>2. \A d \in Completes : rm[d] # "unlink"
  BY DEF PatientInv, ExclusionInv, OneComplete, RemovingIsActive, RmActive,
     CompActive
<1>3. \A r \in Removers : rm[r] # "unlink"
  BY <1>1, <1>2, RemoverIsKnown DEF RmActive, Calm
<1> QED
  BY <1>1, <1>3 DEF PatientInv, FilesInv, Open

\* Appending the least part that is missing keeps the order.
LEMMA AppendMerges ==
  ASSUME TypeOK, FilesInv, Calm' => Calm,
         NEW c \in Completes, Merging(c),
         NEW n \in todo[c], \A m \in todo[c] : n <= m,
         merged'[c] = Append(merged[c], stored[n]),
         todo'[c] = todo[c] \ {n}, stored' = stored
  PROVE  Merging(c)'
<1> DEFINE s == merged[c]
           t == merged'[c]
           k == Len(s) + 1
<1>1. s \in Seq(Puts) /\ stored[n] \in Puts /\ PartOf[stored[n]] = n
  BY DEF TypeOK, Merging, StoredParts, FilesInv
<1>2. /\ DOMAIN t = 1 .. k /\ DOMAIN s = 1 .. k - 1 /\ k \in Nat
      /\ t[k] = stored[n] /\ \A i \in DOMAIN s : t[i] = s[i]
  BY <1>1
<1>3. todo[c] \subseteq Nat /\ \A i \in DOMAIN s : PartOf[s[i]] \in Nat
  BY <1>1, MultipartAssumption DEF TypeOK, Parts
<1>4. /\ Atomic!Elements(t) = Atomic!Elements(s) \cup {stored[n]}
      /\ Appended(c)' = Appended(c) \cup {stored[n]}
  <2>1. {t[i] : i \in DOMAIN t} = {s[i] : i \in DOMAIN s} \cup {stored[n]}
    BY <1>2
  <2>2. StoredParts' = StoredParts
    BY DEF StoredParts
  <2>3. StoredParts \ todo'[c] = (StoredParts \ todo[c]) \cup {n}
    BY DEF Merging
  <2>4. {stored[m] : m \in StoredParts \ todo'[c]}
          = {stored[m] : m \in StoredParts \ todo[c]} \cup {stored[n]}
    BY <2>3
  <2> QED
    BY <2>1, <2>2, <2>4 DEF Atomic!Elements, Appended
<1>5. \A i \in DOMAIN s : PartOf[s[i]] < n
  BY DEF Merging
<1>6. Ascending(t)
  BY <1>1, <1>2, <1>5 DEF Merging, Ascending
<1>7. \A i \in DOMAIN t, m \in todo'[c] : PartOf[t[i]] < m
  BY <1>1, <1>2, <1>3, <1>5 DEF Merging
<1>8. t # <<>>
  BY <1>2
<1>9. todo'[c] \subseteq StoredParts'
  BY DEF Merging, StoredParts
<1>10. /\ Atomic!Elements(merged[c])' = Atomic!Elements(t)
       /\ Ascending(merged[c])' = Ascending(t)
  BY DEF Atomic!Elements, Ascending
<1> QED
  BY <1>4, <1>6, <1>7, <1>8, <1>9, <1>10 DEF Merging

\* What is made of the stored parts stays so while neither of them changes.
LEMMA MadeStays ==
  ASSUME Calm' => Calm, UNCHANGED <<object, stored>>, Made
  PROVE  Made'
BY DEF Made, Atomic!IsMadeOf, Atomic!IsWhole, Atomic!Elements, Atomic!Held,
   Atomic!Parts

LEMMA MergingStays ==
  ASSUME Calm' => Calm, stored' = stored, NEW c \in Completes,
         todo'[c] = todo[c], merged'[c] = merged[c], Merging(c)
  PROVE  Merging(c)'
BY DEF Merging, StoredParts, Appended, Ascending, Atomic!Elements

\* Once all of the list is appended, the object can be made of it.
LEMMA MergedIsMade ==
  ASSUME TypeOK, Calm' => Calm, NEW c \in Completes, Merging(c), todo[c] = {},
         object' = merged[c], stored' = stored
  PROVE  Made'
<1>1. Appended(c) = Atomic!Held(stored)
  BY DEF Appended, StoredParts, Atomic!Held, Atomic!Parts, Parts
<1>2. Atomic!IsMadeOf(merged[c], stored)
  BY <1>1 DEF Merging, Ascending, Atomic!IsMadeOf
<1>3. Calm => Atomic!IsWhole(merged[c], stored)
  BY <1>1, <1>2 DEF Merging, Atomic!IsWhole
<1>4. /\ Atomic!IsMadeOf(object, stored)' = Atomic!IsMadeOf(merged[c], stored)
      /\ Atomic!IsWhole(object, stored)' = Atomic!IsWhole(merged[c], stored)
  BY DEF Atomic!IsMadeOf, Atomic!IsWhole, Atomic!Elements, Atomic!Held,
     Atomic!Parts
<1> QED
  BY <1>2, <1>3, <1>4 DEF Made

LEMMA MergeStep ==
  ASSUME PatientInv, [Next]_vars
  PROVE  MergeInv'
<1> USE DEF MergeInv, MergedSoFar, Done, lifeVars, filesVars, mergeVars, rmVars
<1> DEFINE M == MergeInv'
<1>1. TypeOK /\ MergeInv /\ FilesInv /\ (Calm' => Calm)
  BY CalmStep DEF PatientInv, ExclusionInv
\* What is merged stays, and nobody gets ahead in his turn.
<1>2. ASSUME UNCHANGED <<todo, merged, object, stored>>,
             \A d \in Completes : \/ comp'[d] \in {comp[d], "failed", "unqueued"}
                                  \/ comp[d] = "new" /\ comp'[d] = "listing"
                                  \/ comp[d] \in Done /\ comp'[d] \in Done
      PROVE  M
  <2>1. ASSUME NEW d \in Completes, comp'[d] = "merging" PROVE Merging(d)'
    BY <1>1, <1>2, <2>1, MergingStays
  <2>2. ASSUME NEW d \in Completes, comp'[d] \in Done PROVE Made'
    BY <1>1, <1>2, <2>2, MadeStays
  <2> QED
    BY <1>1, <1>2, <2>1, <2>2
\* The other completes, when one makes a step.
<1>3. ASSUME NEW d \in Completes, stored' = stored,
             comp'[d] = comp[d], todo'[d] = todo[d], merged'[d] = merged[d],
             object' = object \/ comp[d] \notin Done
      PROVE  MergedSoFar(d)'
  <2>1. comp[d] = "merging" => Merging(d)'
    BY <1>1, <1>3, MergingStays
  <2>2. comp[d] \in Done => Made'
    BY <1>1, <1>3, MadeStays
  <2> QED
    BY <1>1, <1>3, <2>1, <2>2
<1>4. ASSUME NEW q \in Puts, PutRename(q) PROVE M
  <2>1. \A c \in Completes : comp[c] \in {"new", "failed", "unqueued"}
    BY <1>1, <1>4, PutIsAlone DEF PutRename, PutActive, CompActive, Counts, TypeOK
  <2> QED
    BY <1>1, <1>4, <2>1 DEF PutRename
<1>5. ASSUME NEW c \in Completes, CompleteList(c) PROVE M
  <2>1. /\ comp[c] = "listing" /\ comp' = [comp EXCEPT ![c] = "merging"]
        /\ todo' = [todo EXCEPT ![c] = PartsWithFile(part)]
        /\ PartsWithFile(part) # {}
        /\ UNCHANGED <<merged, object, stored>>
    BY <1>5 DEF CompleteList, CompGoesTo
  <2>2. todo'[c] = PartsWithFile(part) /\ merged'[c] = <<>>
    BY <1>1, <2>1 DEF TypeOK
  <2>3. PartsWithFile(part) \subseteq StoredParts
    BY <1>1 DEF PartsWithFile, StoredParts, FilesInv
  <2>4. Calm => PartsWithFile(part) = StoredParts
    BY <2>1, CompleteSeesStored DEF PartsWithFile, StoredParts
  <2>5. Merging(c)'
    <3>1. StoredParts' = StoredParts
      BY <2>1 DEF StoredParts
    <3>2. Atomic!Elements(merged[c])' = {}
      BY <2>2 DEF Atomic!Elements
    <3>3. Calm' => Appended(c)' = {}
      BY <1>1, <2>2, <2>4, <3>1 DEF Appended
    <3>4. DOMAIN merged'[c] = {}
      BY <2>2
    <3> QED
      BY <2>1, <2>2, <2>3, <3>1, <3>2, <3>3, <3>4 DEF Merging, Ascending
  <2>6. comp'[c] = "merging"
    BY <1>1, <2>1 DEF TypeOK
  <2>7. \A d \in Completes : d # c => comp'[d] = comp[d] /\ todo'[d] = todo[d]
    BY <1>1, <2>1 DEF TypeOK
  <2> QED
    BY <1>3, <2>1, <2>5, <2>6, <2>7
<1>6. ASSUME NEW c \in Completes, MergePart(c) PROVE M
  <2>1. PICK n \in todo[c] : (\A m \in todo[c] : n <= m) /\ AppendPart(c, n)
    BY <1>6 DEF MergePart
  <2>2. comp[c] = "merging" /\ Merging(c) /\ UNCHANGED <<comp, object, stored>>
    BY <1>1, <1>6 DEF MergePart, AppendPart
  <2>3. part[n] = stored[n]
    BY <1>1, <2>1 DEF AppendPart, FilesInv, TypeOK
  <2>4. /\ todo' = [todo EXCEPT ![c] = @ \ {n}]
        /\ merged' = [merged EXCEPT ![c] = Append(@, stored[n])]
    BY <2>1, <2>3 DEF AppendPart
  <2>5. Merging(c)'
    BY <1>1, <2>1, <2>2, <2>4, AppendMerges DEF TypeOK
  <2>6. \A d \in Completes : d # c => merged'[d] = merged[d] /\ todo'[d] = todo[d]
    BY <1>1, <2>4 DEF TypeOK
  <2> QED
    BY <1>3, <2>2, <2>5, <2>6
<1>7. ASSUME NEW c \in Completes, Publish(c) PROVE M
  <2>1. /\ comp[c] = "merging" /\ comp' = [comp EXCEPT ![c] = "published"]
        /\ todo[c] = {} /\ object' = merged[c]
        /\ UNCHANGED <<todo, merged, stored>>
    BY <1>7 DEF Publish, CompGoesTo
  <2>2. Made'
    BY <1>1, <2>1, MergedIsMade
  <2>3. \A d \in Completes : d # c => /\ comp[d] \notin Done
                                      /\ comp'[d] = comp[d]
    BY <1>1, <2>1, CompleteIsAlone DEF CompActive, Counts, TypeOK
  <2>4. comp'[c] = "published"
    BY <1>1, <2>1 DEF TypeOK
  <2>5. MergedSoFar(c)'
    BY <2>2, <2>4
  <2> QED
    BY <1>3, <2>1, <2>3, <2>5
<1>8. ASSUME NEW c \in Completes,
             \/ CompleteStart(c) \/ CompleteRefuse(c) \/ CompleteRemove(c)
             \/ CompleteFail(c) \/ RegisterTask(c) \/ RegisterFails(c)
      PROVE  M
  <2>1. UNCHANGED <<todo, merged, object, stored>>
    BY <1>8 DEF CompleteStart, CompleteRefuse, CompleteRemove, CompleteFail,
       RegisterTask, RegisterFails
  <2>2. PICK x : comp' = [comp EXCEPT ![c] = x]
                 /\ \/ x \in {"failed", "unqueued"}
                    \/ x = "listing" /\ comp[c] = "new"
                    \/ x \in Done /\ comp[c] \in Done
    BY <1>8 DEF CompleteStart, CompleteRefuse, CompleteRemove, CompleteFail,
       Rollback, RegisterTask, RegisterFails, CompGoesTo
  <2> QED
    BY <1>1, <1>2, <2>1, <2>2 DEF TypeOK
<1>9. ASSUME NEW r \in Removers, RmDone(r) PROVE M
  <2>1. /\ UNCHANGED <<todo, merged, object, stored>>
        /\ \A d \in Completes : comp'[d] = IF d = r THEN "removed" ELSE comp[d]
    BY <1>9 DEF RmDone
  <2>2. r \in Completes => comp[r] = "removing"
    BY <1>9 DEF PatientInv, ExclusionInv, RemovingIsActive, RmActive, RmDone
  <2> QED
    BY <1>2, <2>1, <2>2
<1>10. ASSUME NEW r \in Removers, RmNotEmpty(r) \/ RmError(r) PROVE M
  <2>1. /\ UNCHANGED <<todo, merged, object, stored>>
        /\ \A d \in Completes : comp'[d] \in {comp[d], "failed"}
    BY <1>1, <1>10 DEF RmNotEmpty, RmError, RmThrows, Rollback, CompGoesTo, TypeOK
  <2> QED
    BY <1>2, <2>1
<1>11. CASE Restart
  BY <1>2, <1>11 DEF Restart
<1>12. CASE \/ InitiateMkdir \/ InitiateSet \/ AbortStart \/ AbortRefuse
            \/ Expire \/ Sweep \/ UNCHANGED vars
            \/ \E q \in Puts : \/ PutAdmit(q) \/ PutRefuse(q) \/ PutOpen(q)
                               \/ PutAck(q) \/ PutFail(q)
            \/ \E r \in Removers : RmScan(r) \/ RmUnlink(r)
  BY <1>2, <1>12 DEF InitiateMkdir, InitiateSet, AbortStart, AbortRefuse,
     Expire, Sweep, PutAdmit, PutRefuse, PutOpen, PutAck, PutFail, RmScan,
     RmUnlink, vars
<1> QED
  BY <1>4, <1>5, <1>6, <1>7, <1>8, <1>9, <1>10, <1>11, <1>12 DEF Next

---------------------------------------------------------------------------
(* The invariant. *)

LEMMA TaskStep ==
  ASSUME PatientInv, [Next]_vars
  PROVE  TaskInv'
<1> USE DEF TaskInv, lifeVars, filesVars, mergeVars, rmVars
<1>1. TypeOK /\ TaskInv
  BY DEF PatientInv, ExclusionInv
<1>2. ASSUME task' = task, \A c \in Completes : comp[c] = "ok" => comp'[c] = "ok"
      PROVE  TaskInv'
  BY <1>1, <1>2
<1>3. ASSUME NEW c \in Completes, RegisterTask(c) PROVE TaskInv'
  BY <1>1, <1>3 DEF RegisterTask, CompGoesTo, TypeOK
<1>4. ASSUME NEW c \in Completes,
             \/ CompleteStart(c) \/ CompleteRefuse(c) \/ CompleteList(c)
             \/ MergePart(c) \/ Publish(c) \/ CompleteRemove(c)
             \/ CompleteFail(c) \/ RegisterFails(c)
      PROVE  TaskInv'
  <2>1. task' = task
    BY <1>4 DEF CompleteStart, CompleteRefuse, CompleteList, MergePart,
       AppendPart, Publish, CompleteRemove, CompleteFail, RegisterFails
  <2>2. \A d \in Completes : comp[d] = "ok" => comp'[d] = "ok"
    BY <1>1, <1>4 DEF CompleteStart, CompleteRefuse, CompleteList, MergePart,
       AppendPart, Publish, CompleteRemove, CompleteFail, Rollback,
       RegisterFails, CompGoesTo, TypeOK
  <2> QED
    BY <1>2, <2>1, <2>2
<1>5. ASSUME NEW r \in Removers, RmDone(r) \/ RmNotEmpty(r) \/ RmError(r)
      PROVE  TaskInv'
  <2>1. r \in Completes => comp[r] = "removing"
    BY <1>5 DEF PatientInv, ExclusionInv, RemovingIsActive, RmActive, RmDone,
       RmNotEmpty, RmError
  <2>2. task' = task
    BY <1>5 DEF RmDone, RmNotEmpty, RmError, RmThrows
  <2>3. \A c \in Completes : comp'[c] = comp[c] \/ c = r
    BY <1>1, <1>5 DEF RmDone, RmNotEmpty, RmError, RmThrows, Rollback,
       CompGoesTo, TypeOK
  <2> QED
    BY <1>2, <2>1, <2>2, <2>3
<1>6. CASE Restart
  BY <1>2, <1>6 DEF Restart, CompActive
<1>7. CASE \/ InitiateMkdir \/ InitiateSet \/ AbortStart \/ AbortRefuse
           \/ Expire \/ Sweep \/ UNCHANGED vars
           \/ \E q \in Puts : \/ PutAdmit(q) \/ PutRefuse(q) \/ PutOpen(q)
                              \/ PutRename(q) \/ PutAck(q) \/ PutFail(q)
           \/ \E r \in Removers : RmScan(r) \/ RmUnlink(r)
  BY <1>2, <1>7 DEF InitiateMkdir, InitiateSet, AbortStart, AbortRefuse, Expire,
     Sweep, PutAdmit, PutRefuse, PutOpen, PutRename, PutAck, PutFail, RmScan,
     RmUnlink, vars
<1> QED
  BY <1>3, <1>4, <1>5, <1>6, <1>7 DEF Next

LEMMA PatientInit == Init => PatientInv
<1> SUFFICES ASSUME Init PROVE PatientInv
  OBVIOUS
<1>1. ExclusionInv
  BY InitTyped DEF Init, ExclusionInv, OneComplete, StatusIsLock,
     RemovingIsActive, OnlyOnceAnswered, CompActive, RmActive, Removers
<1>2. TurnInv /\ SessionInv
  BY DEF Init, TurnInv, SessionInv, PutActive, CompActive, RmActive, Counts,
     Removers
<1>3. FilesInv
  BY DEF Init, FilesInv, Open
<1>4. MergeInv
  BY DEF Init, MergeInv, MergedSoFar, Done
<1>5. DamageHasCause
  BY DEF Init, DamageHasCause, Damaged
<1> QED
  BY <1>1, <1>2, <1>3, <1>4, <1>5 DEF Init, PatientInv, TaskInv

LEMMA PatientStep ==
  ASSUME Patient
  PROVE  PatientInv /\ [Next]_vars => PatientInv'
<1> SUFFICES ASSUME PatientInv, [Next]_vars PROVE PatientInv'
  OBVIOUS
<1>1. ExclusionInv'
  BY ExclusionStep DEF PatientInv
<1> QED
  BY <1>1, TurnStep, SessionStep, FilesStep, MergeStep, TaskStep, DamageStep
     DEF PatientInv

---------------------------------------------------------------------------
(***************************************************************************)
(* MultipartService.ts, abort and complete: the session is deleted after   *)
(* the directory, and a client that waits writes nothing in between: an    *)
(* upload that was completed or aborted before it expired has left no file *)
(* and no directory, whatever failed meanwhile.  What expires or is        *)
(* forgotten by a restart may leave both.                                  *)
(***************************************************************************)
THEOREM LeavesNothing ==
  ASSUME Patient
  PROVE  Spec => []NothingLeftBehind
<1>1. PatientInv => NothingLeftBehind
  BY DEF PatientInv, FilesInv, NothingLeftBehind
<1> QED
  BY <1>1, PatientInit, PatientStep, PTL DEF Spec

(***************************************************************************)
(* MultipartService.ts, complete: the parts are listed once, appended one  *)
(* by one in ascending order and read when their turn comes.  For a client *)
(* that waits the object is made of parts as they were last stored, and of *)
(* all of them unless the session expired or a removal failed half way.    *)
(***************************************************************************)
THEOREM WholeObject ==
  ASSUME Patient
  PROVE  Spec => []CompletedIsWhole
<1>1. PatientInv => CompletedIsWhole
  BY DEF PatientInv, MergeInv, MergedSoFar, Made, Calm, Done, CompletedIsWhole
<1> QED
  BY <1>1, PatientInit, PatientStep, PTL DEF Spec

(***************************************************************************)
(* rm of a directory cannot meet a file that it has not listed before the  *)
(* session expires: for a client that waits, a removal that fails half way *)
(* then has failed by an error of its own, never because a PUT got in      *)
(* between (multipartStorage.ts, deleteMultipartDirectory).                *)
(***************************************************************************)
THEOREM OnlyErrorsDamage ==
  ASSUME Patient
  PROVE  Spec => []DamageHasCause
<1>1. PatientInv => DamageHasCause
  BY DEF PatientInv
<1> QED
  BY <1>1, PatientInit, PatientStep, PTL DEF Spec

---------------------------------------------------------------------------
(* Refinement, step by step. *)

\* While a complete is under way, none has registered a task before.
LEMMA NoTaskYet ==
  ASSUME PatientInv, NEW c \in Completes, CompActive(c)
  PROVE  ~task
BY CompleteIsAlone DEF PatientInv, TaskInv, Counts, CompActive

\* Open does not come back, and goes with the session.
LEMMA ClosedStaysClosed ==
  ASSUME PatientInv, [Next]_vars, ~Open
  PROVE  ~Open'
<1> DEFINE Goal == start' \in {"done", "lost"} /\ session' = "none"
<1> SUFFICES Goal
  BY DEF Open
<1> USE DEF lifeVars
<1>1. start \in {"done", "lost"} /\ session = "none"
  BY DEF Open
<1>2. CASE \/ InitiateMkdir \/ InitiateSet \/ AbortStart \/ AbortRefuse
           \/ Expire \/ Sweep \/ Restart \/ UNCHANGED vars
  BY <1>1, <1>2 DEF InitiateMkdir, InitiateSet, AbortStart, AbortRefuse,
     ActiveSessionMissed, Expire, Sweep, Restart, vars
<1>3. ASSUME NEW q \in Puts,
             \/ PutAdmit(q) \/ PutRefuse(q) \/ PutOpen(q)
             \/ PutRename(q) \/ PutAck(q) \/ PutFail(q)
      PROVE  Goal
  BY <1>1, <1>3 DEF PutAdmit, PutRefuse, ActiveSessionMissed, PutOpen,
     PutRename, PutAck, PutFail
<1>4. ASSUME NEW c \in Completes,
             \/ CompleteStart(c) \/ CompleteRefuse(c) \/ CompleteList(c)
             \/ MergePart(c) \/ Publish(c) \/ CompleteRemove(c)
             \/ CompleteFail(c) \/ RegisterTask(c) \/ RegisterFails(c)
      PROVE  Goal
  BY <1>1, <1>4 DEF CompleteStart, Active, CompleteRefuse, ActiveSessionMissed,
     CompleteList, MergePart, AppendPart, Publish, CompleteRemove, CompleteFail,
     Rollback, RegisterTask, RegisterFails
<1>5. ASSUME NEW r \in Removers, \/ RmScan(r) \/ RmUnlink(r) \/ RmDone(r)
                                 \/ RmNotEmpty(r) \/ RmError(r)
      PROVE  Goal
  BY <1>1, <1>5 DEF RmScan, RmUnlink, RmDone, RmNotEmpty, RmError, RmThrows,
     Rollback
<1> QED
  BY <1>2, <1>3, <1>4, <1>5 DEF Next

\* Only the abort of the client aborts.
LEMMA AbortedStep ==
  ASSUME PatientInv, [Next]_vars, ~AbortStart
  PROVE  Aborted' = Aborted
<1> USE DEF rmVars, Aborted
<1>1. TypeOK /\ "abort" \in Removers
  BY DEF PatientInv, ExclusionInv, Removers
<1>2. ASSUME rm'["abort"] = rm["abort"] PROVE Aborted' = Aborted
  BY <1>2
<1>3. CASE AbortRefuse
  BY <1>1, <1>3 DEF AbortRefuse, TypeOK
<1>4. CASE \/ Sweep \/ \E c \in Completes : CompleteRemove(c)
  BY <1>1, <1>2, <1>4, MultipartAssumption DEF Sweep, CompleteRemove, TypeOK
<1>5. ASSUME NEW r \in Removers,
             RmScan(r) \/ RmDone(r) \/ RmNotEmpty(r) \/ RmError(r)
      PROVE  Aborted' = Aborted
  BY <1>1, <1>5 DEF RmScan, RmDone, RmNotEmpty, RmError, RmThrows, RmActive,
     TypeOK
<1>6. CASE Restart
  BY <1>1, <1>6 DEF Restart, RmActive
<1>7. CASE \/ InitiateMkdir \/ InitiateSet \/ Expire \/ UNCHANGED vars
           \/ \E q \in Puts : \/ PutAdmit(q) \/ PutRefuse(q) \/ PutOpen(q)
                              \/ PutRename(q) \/ PutAck(q) \/ PutFail(q)
  BY <1>2, <1>7 DEF InitiateMkdir, InitiateSet, Expire, vars, PutAdmit,
     PutRefuse, PutOpen, PutRename, PutAck, PutFail
<1>8. CASE \/ \E c \in Completes :
                \/ CompleteStart(c) \/ CompleteRefuse(c) \/ CompleteList(c)
                \/ MergePart(c) \/ Publish(c) \/ CompleteFail(c)
                \/ RegisterTask(c) \/ RegisterFails(c)
           \/ \E r \in Removers : RmUnlink(r)
  BY <1>2, <1>8 DEF CompleteStart, CompleteRefuse, CompleteList, MergePart,
     AppendPart, Publish, CompleteFail, RegisterTask, RegisterFails, RmUnlink
<1> QED
  BY <1>3, <1>4, <1>5, <1>6, <1>7, <1>8 DEF Next

\* A rename of a part is seen as a store, before or after the expiry.
LEMMA StoreRefines ==
  ASSUME PatientInv, NEW q \in Puts, PutRename(q)
  PROVE  Atomic!Store(q)
<1>1. Open \/ expired
  BY PutIsAlone DEF PutRename, PutActive, Open
<1>2. UNCHANGED <<object, task, expired, Open, Aborted, Damaged>>
  BY DEF PutRename, lifeVars, mergeVars, rmVars, Open, Aborted, Damaged
<1> QED
  BY <1>1, <1>2 DEF PutRename, Atomic!Store

\* A publication is seen as one step, and leaves an object that fits.
LEMMA PublishRefines ==
  ASSUME PatientInv, PatientInv', NEW c \in Completes, Publish(c)
  PROVE  Atomic!Publish
<1>1. CompActive(c) /\ comp[c] # "removed"
  BY DEF Publish, CompActive
<1>2. (Open \/ expired) /\ ~task
  BY <1>1, NoTaskYet DEF PatientInv, SessionInv, Open
<1>3. UNCHANGED <<stored, task, expired, Open, Aborted, Damaged>>
  BY DEF Publish, lifeVars, rmVars, Open, Aborted, Damaged
<1>4. comp'[c] = "published"
  BY DEF PatientInv, ExclusionInv, TypeOK, Publish, CompGoesTo
<1>5. Made' /\ object' \in Seq(Puts)
  BY <1>4 DEF PatientInv, MergeInv, MergedSoFar, Done, ExclusionInv, TypeOK
<1>6. /\ Atomic!IsMadeOf(object, stored)' = Atomic!IsMadeOf(object', stored)
      /\ Atomic!IsWhole(object, stored)' = Atomic!IsWhole(object', stored)
  BY <1>3 DEF Atomic!IsMadeOf, Atomic!IsWhole, Atomic!Elements, Atomic!Held,
     Atomic!Parts
<1>7. Calm' = Calm
  BY <1>3 DEF Calm
<1>8. Atomic!Fits(object')
  BY <1>5, <1>6, <1>7 DEF Made, Calm, Atomic!Fits
<1> QED
  BY <1>2, <1>3, <1>5, <1>8 DEF Atomic!Publish

\* The task is registered by the complete that closed the upload.
LEMMA RegistrationRefines ==
  ASSUME PatientInv, NEW c \in Completes, RegisterTask(c)
  PROVE  Atomic!Queue
<1>1. CompActive(c) /\ comp[c] = "removed"
  BY DEF RegisterTask, CompActive
<1>2. ~Open /\ ~task
  BY <1>1, NoTaskYet, CompleteIsAlone
     DEF PatientInv, ExclusionInv, StatusIsLock, Open
<1>3. Atomic!Fits(object)
  BY <1>1 DEF PatientInv, MergeInv, MergedSoFar, Done, Made, Calm, Atomic!Fits
<1>4. UNCHANGED <<stored, object, expired, Open, Aborted, Damaged>> /\ task'
  BY DEF RegisterTask, lifeVars, rmVars, Open, Aborted, Damaged
<1>5. task' = TRUE
  BY DEF RegisterTask
<1> QED
  BY <1>2, <1>3, <1>4, <1>5 DEF Atomic!Queue

LEMMA AbortRefines ==
  ASSUME PatientInv, AbortStart
  PROVE  Atomic!Abort
<1>1. rm' = [rm EXCEPT !["abort"] = "scan"] /\ rm["abort"] = "off"
  BY DEF AbortStart
<1>2. ~Aborted /\ Aborted' = TRUE
  BY <1>1 DEF Aborted, PatientInv, ExclusionInv, TypeOK, Removers
<1>3. Damaged' = Damaged
  BY <1>1 DEF Damaged, PatientInv, ExclusionInv, TypeOK, Removers
<1>4. Open /\ UNCHANGED <<stored, object, task, expired, Open>>
  BY DEF AbortStart, Active, Open, lifeVars, mergeVars
<1> QED
  BY <1>2, <1>3, <1>4 DEF Atomic!Abort

LEMMA ExpiryRefines ==
  ASSUME PatientInv, Expire
  PROVE  Atomic!Expire
<1>1. Open /\ ~expired /\ expired' = TRUE
  BY DEF Expire, Open
<1>2. UNCHANGED <<stored, object, task, Open, Aborted, Damaged>>
  BY DEF Expire, Open, Aborted, Damaged, mergeVars, rmVars
<1> QED
  BY <1>1, <1>2 DEF Atomic!Expire

\* Nothing is removed of an upload but what is published, aborted or expired.
LEMMA DamageRefines ==
  ASSUME PatientInv, [Next]_vars,
         NEW r \in Removers, RmNotEmpty(r) \/ RmError(r)
  PROVE  Atomic!Damage
<1>1. RmActive(r) /\ RmThrows(r)
  BY DEF RmNotEmpty, RmError, RmActive
<1>2. r = "abort" => Aborted
  BY <1>1 DEF Aborted, RmActive
<1>3. r \in Completes => object # <<>>
  BY <1>1, RemoverIsKnown, MultipartAssumption
     DEF PatientInv, MergeInv, MergedSoFar, Done, Made, Atomic!IsMadeOf
<1>4. object # <<>> \/ Aborted \/ expired
  BY <1>1, <1>2, <1>3, RemoverIsKnown
<1>5. Damaged' = TRUE
  BY <1>1 DEF RmThrows, Damaged, PatientInv, ExclusionInv, TypeOK
<1>6. UNCHANGED <<stored, object, task, expired, Open>>
  BY <1>1 DEF RmThrows, Rollback, Open, lifeVars, mergeVars
<1>7. ~AbortStart
  BY <1>1 DEF AbortStart, RmThrows, PatientInv, ExclusionInv, TypeOK, RmActive,
     Removers
<1>8. Aborted' = Aborted
  BY <1>7, AbortedStep
<1> QED
  BY <1>4, <1>5, <1>6, <1>8 DEF Atomic!Damage

\* The steps that store, publish and queue nothing.
LEMMA QuietStep ==
  ASSUME [Next]_vars,
         \A q \in Puts : ~PutRename(q),
         \A c \in Completes : ~Publish(c) /\ ~RegisterTask(c)
  PROVE  UNCHANGED <<stored, object, task>>
<1> USE DEF mergeVars
<1>1. CASE \/ InitiateMkdir \/ InitiateSet \/ AbortStart \/ AbortRefuse
           \/ Expire \/ Sweep \/ Restart \/ UNCHANGED vars
           \/ \E q \in Puts : \/ PutAdmit(q) \/ PutRefuse(q) \/ PutOpen(q)
                              \/ PutAck(q) \/ PutFail(q)
  BY <1>1 DEF InitiateMkdir, InitiateSet, AbortStart, AbortRefuse, Expire,
     Sweep, Restart, vars, PutAdmit, PutRefuse, PutOpen, PutAck, PutFail
<1>2. CASE \/ \E c \in Completes :
                \/ CompleteStart(c) \/ CompleteRefuse(c) \/ CompleteList(c)
                \/ MergePart(c) \/ CompleteRemove(c) \/ CompleteFail(c)
                \/ RegisterFails(c)
           \/ \E r \in Removers : \/ RmScan(r) \/ RmUnlink(r) \/ RmDone(r)
                                  \/ RmNotEmpty(r) \/ RmError(r)
  BY <1>2 DEF CompleteStart, CompleteRefuse, CompleteList, MergePart,
     AppendPart, CompleteRemove, CompleteFail, RegisterFails, RmScan, RmUnlink,
     RmDone, RmNotEmpty, RmError, RmThrows
<1> QED
  BY <1>1, <1>2 DEF Next

LEMMA StepRefines ==
  ASSUME PatientInv, PatientInv', [Next]_vars
  PROVE  [Atomic!Next]_(Atomic!vars)
<1>1. CASE \E q \in Puts : PutRename(q)
  BY <1>1, StoreRefines DEF Atomic!Next
<1>2. CASE \E c \in Completes : Publish(c)
  BY <1>2, PublishRefines DEF Atomic!Next
<1>3. CASE \E c \in Completes : RegisterTask(c)
  BY <1>3, RegistrationRefines DEF Atomic!Next
<1>4. CASE AbortStart \/ Expire
  BY <1>4, AbortRefines, ExpiryRefines DEF Atomic!Next
<1>5. CASE \E r \in Removers : RmNotEmpty(r) \/ RmError(r)
  BY <1>5, DamageRefines DEF Atomic!Next
\* Any other step closes the upload, or cannot be seen.
<1>6. ASSUME \A q \in Puts : ~PutRename(q),
             \A c \in Completes : ~Publish(c) /\ ~RegisterTask(c),
             ~AbortStart, ~Expire,
             \A r \in Removers : ~RmNotEmpty(r) /\ ~RmError(r)
      PROVE  [Atomic!Next]_(Atomic!vars)
  <2>1. UNCHANGED <<stored, object, task>>
    BY <1>6, QuietStep
  <2>2. expired' = expired /\ Aborted' = Aborted
    BY <1>6, TimeStep, AbortedStep
  <2>3. Damaged' = Damaged
    BY <1>6, StuckStep DEF Damaged
  <2>4. CASE Open' = Open
    BY <2>1, <2>2, <2>3, <2>4 DEF Atomic!vars
  <2>5. CASE Open' # Open
    <3>1. Open /\ Open' = FALSE
      BY <2>5, ClosedStaysClosed DEF Open
    <3> QED
      BY <2>1, <2>2, <2>3, <3>1 DEF Atomic!Next, Atomic!Close
  <2> QED
    BY <2>4, <2>5
<1> QED
  BY <1>1, <1>2, <1>3, <1>4, <1>5, <1>6

(***************************************************************************)
(* MultipartService.ts with its route, for a client that waits: a rename   *)
(* of a part stores it, the rename of the merged file publishes, the loss  *)
(* of the session closes the upload, the statement after it queues, and a  *)
(* removal that fails half way damages it, which can happen only to what   *)
(* is published, aborted or expired.  No other step of any handler can be  *)
(* seen, not those of a restart either.                                    *)
(***************************************************************************)
THEOREM RefinesAtomicUpload ==
  ASSUME Patient
  PROVE  Spec => ImplementsAtomicUpload
<1>1. Init => Atomic!Init
  BY DEF Init, Atomic!Init, Open, Aborted, Damaged, Removers, Parts, Atomic!Parts
<1>2. PatientInv /\ PatientInv' /\ [Next]_vars => [Atomic!Next]_(Atomic!vars)
  BY StepRefines
<1> QED
  BY <1>1, <1>2, PatientInit, PatientStep, PTL
     DEF Spec, ImplementsAtomicUpload, Atomic!Spec
=============================================================================
