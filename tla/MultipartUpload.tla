-------------------------- MODULE MultipartUpload --------------------------
(***************************************************************************)
(* One multipart upload: the session in the map of the process, the files  *)
(* of its parts on disk, the requests that use both, and the replication   *)
(* task that the last of them registers.  Upload ids are random and never  *)
(* used again, so that uploads meet only in the sweep of expired ones that *)
(* any initiation starts, and in the object they publish.                  *)
(*                                                                         *)
(* Each handler awaits the file system between its steps and the others    *)
(* run meanwhile.  The upload's directory and its "parts" directory are    *)
(* one here; two temporary files have two names (their time stamps differ).*)
(***************************************************************************)
EXTENDS Naturals, Sequences, FiniteSets

CONSTANTS Puts,       \* PUTs of a part, each sent at most once
          PartOf,     \* the part number of a PUT
          Completes,  \* requests to complete, each sent at most once
          Patient,    \* the client waits for its answers before it goes on
          CanExpire,  \* the session may live longer than its TTL
          MaxFaults,  \* bound on restarts and errors of a removal
          None

ASSUME MultipartAssumption ==
  /\ PartOf \in [Puts -> Nat \ {0}]
  /\ Patient \in BOOLEAN /\ CanExpire \in BOOLEAN
  /\ MaxFaults \in Nat
  /\ None \notin Puts
  /\ Puts \cap Nat = {}
  /\ Completes \cap {"abort", "sweep"} = {}

VARIABLES
  start,     \* how far the initiation is
  session,   \* status of the entry in the map, "none" when there is none
  expired,   \* whether expiresAt has passed
  dir,       \* whether the upload's directory exists
  part,      \* the PUT whose bytes a part's file holds, None for no file
  temp,      \* the PUTs whose temporary file exists
  put,       \* how far a PUT is
  comp,      \* how far a request to complete is
  todo,      \* the listed parts a complete has still to append
  merged,    \* what it has appended
  object,    \* the parts of the object at its final path, <<>> for none
  task,      \* whether a replication task was registered for the object
  rm,        \* how far a removal of the directory is
  left,      \* the files a removal found and has not unlinked yet
  stored,    \* history: the PUT last renamed into place, of every part
  faults     \* the faults so far

filesVars == <<dir, part, temp>>
mergeVars == <<todo, merged, object, task>>
rmVars    == <<rm, left>>
lifeVars  == <<start, expired>>
vars == <<start, session, expired, dir, part, temp, put, comp, todo, merged,
          object, task, rm, left, stored, faults>>

Parts    == {PartOf[q] : q \in Puts}
Removers == Completes \cup {"abort", "sweep"}

PutActive(q)  == put[q] \in {"admitted", "writing", "renamed"}
CompActive(c) == comp[c] \in {"listing", "merging", "published", "removing",
                              "removed"}
RmActive(r)   == rm[r] \in {"scan", "unlink"}

Init ==
  /\ start = "new"
  /\ session = "none"
  /\ expired = FALSE
  /\ dir = FALSE
  /\ part = [n \in Parts |-> None]
  /\ temp = {}
  /\ put = [q \in Puts |-> "new"]
  /\ comp = [c \in Completes |-> "new"]
  /\ todo = [c \in Completes |-> {}]
  /\ merged = [c \in Completes |-> <<>>]
  /\ object = <<>>
  /\ task = FALSE
  /\ rm = [r \in Removers |-> "off"]
  /\ left = [r \in Removers |-> {}]
  /\ stored = [n \in Parts |-> None]
  /\ faults = 0

---------------------------------------------------------------------------
(* The session map *)

\* getActiveSession finds a session; otherwise it throws, and deletes the
\* entry of an expired one.
Active == session # "none" /\ ~expired

ActiveSessionMissed ==
  /\ ~Active
  /\ session' = "none"

\* The client sends its next request only when it has all its answers.
ClientIdle == /\ \A q \in Puts : ~PutActive(q)
              /\ \A c \in Completes : ~CompActive(c)
              /\ ~RmActive("abort")

\* Nobody knows the upload's id before its initiation is answered; a restart
\* does not make anybody forget it.
ClientMaySend == start \in {"done", "lost"} /\ (Patient => ClientIdle)

\* The TTL of a session in the map passes.
Expire ==
  /\ CanExpire /\ session # "none" /\ ~expired
  /\ expired' = TRUE
  /\ UNCHANGED <<start, session, filesVars, put, comp, mergeVars, rmVars,
                 stored, faults>>

---------------------------------------------------------------------------
(* Initiation: the directory first, then the session, and then the answer *)

InitiateMkdir ==
  /\ start = "new"
  /\ start' = "made"
  /\ dir' = TRUE
  /\ UNCHANGED <<session, expired, part, temp, put, comp, mergeVars, rmVars,
                 stored, faults>>

InitiateSet ==
  /\ start = "made"
  /\ start' = "done"
  /\ session' = "INITIATED"
  /\ UNCHANGED <<expired, filesVars, put, comp, mergeVars, rmVars, stored,
                 faults>>

---------------------------------------------------------------------------
(* PUT of a part *)

PutGoesTo(q, s) == put' = [put EXCEPT ![q] = s]

PutAdmit(q) ==
  /\ put[q] = "new" /\ ClientMaySend
  /\ Active /\ session # "COMPLETING"
  /\ PutGoesTo(q, "admitted")
  /\ UNCHANGED <<session, lifeVars, filesVars, comp, mergeVars, rmVars, stored,
                 faults>>

PutRefuse(q) ==
  /\ put[q] = "new" /\ ClientMaySend
  /\ \/ ActiveSessionMissed
     \/ Active /\ session = "COMPLETING" /\ UNCHANGED session
  /\ PutGoesTo(q, "failed")
  /\ UNCHANGED <<lifeVars, filesVars, comp, mergeVars, rmVars, stored, faults>>

\* mkdir recreates a directory that was removed meanwhile.
PutOpen(q) ==
  /\ put[q] = "admitted"
  /\ dir' = TRUE
  /\ temp' = temp \cup {q}
  /\ PutGoesTo(q, "writing")
  /\ UNCHANGED <<session, lifeVars, part, comp, mergeVars, rmVars, stored,
                 faults>>

\* The rename fails when the temporary file was removed (PutFail).
PutRename(q) ==
  /\ put[q] = "writing" /\ q \in temp
  /\ part' = [part EXCEPT ![PartOf[q]] = q]
  /\ stored' = [stored EXCEPT ![PartOf[q]] = q]
  /\ temp' = temp \ {q}
  /\ PutGoesTo(q, "renamed")
  /\ UNCHANGED <<session, lifeVars, dir, comp, mergeVars, rmVars, faults>>

\* Size and ETag are read from the part's file, whoever wrote it last.
PutAck(q) ==
  /\ put[q] = "renamed" /\ part[PartOf[q]] # None
  /\ PutGoesTo(q, "acked")
  /\ UNCHANGED <<session, lifeVars, filesVars, comp, mergeVars, rmVars, stored,
                 faults>>

PutFail(q) ==
  /\ PutActive(q)
  /\ temp' = temp \ {q}
  /\ PutGoesTo(q, "failed")
  /\ UNCHANGED <<session, lifeVars, dir, part, comp, mergeVars, rmVars, stored,
                 faults>>

---------------------------------------------------------------------------
(* Complete *)

CompGoesTo(c, s) == comp' = [comp EXCEPT ![c] = s]

\* A slip: the status is set but not looked at.
CompleteStartUnguarded(c) ==
  /\ comp[c] = "new" /\ ClientMaySend
  /\ Active
  /\ session' = "COMPLETING"
  /\ CompGoesTo(c, "listing")
  /\ UNCHANGED <<lifeVars, filesVars, put, mergeVars, rmVars, stored, faults>>

CompleteStart(c) ==
  /\ comp[c] = "new" /\ ClientMaySend
  /\ Active /\ session # "COMPLETING"
  /\ session' = "COMPLETING"
  /\ CompGoesTo(c, "listing")
  /\ UNCHANGED <<lifeVars, filesVars, put, mergeVars, rmVars, stored, faults>>

CompleteRefuse(c) ==
  /\ comp[c] = "new" /\ ClientMaySend
  /\ \/ ActiveSessionMissed
     \/ Active /\ session = "COMPLETING" /\ UNCHANGED session
  /\ CompGoesTo(c, "failed")
  /\ UNCHANGED <<lifeVars, filesVars, put, mergeVars, rmVars, stored, faults>>

PartsWithFile(f) == {n \in Parts : f[n] # None}

CompleteList(c) ==
  /\ comp[c] = "listing"
  /\ PartsWithFile(part) # {}
  /\ todo' = [todo EXCEPT ![c] = PartsWithFile(part)]
  /\ CompGoesTo(c, "merging")
  /\ UNCHANGED <<session, lifeVars, filesVars, put, merged, object, task,
                 rmVars, stored, faults>>

\* The content is what the part's file holds now, not what was listed.
AppendPart(c, n) ==
  /\ part[n] # None
  /\ todo' = [todo EXCEPT ![c] = @ \ {n}]
  /\ merged' = [merged EXCEPT ![c] = Append(@, part[n])]
  /\ UNCHANGED <<session, lifeVars, filesVars, put, comp, task, rmVars,
                 stored, faults>>

\* A slip: the parts stay in the order in which readdir returns them.
MergePartUnsorted(c) ==
  /\ comp[c] = "merging"
  /\ \E n \in todo[c] : AppendPart(c, n)
  /\ UNCHANGED object

\* A slip: the parts are appended to the object itself.
MergePartInPlace(c) ==
  /\ comp[c] = "merging"
  /\ \E n \in todo[c] : /\ \A m \in todo[c] : n <= m
                        /\ AppendPart(c, n)
  /\ object' = merged'[c]

\* The parts in ascending order, into a file of its own.
MergePart(c) ==
  /\ comp[c] = "merging"
  /\ \E n \in todo[c] : /\ \A m \in todo[c] : n <= m
                        /\ AppendPart(c, n)
  /\ UNCHANGED object

Publish(c) ==
  /\ comp[c] = "merging" /\ todo[c] = {}
  /\ object' = merged[c]
  /\ CompGoesTo(c, "published")
  /\ UNCHANGED <<session, lifeVars, filesVars, put, todo, merged, task, rmVars,
                 stored, faults>>

\* Size and ETag of the object are known: the parts are removed.
CompleteRemove(c) ==
  /\ comp[c] = "published"
  /\ CompGoesTo(c, "removing")
  /\ rm' = [rm EXCEPT ![c] = "scan"]
  /\ UNCHANGED <<session, lifeVars, filesVars, put, mergeVars, left, stored,
                 faults>>

\* A slip: a status that no handler knows.
RollbackRenamed(c) ==
  /\ CompGoesTo(c, "failed")
  /\ session' = IF session = "COMPLETING" THEN "FAILED" ELSE session

\* A slip: a complete that fails takes the session with it.
RollbackForgets(c) ==
  /\ CompGoesTo(c, "failed")
  /\ session' = "none"

\* The catch block.  A session that has left the map meanwhile stays away.
Rollback(c) ==
  /\ CompGoesTo(c, "failed")
  /\ session' = IF session = "COMPLETING" THEN "INITIATED" ELSE session

\* A slip: an empty list of parts is refused before the try block.
CompleteFailStuck(c) ==
  /\ comp[c] \in {"listing", "merging", "published"}
  /\ CompGoesTo(c, "failed")
  /\ session' = IF session = "COMPLETING" /\ comp[c] # "listing"
                THEN "INITIATED" ELSE session
  /\ UNCHANGED <<lifeVars, filesVars, put, mergeVars, rmVars, stored, faults>>

\* No part, a part that is gone, or any error before the removal, the one
\* after the rename included.
CompleteFail(c) ==
  /\ comp[c] \in {"listing", "merging", "published"}
  /\ Rollback(c)
  /\ UNCHANGED <<lifeVars, filesVars, put, mergeVars, rmVars, stored, faults>>

\* The route's handler registers what the service has completed.
RegisterTask(c) ==
  /\ comp[c] = "removed"
  /\ task' = TRUE
  /\ CompGoesTo(c, "ok")
  /\ UNCHANGED <<session, lifeVars, filesVars, put, todo, merged, object,
                 rmVars, stored, faults>>

\* The statement throws: the session is gone already.
RegisterFails(c) ==
  /\ comp[c] = "removed"
  /\ faults < MaxFaults
  /\ faults' = faults + 1
  /\ CompGoesTo(c, "unqueued")
  /\ UNCHANGED <<session, lifeVars, filesVars, put, mergeVars, rmVars, stored>>

---------------------------------------------------------------------------
(* Abort and sweep *)

\* A slip: the session is deleted and the directory forgotten.
AbortStartOnly ==
  /\ rm["abort"] = "off" /\ ClientMaySend
  /\ Active
  /\ session' = "none"
  /\ rm' = [rm EXCEPT !["abort"] = "over"]
  /\ UNCHANGED <<lifeVars, filesVars, put, comp, mergeVars, left, stored,
                 faults>>

\* The session may be COMPLETING: abort does not ask.
AbortStart ==
  /\ rm["abort"] = "off" /\ ClientMaySend
  /\ Active
  /\ rm' = [rm EXCEPT !["abort"] = "scan"]
  /\ UNCHANGED <<session, lifeVars, filesVars, put, comp, mergeVars, left,
                 stored, faults>>

AbortRefuse ==
  /\ rm["abort"] = "off" /\ ClientMaySend
  /\ ActiveSessionMissed
  /\ rm' = [rm EXCEPT !["abort"] = "refused"]
  /\ UNCHANGED <<lifeVars, filesVars, put, comp, mergeVars, left, stored,
                 faults>>

\* Another upload is initiated: expired sessions leave the map, whatever
\* they are doing, and their directories are removed.
Sweep ==
  /\ session # "none" /\ expired
  /\ session' = "none"
  /\ rm' = [rm EXCEPT !["sweep"] = "scan"]
  /\ UNCHANGED <<lifeVars, filesVars, put, comp, mergeVars, left, stored,
                 faults>>

---------------------------------------------------------------------------
(* Removal of the directory: its files are listed, unlinked one by one, and *)
(* the directory is removed if nothing has come into it since.             *)

Files == PartsWithFile(part) \cup temp

RmScan(r) ==
  /\ rm[r] = "scan"
  /\ rm' = [rm EXCEPT ![r] = "unlink"]
  /\ left' = [left EXCEPT ![r] = Files]
  /\ UNCHANGED <<session, lifeVars, filesVars, put, comp, mergeVars, stored,
                 faults>>

RmUnlink(r) ==
  /\ rm[r] = "unlink"
  /\ \E f \in left[r] :
       /\ left' = [left EXCEPT ![r] = @ \ {f}]
       /\ temp' = temp \ {f}
       /\ part' = [n \in Parts |-> IF n = f THEN None ELSE part[n]]
  /\ UNCHANGED <<session, lifeVars, dir, put, comp, mergeVars, rm, stored,
                 faults>>

\* The caller goes on: complete and abort delete the session.
RmDone(r) ==
  /\ rm[r] = "unlink" /\ left[r] = {}
  /\ Files = {}
  /\ dir' = FALSE
  /\ rm' = [rm EXCEPT ![r] = "over"]
  /\ session' = IF r = "sweep" THEN session ELSE "none"
  /\ comp' = [c \in Completes |-> IF c = r THEN "removed" ELSE comp[c]]
  /\ UNCHANGED <<lifeVars, part, temp, put, mergeVars, left, stored, faults>>

\* The caller's await throws: complete rolls back, abort and sweep give up.
RmThrows(r) ==
  /\ rm' = [rm EXCEPT ![r] = "stuck"]
  /\ left' = [left EXCEPT ![r] = {}]
  /\ IF r \in Completes THEN Rollback(r) ELSE UNCHANGED <<session, comp>>
  /\ UNCHANGED <<lifeVars, filesVars, put, mergeVars, stored>>

RmNotEmpty(r) ==
  /\ rm[r] = "unlink" /\ left[r] = {}
  /\ Files # {}
  /\ RmThrows(r)
  /\ UNCHANGED faults

RmError(r) ==
  /\ RmActive(r)
  /\ faults < MaxFaults
  /\ faults' = faults + 1
  /\ RmThrows(r)

---------------------------------------------------------------------------
\* The process restarts: the map and all requests are gone, the files stay.
Restart ==
  /\ faults < MaxFaults
  /\ faults' = faults + 1
  /\ start' = IF start \in {"done", "lost"} THEN "lost" ELSE "failed"
  /\ session' = "none"
  /\ put' = [q \in Puts |-> IF PutActive(q) THEN "failed" ELSE put[q]]
  /\ comp' = [c \in Completes |-> IF CompActive(c) THEN "failed" ELSE comp[c]]
  /\ rm' = [r \in Removers |-> IF RmActive(r) THEN "cut" ELSE rm[r]]
  /\ left' = [r \in Removers |-> {}]
  /\ UNCHANGED <<expired, filesVars, mergeVars, stored>>

Next ==
  \/ InitiateMkdir \/ InitiateSet
  \/ \E q \in Puts : \/ PutAdmit(q) \/ PutRefuse(q) \/ PutOpen(q)
                     \/ PutRename(q) \/ PutAck(q) \/ PutFail(q)
  \/ \E c \in Completes :
       \/ CompleteStart(c) \/ CompleteRefuse(c) \/ CompleteList(c)
       \/ MergePart(c) \/ Publish(c) \/ CompleteRemove(c) \/ CompleteFail(c)
       \/ RegisterTask(c) \/ RegisterFails(c)
  \/ AbortStart \/ AbortRefuse
  \/ \E r \in Removers :
       RmScan(r) \/ RmUnlink(r) \/ RmDone(r) \/ RmNotEmpty(r) \/ RmError(r)
  \/ Expire \/ Sweep \/ Restart

Spec == Init /\ [][Next]_vars

\* A request that was accepted goes on: every await of the file system ends.
CompleteGoesOn(c) ==
  \/ CompleteList(c) \/ MergePart(c) \/ Publish(c) \/ CompleteRemove(c)
  \/ CompleteFail(c) \/ RmScan(c) \/ RmUnlink(c) \/ RmDone(c) \/ RmNotEmpty(c)
  \/ RegisterTask(c)

FairSpec == Spec /\ \A c \in Completes : WF_vars(CompleteGoesOn(c))

---------------------------------------------------------------------------
TypeOK ==
  /\ start \in {"new", "made", "done", "lost", "failed"}
  /\ session \in {"none", "INITIATED", "COMPLETING"}
  /\ expired \in BOOLEAN /\ dir \in BOOLEAN
  /\ part \in [Parts -> Puts \cup {None}]
  /\ stored \in [Parts -> Puts \cup {None}]
  /\ temp \in SUBSET Puts
  /\ put \in [Puts -> {"new", "admitted", "writing", "renamed", "acked",
                       "failed"}]
  /\ comp \in [Completes -> {"new", "listing", "merging", "published",
                             "removing", "removed", "ok", "unqueued",
                             "failed"}]
  /\ todo \in [Completes -> SUBSET Parts]
  /\ merged \in [Completes -> Seq(Puts)]
  /\ object \in Seq(Puts)
  /\ task \in BOOLEAN
  /\ rm \in [Removers -> {"off", "scan", "unlink", "over", "stuck", "cut",
                           "refused"}]
  /\ left \in [Removers -> SUBSET (Parts \cup Puts)]
  /\ faults \in 0 .. MaxFaults

(***************************************************************************)
(* The session's status keeps completes apart across their awaits: at most *)
(* one of them lists, merges, publishes or removes at a time, at most one  *)
(* is answered with success, and none runs after it; a failed one may be   *)
(* followed by another.  Two would append to the same parts, publish twice *)
(* and register two tasks.                                                 *)
(***************************************************************************)
OneComplete ==
  \A c, d \in Completes :
    (CompActive(c) \/ comp[c] = "ok") /\ (CompActive(d) \/ comp[d] = "ok")
      => c = d

(***************************************************************************)
(* A complete that fails gives the session back: whatever goes wrong in    *)
(* it, the upload does not stay COMPLETING, which would refuse every PUT   *)
(* and every further complete until the session expires.                   *)
(***************************************************************************)
StatusReleased ==
  (session = "COMPLETING") ~> (session # "COMPLETING")

(***************************************************************************)
(* An upload is COMPLETING only while some complete is under way that will *)
(* give it back: no order of failures, expiry, sweep, abort and restart    *)
(* leaves the lock set with nobody to release it.                          *)
(***************************************************************************)
LockIsHeld == session = "COMPLETING" => \E c \in Completes : CompActive(c)

\* The abstract upload is open until the session has come and gone; it is
\* damaged when a removal of its files has failed half way.
Open    == start \in {"done", "lost"} => session # "none"
Aborted == rm["abort"] \notin {"off", "refused"}
Damaged == \E r \in Removers : rm[r] = "stuck"

Atomic == INSTANCE AtomicUpload WITH
            open <- Open, aborted <- Aborted, damaged <- Damaged

(***************************************************************************)
(* When a complete is answered with success, the object is made of stored  *)
(* parts, each as it was last stored, in ascending order; and of every one *)
(* of them, unless the session expired or a removal failed half way before *)
(* (multipart.test.ts: parts 2, 1 and 2 again give "Hello Copilot").  For  *)
(* a client that waits for its answers.                                    *)
(***************************************************************************)
CompletedIsWhole ==
  (\E c \in Completes : comp[c] = "ok")
    => /\ Atomic!IsMadeOf(object, stored)
       /\ ~expired /\ ~Damaged => Atomic!IsWhole(object, stored)

(***************************************************************************)
(* For a client that waits for its answers the object changes in one step, *)
(* to all the parts last stored, and is queued as it then is, whatever     *)
(* fails, expires or restarts on the way; AtomicUpload says how much less  *)
(* it promises once a removal has failed half way or the session expired.  *)
(***************************************************************************)
ImplementsAtomicUpload == Atomic!Spec

Quiet == ClientIdle /\ \A r \in Removers : ~RmActive(r)

(***************************************************************************)
(* An upload that was completed or aborted leaves no part, no temporary    *)
(* file of one and no directory, once nothing runs for it any more,        *)
(* whatever failed before.  For a client that waits for its answers; an    *)
(* upload that expired or was forgotten by a restart may leave them.       *)
(***************************************************************************)
NothingLeftBehind ==
  (start = "done" /\ session = "none" /\ ~expired /\ Quiet) => ~dir

(***************************************************************************)
(* An object that was published and not queued for replication can still   *)
(* be completed: a complete that fails after the rename keeps the session. *)
(* Three things take it away: an abort of the client, the session's expiry *)
(* and a restart (start = "lost"), after which the object stays published  *)
(* and unqueued for good; and so it does when the registration itself is   *)
(* what failed ("unqueued"), the session being deleted before it.          *)
(***************************************************************************)
UnqueuedIsRetryable ==
  (object # <<>> /\ ~task /\ Quiet /\ start = "done" /\ ~expired)
    => \/ session # "none"
       \/ rm["abort"] = "over"
       \/ \E c \in Completes : comp[c] = "unqueued"

---------------------------------------------------------------------------
(* What a comment or a test of the code says beyond that. *)

\* A session that is found expired is removed with its temporary files.
ExpiryCleansUp ==
  (start = "done" /\ session = "none" /\ expired /\ Quiet) => ~dir

\* An abort that was answered with success invalidates the upload id: the
\* upload publishes nothing afterwards.
AbortIsFinal == [][rm["abort"] = "over" => object' = object]_vars
=============================================================================
