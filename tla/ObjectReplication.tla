------------------------- MODULE ObjectReplication -------------------------
(***************************************************************************)
(* How an object of the primary reaches the secondary.  Three upload paths *)
(* write the object's file and owe a copy of it:                           *)
(*   direct      PUT: the file is truncated and written in place, then a   *)
(*               task is registered in the replication queue;              *)
(*   multipart   complete: the merged file is renamed into place, then a   *)
(*               task is registered;                                       *)
(*   resumable   TUS: the file is created empty and written by PATCHes;    *)
(*               completion sends the copy at once, and queues it only     *)
(*               when that fails.                                          *)
(* A worker polls the queue and sends copies; the secondary writes each    *)
(* copy it receives in place.  The two ends of a request run on their own: *)
(* a sender that gives up leaves a request behind at the receiver.         *)
(*                                                                         *)
(* A file's content is the upload that wrote it whole, Torn for anything   *)
(* else (empty, partial, mixed) and Absent for no file.                    *)
(***************************************************************************)
EXTENDS ReplicationQueue

CONSTANTS Uploads,     \* the uploads clients start, each at most once
          KeyOf,       \* the object an upload writes
          KindOf,      \* the path it takes
          Polls,       \* timer callbacks of the worker that may overlap
          Slots,       \* bound: requests the secondary knows of at one time
          MaxFaults,   \* bound on restarts and database errors
          Absent, Torn, None

ASSUME ReplicationAssumption ==
  /\ KeyOf \in [Uploads -> Keys]
  /\ KindOf \in [Uploads -> {"direct", "multipart", "resumable"}]
  /\ MaxFaults \in Nat
  /\ Absent \notin Uploads /\ Torn \notin Uploads /\ Absent # Torn
  /\ None \notin Keys \cup Polls \cup Uploads
  /\ Polls \cap Uploads = {}

VARIABLES
  disk,        \* content of every object's file on the primary
  replica,     \* content of every object's file on the secondary
  stage,       \* how far an upload is
  rivals,      \* of an upload, those whose bytes the file may hold as well
  isWorking,   \* the worker's flag
  pc,          \* where a poll is
  batch,       \* the rows a poll fetched and has not settled yet
  current,     \* the row a poll is sending, None if none
  req,         \* the requests, by slot
  faults       \* the faults so far

fileVars   == <<disk, replica>>
uploadVars == <<stage, rivals>>
workerVars == <<isWorking, pc, batch, current>>
vars == <<queue, due, ahead, disk, replica, stage, rivals,
          isWorking, pc, batch, current, req, faults>>

Content == Uploads \cup {Torn, Absent}

(***************************************************************************)
(* A request: the sender waiting for its answer (a poll or a resumable     *)
(* upload; None when it gave up), the object, and in body the contents it  *)
(* may leave in the replica: what the file held at any time since it was   *)
(* launched, for the stream reads the file as it goes.                     *)
(*   waiting    at the secondary, before it opens the replica's file       *)
(*   cut        given up by the sender before that                         *)
(*   receiving  the replica's file is open                                 *)
(*   done       written; the answer is on its way                          *)
(*   failed     not written; an error is on its way                        *)
(***************************************************************************)
Request == [stage : {"free", "waiting", "cut", "receiving", "done", "failed"},
            sender : Polls \cup Uploads \cup {None},
            key : Keys \cup {None},
            body : SUBSET (Uploads \cup {Torn})]

FreeReq == [stage |-> "free", sender |-> None, key |-> None, body |-> {}]

NewReq(from, k, c) ==
  [stage |-> "waiting", sender |-> from, key |-> k, body |-> {c}]

\* The requests of k whose sender is still there see the content c.
Sees(r, k, c) == IF r.sender # None /\ r.key = k
                 THEN [r EXCEPT !.body = @ \cup {c}]
                 ELSE r

\* A sender gives up: timeout, lost connection or answer, error, restart.
\* arrived: the secondary has the request (it may have been lost on its way).
GivenUp(r, arrived) ==
  IF r.stage = "receiving" THEN [r EXCEPT !.sender = None]
  ELSE IF r.stage = "cut" THEN r
  ELSE IF r.stage = "waiting" /\ arrived
       THEN [r EXCEPT !.stage = "cut", !.sender = None, !.body = {}]
  ELSE FreeReq

Init ==
  /\ QueueInit
  /\ disk = [k \in Keys |-> Absent]
  /\ replica = [k \in Keys |-> Absent]
  /\ stage = [u \in Uploads |-> "new"]
  /\ rivals = [u \in Uploads |-> {}]
  /\ isWorking = FALSE
  /\ pc = [p \in Polls |-> "idle"]
  /\ batch = [p \in Polls |-> {}]
  /\ current = [p \in Polls |-> None]
  /\ req = [s \in Slots |-> FreeReq]
  /\ faults = 0

---------------------------------------------------------------------------
(* Uploads *)

\* The uploads that have the object's file open, or will open it again.
Writers(k) == {u \in Uploads : KeyOf[u] = k /\ stage[u] = "writing"}

\* The file of k now holds c.
FileBecomes(k, c) ==
  /\ disk' = [disk EXCEPT ![k] = c]
  /\ req' = [s \in Slots |-> Sees(req[s], k, c)]
  /\ UNCHANGED replica

\* u opens the file and truncates it, whoever is writing it already.
OpenTruncated(u) ==
  LET others == Writers(KeyOf[u]) IN
  /\ stage[u] = "new"
  /\ stage' = [stage EXCEPT ![u] = "writing"]
  /\ rivals' = [v \in Uploads |-> IF v = u THEN others
                                  ELSE IF v \in others
                                       THEN (rivals[v] \cap others) \cup {u}
                                  ELSE rivals[v]]
  /\ FileBecomes(KeyOf[u], Torn)
  /\ UNCHANGED <<queueVars, workerVars, faults>>

PutOpen(u)   == KindOf[u] = "direct" /\ OpenTruncated(u)
TusCreate(u) == KindOf[u] = "resumable" /\ OpenTruncated(u)

\* A chunk of u reaches a file that another upload has left whole.
WriteChunk(u) ==
  /\ stage[u] = "writing"
  /\ disk[KeyOf[u]] # Torn
  /\ FileBecomes(KeyOf[u], Torn)
  /\ UNCHANGED <<queueVars, uploadVars, workerVars, faults>>

\* What the file may hold when u has written all of it.
Outcomes(u) == IF rivals[u] = {} THEN {u} ELSE rivals[u] \cup {u, Torn}

PutClose(u) ==
  /\ KindOf[u] = "direct"
  /\ \/ /\ stage[u] = "writing"
        /\ \E c \in Outcomes(u) : FileBecomes(KeyOf[u], c)
     \/ /\ stage[u] = "detached"
        /\ UNCHANGED <<fileVars, req>>
  /\ stage' = [stage EXCEPT ![u] = "stored"]
  /\ UNCHANGED <<queueVars, rivals, workerVars, faults>>

\* The stream, the ETag or the registration fails; the file stays as it is.
UploadFails(u) ==
  /\ KindOf[u] # "resumable"
  /\ stage[u] \in {"writing", "detached", "stored"}
  /\ stage' = [stage EXCEPT ![u] = "failed"]
  /\ UNCHANGED <<queueVars, fileVars, rivals, workerVars, req, faults>>

\* The rename detaches open files from the name; a PATCH reopens the name.
MultipartPublish(u) ==
  LET others == Writers(KeyOf[u]) IN
  /\ KindOf[u] = "multipart"
  /\ stage[u] = "new"
  /\ stage' = [v \in Uploads |->
                 IF v = u THEN "stored"
                 ELSE IF v \in others /\ KindOf[v] = "direct" THEN "detached"
                 ELSE stage[v]]
  /\ rivals' = [v \in Uploads |-> IF v \in others THEN rivals[v] \cup {u}
                                                  ELSE rivals[v]]
  /\ FileBecomes(KeyOf[u], u)
  /\ UNCHANGED <<queueVars, workerVars, faults>>

\* The task is registered and the client is told that the upload is stored.
Register(u) ==
  /\ stage[u] = "stored"
  /\ stage' = [stage EXCEPT ![u] = "acked"]
  /\ RegisterReplicationTask(KeyOf[u])
  /\ UNCHANGED <<fileVars, rivals, workerVars, req, faults>>

\* The last PATCH: the client has its 204, the handler starts to send.
TusComplete(u) ==
  LET k == KeyOf[u] IN
  /\ KindOf[u] = "resumable"
  /\ stage[u] = "writing"
  /\ stage' = [stage EXCEPT ![u] = "sending"]
  /\ \E c \in Outcomes(u), free \in Slots :
       /\ req[free].stage = "free"
       /\ disk' = [disk EXCEPT ![k] = c]
       /\ req' = [s \in Slots |-> IF s = free THEN NewReq(u, k, c)
                                              ELSE Sees(req[s], k, c)]
  /\ UNCHANGED <<queueVars, replica, rivals, workerVars, faults>>

\* DELETE of a session: the object's file is unlinked; who reads it goes on.
TusRemove(u) ==
  LET k == KeyOf[u] IN
  /\ KindOf[u] = "resumable"
  /\ stage[u] \in {"writing", "sending"}
  /\ disk[k] # Absent
  /\ stage' = [v \in Uploads |->
                 IF v \notin Writers(k) THEN stage[v]
                 ELSE IF KindOf[v] = "direct" THEN "detached" ELSE "failed"]
  /\ disk' = [disk EXCEPT ![k] = Absent]
  /\ UNCHANGED <<queueVars, replica, rivals, workerVars, req, faults>>

---------------------------------------------------------------------------
(* The retry worker *)

\* A slip: the flag is set but not looked at.
PollStartUnguarded(p) ==
  /\ pc[p] = "idle"
  /\ isWorking' = TRUE
  /\ pc' = [pc EXCEPT ![p] = "checking"]
  /\ UNCHANGED <<queueVars, fileVars, uploadVars, batch, current, req, faults>>

PollStart(p) ==
  /\ pc[p] = "idle"
  /\ ~isWorking
  /\ isWorking' = TRUE
  /\ pc' = [pc EXCEPT ![p] = "checking"]
  /\ UNCHANGED <<queueVars, fileVars, uploadVars, batch, current, req, faults>>

PollOver(p) ==
  /\ pc' = [pc EXCEPT ![p] = "idle"]
  /\ isWorking' = FALSE

\* The secondary is down or busy, or no row is due.
PollSkip(p) ==
  /\ pc[p] = "checking"
  /\ PollOver(p)
  /\ UNCHANGED <<queueVars, fileVars, uploadVars, batch, current, req, faults>>

\* The rows are sent one after the other; their order is left open.
PollFetch(p) ==
  /\ pc[p] = "checking"
  /\ pc' = [pc EXCEPT ![p] = "serving"]
  /\ \E B \in RetryBatches : B # {} /\ batch' = [batch EXCEPT ![p] = B]
  /\ UNCHANGED <<queueVars, fileVars, uploadVars, isWorking, current, req,
                 faults>>

SendNext(p, k) ==
  /\ pc[p] = "serving" /\ current[p] = None
  /\ k \in batch[p]
  /\ disk[k] # Absent
  /\ current' = [current EXCEPT ![p] = k]
  /\ \E s \in Slots : /\ req[s].stage = "free"
                      /\ req' = [req EXCEPT ![s] = NewReq(p, k, disk[k])]
  /\ UNCHANGED <<queueVars, fileVars, uploadVars, isWorking, pc, batch, faults>>

\* The row of k is settled, whatever became of it.
Settle(p, k) ==
  /\ batch' = [batch EXCEPT ![p] = @ \ {k}]
  /\ current' = [current EXCEPT ![p] = None]

\* A slip: the row of a missing file is passed over.
SendMissingSkipped(p, k) ==
  /\ pc[p] = "serving" /\ current[p] = None
  /\ k \in batch[p]
  /\ disk[k] = Absent
  /\ Settle(p, k)
  /\ UNCHANGED <<queueVars, fileVars, uploadVars, isWorking, pc, req, faults>>

\* The file is gone: getFileStream throws, a failed try like any other.
SendMissing(p, k) ==
  /\ pc[p] = "serving" /\ current[p] = None
  /\ k \in batch[p]
  /\ disk[k] = Absent
  /\ UpdateOnRetryFailure(k)
  /\ Settle(p, k)
  /\ UNCHANGED <<fileVars, uploadVars, isWorking, pc, req, faults>>

\* A slip: any answer counts, response.ok is not asked for.
SendAnswered(p, s) ==
  /\ req[s].sender = p /\ req[s].stage \in {"done", "failed"}
  /\ DeleteOnSuccess(current[p])
  /\ Settle(p, current[p])
  /\ req' = [req EXCEPT ![s] = FreeReq]
  /\ UNCHANGED <<fileVars, uploadVars, isWorking, pc, faults>>

SendOk(p, s) ==
  /\ req[s].sender = p /\ req[s].stage = "done"
  /\ DeleteOnSuccess(current[p])
  /\ Settle(p, current[p])
  /\ req' = [req EXCEPT ![s] = FreeReq]
  /\ UNCHANGED <<fileVars, uploadVars, isWorking, pc, faults>>

\* deleteOnSuccess throws: logged, and the row stays as it is.
SendOkRowKept(p, s) ==
  /\ req[s].sender = p /\ req[s].stage = "done"
  /\ faults < MaxFaults
  /\ faults' = faults + 1
  /\ Settle(p, current[p])
  /\ req' = [req EXCEPT ![s] = FreeReq]
  /\ UNCHANGED <<queueVars, fileVars, uploadVars, isWorking, pc>>

SendFail(p, s) ==
  /\ req[s].sender = p
  /\ UpdateOnRetryFailure(current[p])
  /\ Settle(p, current[p])
  /\ \E arrived \in BOOLEAN : req' = [req EXCEPT ![s] = GivenUp(@, arrived)]
  /\ UNCHANGED <<fileVars, uploadVars, isWorking, pc, faults>>

\* A slip: the flag is reset at the end of the try block, not in finally.
SendFailRowKeptStuck(p, s) ==
  /\ req[s].sender = p
  /\ faults < MaxFaults
  /\ faults' = faults + 1
  /\ batch' = [batch EXCEPT ![p] = {}]
  /\ current' = [current EXCEPT ![p] = None]
  /\ pc' = [pc EXCEPT ![p] = "idle"]
  /\ \E arrived \in BOOLEAN : req' = [req EXCEPT ![s] = GivenUp(@, arrived)]
  /\ UNCHANGED <<queueVars, fileVars, uploadVars, isWorking>>

\* updateOnRetryFailure throws: the poll ends with the rest of its batch.
SendFailRowKept(p, s) ==
  /\ req[s].sender = p
  /\ faults < MaxFaults
  /\ faults' = faults + 1
  /\ batch' = [batch EXCEPT ![p] = {}]
  /\ current' = [current EXCEPT ![p] = None]
  /\ PollOver(p)
  /\ \E arrived \in BOOLEAN : req' = [req EXCEPT ![s] = GivenUp(@, arrived)]
  /\ UNCHANGED <<queueVars, fileVars, uploadVars>>

\* The same for a file that is gone, with no request to give up.
SendMissingRowKept(p) ==
  /\ pc[p] = "serving" /\ current[p] = None
  /\ \E k \in batch[p] : disk[k] = Absent
  /\ faults < MaxFaults
  /\ faults' = faults + 1
  /\ batch' = [batch EXCEPT ![p] = {}]
  /\ PollOver(p)
  /\ UNCHANGED <<queueVars, fileVars, uploadVars, current, req>>

PollEnd(p) ==
  /\ pc[p] = "serving" /\ current[p] = None
  /\ batch[p] = {}
  /\ PollOver(p)
  /\ UNCHANGED <<queueVars, fileVars, uploadVars, batch, current, req, faults>>

---------------------------------------------------------------------------
(* The end of the send that completes a resumable upload *)

TusSendOk(u, s) ==
  /\ req[s].sender = u /\ req[s].stage = "done"
  /\ stage' = [stage EXCEPT ![u] = "acked"]
  /\ req' = [req EXCEPT ![s] = FreeReq]
  /\ UNCHANGED <<queueVars, fileVars, rivals, workerVars, faults>>

\* A slip: the failed copy is logged, but not queued.
TusSendFailUnqueued(u, s) ==
  /\ req[s].sender = u
  /\ stage' = [stage EXCEPT ![u] = "acked"]
  /\ \E arrived \in BOOLEAN : req' = [req EXCEPT ![s] = GivenUp(@, arrived)]
  /\ UNCHANGED <<queueVars, fileVars, rivals, workerVars, faults>>

TusSendFail(u, s) ==
  /\ req[s].sender = u
  /\ stage' = [stage EXCEPT ![u] = "acked"]
  /\ UpsertOnFailure(KeyOf[u])
  /\ \E arrived \in BOOLEAN : req' = [req EXCEPT ![s] = GivenUp(@, arrived)]
  /\ UNCHANGED <<fileVars, rivals, workerVars, faults>>

---------------------------------------------------------------------------
(* The secondary.  Its own restart is no more than every request at it      *)
(* failing, lost or unanswered: RecvFail, and SendFail with or without     *)
(* "arrived".                                                              *)

Receiving(k) == {s \in Slots : req[s].stage = "receiving" /\ req[s].key = k}

\* A slip: saveStreamToStorage is not awaited before the answer.
RecvOpenAnswered(s) ==
  LET k == req[s].key IN
  /\ req[s].stage = "waiting"
  /\ replica' = [replica EXCEPT ![k] = Torn]
  /\ req' = [req EXCEPT ![s].stage = "done"]
  /\ UNCHANGED <<queueVars, disk, uploadVars, workerVars, faults>>

\* The throttle lets the request pass: its file is opened and truncated, and
\* shared with every request that is writing it already.
RecvOpen(s) ==
  LET k == req[s].key
      mine == req[s].body \cup (UNION {req[t].body : t \in Receiving(k)})
              \cup (IF Receiving(k) = {} THEN {} ELSE {Torn})
  IN
  /\ req[s].stage = "waiting"
  /\ replica' = [replica EXCEPT ![k] = Torn]
  /\ req' = [t \in Slots |->
       IF t = s THEN [req[s] EXCEPT !.stage = "receiving", !.body = mine]
       ELSE IF req[t].stage \in {"receiving", "done"} /\ req[t].key = k
            THEN [req[t] EXCEPT !.body = @ \cup req[s].body \cup {Torn}]
       ELSE req[t]]
  /\ UNCHANGED <<queueVars, disk, uploadVars, workerVars, faults>>

\* A request that was given up while it waited still opens the file, to find
\* its stream destroyed.
RecvOpenCut(s) ==
  LET k == req[s].key IN
  /\ req[s].stage = "cut"
  /\ replica' = [replica EXCEPT ![k] = Torn]
  /\ req' = [t \in Slots |->
       IF t = s THEN FreeReq
       ELSE IF req[t].stage \in {"receiving", "done"} /\ req[t].key = k
            THEN [req[t] EXCEPT !.body = @ \cup {Torn}]
       ELSE req[t]]
  /\ UNCHANGED <<queueVars, disk, uploadVars, workerVars, faults>>

\* A chunk reaches a file that another request has left whole.
RecvWrite(s) ==
  /\ req[s].stage = "receiving"
  /\ replica[req[s].key] # Torn
  /\ replica' = [replica EXCEPT ![req[s].key] = Torn]
  /\ UNCHANGED <<queueVars, disk, uploadVars, workerVars, req, faults>>

\* The answer goes to the sender, if it still waits for one.
Answered(s, answer) ==
  req' = [req EXCEPT ![s] = IF @.sender = None THEN FreeReq
                            ELSE [@ EXCEPT !.stage = answer]]

RecvFinish(s) ==
  /\ req[s].stage = "receiving"
  /\ \E c \in req[s].body : replica' = [replica EXCEPT ![req[s].key] = c]
  /\ Answered(s, "done")
  /\ UNCHANGED <<queueVars, disk, uploadVars, workerVars, faults>>

\* The stream breaks, or the stored file's size and hash cannot be read.
RecvFail(s) ==
  /\ req[s].stage = "receiving"
  /\ Answered(s, "failed")
  /\ UNCHANGED <<queueVars, fileVars, uploadVars, workerVars, faults>>

---------------------------------------------------------------------------
(* Clock and restarts *)

TimePasses(k) ==
  /\ BecomeDue(k)
  /\ UNCHANGED <<fileVars, uploadVars, workerVars, req, faults>>

\* The primary restarts: files and table stay, everything else is gone.  A
\* resumable upload goes on with its next PATCH.
Restart ==
  /\ faults < MaxFaults
  /\ faults' = faults + 1
  /\ stage' = [u \in Uploads |->
       IF KindOf[u] = "resumable"
       THEN IF stage[u] = "sending" THEN "acked" ELSE stage[u]
       ELSE IF stage[u] \in {"writing", "detached", "stored"} THEN "failed"
       ELSE stage[u]]
  /\ isWorking' = FALSE
  /\ pc' = [p \in Polls |-> "idle"]
  /\ batch' = [p \in Polls |-> {}]
  /\ current' = [p \in Polls |-> None]
  /\ \E arrived \in SUBSET Slots :
       req' = [s \in Slots |-> GivenUp(req[s], s \in arrived)]
  /\ UNCHANGED <<queueVars, fileVars, rivals>>

---------------------------------------------------------------------------
Next ==
  \/ \E u \in Uploads :
       \/ PutOpen(u) \/ TusCreate(u) \/ WriteChunk(u) \/ PutClose(u)
       \/ UploadFails(u) \/ MultipartPublish(u) \/ Register(u)
       \/ TusComplete(u) \/ TusRemove(u)
  \/ \E u \in Uploads, s \in Slots : TusSendOk(u, s) \/ TusSendFail(u, s)
  \/ \E p \in Polls : \/ PollStart(p) \/ PollSkip(p) \/ PollFetch(p)
                      \/ PollEnd(p) \/ SendMissingRowKept(p)
  \/ \E p \in Polls, k \in Keys : SendNext(p, k) \/ SendMissing(p, k)
  \/ \E p \in Polls, s \in Slots :
       \/ SendOk(p, s) \/ SendOkRowKept(p, s)
       \/ SendFail(p, s) \/ SendFailRowKept(p, s)
  \/ \E s \in Slots :
       \/ RecvOpen(s) \/ RecvOpenCut(s) \/ RecvWrite(s)
       \/ RecvFinish(s) \/ RecvFail(s)
  \/ \E k \in Keys : TimePasses(k)
  \/ Restart

Spec == Init /\ [][Next]_vars

(***************************************************************************)
(* The timer fires, awaits end (a send by its timeout at the latest), the  *)
(* clock runs; and the secondary is found idle infinitely often whenever   *)
(* the worker keeps asking.                                                *)
(***************************************************************************)
PollGoesOn(p) ==
  \/ PollEnd(p)
  \/ \E k \in Keys : SendNext(p, k) \/ SendMissing(p, k)
  \/ \E s \in Slots : SendOk(p, s) \/ SendFail(p, s)

Fairness ==
  /\ \A p \in Polls : /\ WF_vars(PollStart(p))
                      /\ SF_vars(PollFetch(p))
                      /\ WF_vars(PollGoesOn(p))
  /\ \A u \in Uploads :
       WF_vars(\E s \in Slots : TusSendOk(u, s) \/ TusSendFail(u, s))
  /\ \A s \in Slots : /\ WF_vars(RecvOpenCut(s))
                      /\ WF_vars(RecvFinish(s) \/ RecvFail(s))
  /\ \A k \in Keys : WF_vars(TimePasses(k))

FairSpec == Spec /\ Fairness

---------------------------------------------------------------------------
TypeOK ==
  /\ QueueTypeOK
  /\ disk \in [Keys -> Content] /\ replica \in [Keys -> Content]
  /\ stage \in [Uploads -> {"new", "writing", "detached", "stored",
                            "sending", "acked", "failed"}]
  /\ rivals \in [Uploads -> SUBSET Uploads]
  /\ isWorking \in BOOLEAN
  /\ pc \in [Polls -> {"idle", "checking", "serving"}]
  /\ batch \in [Polls -> SUBSET Keys]
  /\ current \in [Polls -> Keys \cup {None}]
  /\ req \in [Slots -> Request]
  /\ faults \in 0 .. MaxFaults

(***************************************************************************)
(* The row of every key a poll still has to settle exists, whatever the    *)
(* uploads, restarts and database errors do in between: the worker awaits  *)
(* between the fetch and the statement that settles a row, and nothing     *)
(* but that statement removes one (replicationWorker.ts, isWorking).       *)
(***************************************************************************)
BatchRowsQueued == \A p \in Polls : \A k \in batch[p] : HasRow(k)

(***************************************************************************)
(* An upload the client was told of is never forgotten: as long as no copy *)
(* of the object was ever written to the secondary, its task is in the     *)
(* table.  For a resumable upload this needs that nothing restarted.       *)
(***************************************************************************)
AckedNeverForgotten ==
  \A u \in Uploads :
    (stage[u] = "acked" /\ (KindOf[u] = "resumable" => faults = 0))
      => HasRow(KeyOf[u]) \/ replica[KeyOf[u]] # Absent

(***************************************************************************)
(* A task is removed only on the answer to a request of the worker for     *)
(* that object; and when nobody wrote either copy during that request (it  *)
(* saw one content only), the two copies are then equal, unless the        *)
(* primary's file was deleted meanwhile.                                   *)
(***************************************************************************)
RemovalIsBacked(k) ==
  \E s \in Slots :
    /\ req[s].stage = "done" /\ req[s].key = k /\ req[s].sender \in Polls
    /\ \A c \in Content :
         req[s].body = {c} => replica[k] = c /\ disk[k] \in {c, Absent}

RowRemovalIsBacked ==
  [][\A k \in Keys : (HasRow(k) /\ ~HasRow(k)') => RemovalIsBacked(k)]_vars

(***************************************************************************)
(* A row that was given up comes back only with a new upload of its object *)
(* (registerReplicationTask).  The worker may have fetched it before a     *)
(* resumable upload's failure gave it up, and reports its own failure      *)
(* after that: the two statements share the count, and neither revives it. *)
(***************************************************************************)
GivenUpForGood ==
  [][\A k \in Keys :
       queue[k].status = "FAILED_PERM" /\ queue'[k].status = "RETRYABLE"
         => \E u \in Uploads : /\ KeyOf[u] = k
                               /\ stage[u] = "stored" /\ stage'[u] = "acked"]_vars

(***************************************************************************)
(* Nobody waits for what cannot come: the worker's flag is set only while  *)
(* a poll runs that will reset it (finally of replicationWorker.ts), and   *)
(* whoever waits for a copy to be sent has a request that ends.            *)
(***************************************************************************)
NobodyWaitsInVain ==
  /\ isWorking => \E p \in Polls : pc[p] # "idle"
  /\ \A p \in Polls : current[p] # None => \E s \in Slots : req[s].sender = p
  /\ \A u \in Uploads : stage[u] = "sending" => \E s \in Slots : req[s].sender = u

(***************************************************************************)
(* Every task is settled in the end: the object is copied or, after        *)
(* MAX_RETRY failures, given up; no restart, abandoned request or database *)
(* error leaves the worker stuck with its flag set.                        *)
(***************************************************************************)
EveryRowSettles ==
  \A k \in Keys : queue[k].status = "RETRYABLE" ~> queue[k].status # "RETRYABLE"

(***************************************************************************)
(* The retry queue as RetryQueue describes it: the worker's batch is what  *)
(* its polls still have to settle.                                         *)
(***************************************************************************)
RQ == INSTANCE RetryQueue WITH
        batch <- UNION {batch[p] : p \in Polls},
        MaxCount <- None, NoBound <- None

ImplementsRetryQueue == RQ!RetrySafety

---------------------------------------------------------------------------
(* What the comments and the README of the code promise beyond that. *)

\* A re-upload resets its task so that it is retried: with every upload of
\* the object over, the task is removed only when the replica holds the one
\* that the file holds.
ReuploadIsRetried ==
  [][\A u \in Uploads :
       ( /\ HasRow(KeyOf[u]) /\ ~HasRow(KeyOf[u])'
         /\ disk[KeyOf[u]] = u
         /\ \A v \in Uploads : KeyOf[v] = KeyOf[u] => stage[v] = "acked" )
       => replica[KeyOf[u]] = u]_vars

\* A task is removed on success: without one, the replica holds the upload.
NoTaskMeansCopied ==
  \A u \in Uploads :
    (disk[KeyOf[u]] = u /\ stage[u] = "acked" /\ ~HasRow(KeyOf[u]))
      => replica[KeyOf[u]] = u

\* A resumable upload whose copy was not made is retried automatically.
AckedResumableIsQueued ==
  \A u \in Uploads : (KindOf[u] = "resumable" /\ stage[u] = "acked")
    => HasRow(KeyOf[u]) \/ replica[KeyOf[u]] # Absent
=============================================================================
