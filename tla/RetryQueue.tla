---------------------------- MODULE RetryQueue ----------------------------
(***************************************************************************)
(* What the retry queue promises, whoever calls it: uploads register and   *)
(* report tasks at any time, a single worker fetches a batch and settles   *)
(* its rows one by one, and a fault may keep a row or drop a whole batch.  *)
(* Requests, files and nodes are left to ObjectReplication, which          *)
(* implements this specification.                                          *)
(***************************************************************************)
EXTENDS ReplicationQueue

CONSTANTS MaxCount,    \* bound: uploads report no failure on a row with that many
          NoBound,     \* as MaxCount: uploads report as they like
          MaxFaults    \* bound on database errors and restarts

ASSUME RetryAssumption == MaxCount \in Nat \cup {NoBound} /\ MaxFaults \in Nat

VARIABLES batch,    \* the fetched rows the worker has not settled yet
          faults    \* the faults so far

retryVars == <<queue, due, ahead, batch, faults>>

RetryInit == QueueInit /\ batch = {} /\ faults = 0

\* An upload was accepted (again): its row is (back) at the first try.
Register(k) ==
  /\ RegisterReplicationTask(k)
  /\ UNCHANGED <<batch, faults>>

\* An upload that replicates its object itself did not succeed.
ReportFailure(k) ==
  /\ MaxCount = NoBound \/ queue[k].retryCount < MaxCount
  /\ UpsertOnFailure(k)
  /\ UNCHANGED <<batch, faults>>

TimePasses(k) ==
  /\ BecomeDue(k)
  /\ UNCHANGED <<batch, faults>>

\* The worker has no batch and takes the next one.
Fetch ==
  /\ batch = {}
  /\ \E B \in RetryBatches : B # {} /\ batch' = B
  /\ UNCHANGED <<queue, due, ahead, faults>>

\* The worker settles a row of its batch.
Succeed(k) ==
  /\ k \in batch
  /\ DeleteOnSuccess(k)
  /\ batch' = batch \ {k}
  /\ UNCHANGED faults

Fail(k) ==
  /\ k \in batch
  /\ UpdateOnRetryFailure(k)
  /\ batch' = batch \ {k}
  /\ UNCHANGED faults

Serve(k) == Succeed(k) \/ Fail(k)

\* A database error after a success leaves the row as it is.
KeepRow(k) ==
  /\ k \in batch
  /\ faults < MaxFaults
  /\ faults' = faults + 1
  /\ batch' = batch \ {k}
  /\ UNCHANGED queueVars

\* A database error after a failure, or a restart, drops the batch.
DropBatch ==
  /\ faults < MaxFaults
  /\ faults' = faults + 1
  /\ batch' = {}
  /\ UNCHANGED queueVars

RetryNext ==
  \/ \E k \in Keys : \/ Register(k) \/ ReportFailure(k) \/ TimePasses(k)
                     \/ Succeed(k) \/ Fail(k) \/ KeepRow(k)
  \/ Fetch
  \/ DropBatch

RetrySafety == RetryInit /\ [][RetryNext]_retryVars

\* The clock runs, the worker polls, and an attempt ends (by its timeout).
RetryFairness ==
  /\ WF_retryVars(Fetch)
  /\ \A k \in Keys : WF_retryVars(TimePasses(k)) /\ WF_retryVars(Serve(k))

RetrySpec == RetrySafety /\ RetryFairness

---------------------------------------------------------------------------
RetryTypeOK ==
  /\ QueueTypeOK
  /\ batch \subseteq Keys
  /\ faults \in 0 .. MaxFaults

(***************************************************************************)
(* The worker only settles rows that exist: whatever the uploads do to a   *)
(* row meanwhile, nothing but the worker itself removes one, so neither    *)
(* deleteOnSuccess nor updateOnRetryFailure ever misses its row.           *)
(***************************************************************************)
BatchIsQueued == \A k \in batch : HasRow(k)

UploadsTouch(k) == Register(k) \/ ReportFailure(k)

(***************************************************************************)
(* Rows are served in the order in which they became due (ORDER BY         *)
(* nextRetryAt ASC of fetchBatchStmt): nothing gets ahead of a due row     *)
(* that uploads leave alone, neither a registration nor a retry, and a     *)
(* batch that passes it over is a full one of rows that were ahead of it.  *)
(***************************************************************************)
FirstComeFirstServed ==
  [][\A k \in due :
       /\ k \in due' /\ ~UploadsTouch(k) => ahead'[k] \subseteq ahead[k]
       /\ batch = {} /\ batch' # {} /\ k \notin batch'
            => batch' \subseteq ahead[k] /\ Cardinality(batch') = BatchSize]_retryVars

(***************************************************************************)
(* A row that is due waits behind a finite line: once uploads leave it     *)
(* alone, the worker fetches it, however many other rows fail, come back   *)
(* or are registered anew (ORDER BY nextRetryAt ASC of fetchBatchStmt).    *)
(***************************************************************************)
NotStarved ==
  \A k \in Keys : <>[][~UploadsTouch(k)]_retryVars
                    => (k \in due ~> k \in batch \/ k \notin due)

(***************************************************************************)
(* Retrying ends: once uploads leave a row alone it is removed or given up *)
(* (MAX_RETRY), it does not stay RETRYABLE for ever.                       *)
(***************************************************************************)
RetriesEnd ==
  \A k \in Keys : <>[][~UploadsTouch(k)]_retryVars
                    => (queue[k].status = "RETRYABLE"
                          ~> queue[k].status # "RETRYABLE")
=============================================================================
