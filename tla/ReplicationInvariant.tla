------------------------ MODULE ReplicationInvariant ------------------------
(***************************************************************************)
(* The inductive invariant of ObjectReplication, part by part: why the     *)
(* worker's batch stays in the table, and why the copy an answer confirms  *)
(* is one the attempt explains.                                            *)
(***************************************************************************)
EXTENDS ObjectReplication

\* Only rows that exist are due, so only those are fetched.
DueQueued == \A k \in due : HasRow(k)

\* isWorking keeps the polls apart: at most one is past its first line.
OnePoll ==
  /\ \A p \in Polls : pc[p] # "idle" => isWorking
  /\ \A p, q \in Polls : pc[p] # "idle" /\ pc[q] # "idle" => p = q

\* A poll has a batch only while it serves it, and sends only rows of it.
BatchOfServing ==
  \A p \in Polls : /\ batch[p] # {} => pc[p] = "serving"
                   /\ current[p] # None => current[p] \in batch[p]

\* Who still waits for the answer to a request, and for which object.
SenderKnown ==
  \A s \in Slots :
    /\ req[s].stage \in {"free", "cut"} => req[s].sender = None
    /\ req[s].stage \in {"waiting", "done", "failed"} => req[s].sender # None
    /\ req[s].stage # "free" => req[s].key \in Keys
    /\ req[s].sender \in Polls => req[s].key = current[req[s].sender]
    /\ req[s].sender \in Uploads => req[s].key = KeyOf[req[s].sender]

\* A poll waits for one answer at a time.
OneRequestPerPoll ==
  \A s, t \in Slots :
    req[s].sender = req[t].sender /\ req[s].sender \in Polls => s = t

WorkerInv == /\ DueQueued /\ OnePoll /\ BatchOfServing /\ BatchRowsQueued
             /\ SenderKnown /\ OneRequestPerPoll

(***************************************************************************)
(* The copies are explained by the requests in flight: while its sender    *)
(* waits, a request has seen what the primary's file holds; once it is     *)
(* answered with success, it has seen what the replica holds, and so has   *)
(* it seen all that another request writing that replica may leave there   *)
(* (receiveReplication awaits saveStreamToStorage before it answers).      *)
(***************************************************************************)
SharesReplica(s, t) ==
  /\ s # t
  /\ req[s].stage = "receiving"
  /\ req[t].stage \in {"receiving", "done"} /\ req[t].sender # None
  /\ req[s].key = req[t].key

CopiesExplained ==
  /\ \A s \in Slots : req[s].sender # None
       => disk[req[s].key] \in req[s].body \cup {Absent}
  /\ \A s \in Slots : req[s].stage = "done"
       => replica[req[s].key] \in req[s].body
  /\ \A s, t \in Slots : SharesReplica(s, t)
       => req[s].body \cup {Torn} \subseteq req[t].body

\* The statements compare a row's count with MAX_RETRY in the same way.
CountDecidesStatus ==
  \A k \in Keys : HasRow(k) =>
    (queue[k].status = "FAILED_PERM" <=> queue[k].retryCount >= MaxRetry)

IInv == /\ TypeOK /\ WorkerInv /\ CopiesExplained
        /\ CountDecidesStatus /\ AckedNeverForgotten
=============================================================================
