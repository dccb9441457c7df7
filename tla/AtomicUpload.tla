---------------------------- MODULE AtomicUpload ----------------------------
(***************************************************************************)
(* What a multipart upload promises a client that waits for its answers.   *)
(* Parts are stored one by one.  The object changes in one step, from what *)
(* it was to all the parts last stored, in ascending order; nothing is     *)
(* stored or published once the upload is closed; and the object is queued *)
(* for replication at most once, as it then is, when the upload is closed. *)
(*                                                                         *)
(* Two things weaken the promise.  Once a removal of the upload's files    *)
(* has failed half way, which only happens to an upload that was published *)
(* or aborted, or that expired, the object may be made of some of the      *)
(* parts.  And what was under way when the upload expired is carried out.  *)
(***************************************************************************)
EXTENDS Naturals, Sequences

CONSTANTS Puts, PartOf, None

VARIABLES stored,    \* the PUT last stored, of every part
          object,    \* the PUTs the object is made of, <<>> for none
          open,      \* parts may be stored, the object may be published
          task,      \* a replication task was registered
          aborted,   \* the client has asked to give the upload up
          expired,   \* the upload has reached the end of its life
          damaged    \* a removal has failed, some of the parts may be gone

vars == <<stored, object, open, task, aborted, expired, damaged>>

Parts == {PartOf[q] : q \in Puts}

\* The PUTs o consists of, and those that f holds.
Elements(o) == {o[i] : i \in DOMAIN o}
Held(f)     == {f[n] : n \in Parts} \ {None}

\* The sequence o is made of what f holds of some parts, or of every part, in
\* ascending order.
IsMadeOf(o, f) ==
  /\ o # <<>>
  /\ Elements(o) \subseteq Held(f)
  /\ \A i, j \in DOMAIN o : i < j => PartOf[o[i]] < PartOf[o[j]]

IsWhole(o, f) == IsMadeOf(o, f) /\ Elements(o) = Held(f)

Fits(o) == IF damaged \/ expired THEN IsMadeOf(o, stored)
                                 ELSE IsWhole(o, stored)

Init ==
  /\ stored = [n \in Parts |-> None]
  /\ object = <<>>
  /\ open = TRUE /\ task = FALSE
  /\ aborted = FALSE /\ expired = FALSE /\ damaged = FALSE

Store(q) ==
  /\ open \/ expired
  /\ stored' = [stored EXCEPT ![PartOf[q]] = q]
  /\ UNCHANGED <<object, open, task, aborted, expired, damaged>>

Publish ==
  /\ open \/ expired
  /\ ~task
  /\ object' \in Seq(Puts)
  /\ Fits(object')
  /\ UNCHANGED <<stored, open, task, aborted, expired, damaged>>

Close ==
  /\ open
  /\ open' = FALSE
  /\ UNCHANGED <<stored, object, task, aborted, expired, damaged>>

Queue ==
  /\ ~open /\ ~task
  /\ Fits(object)
  /\ task' = TRUE
  /\ UNCHANGED <<stored, object, open, aborted, expired, damaged>>

Abort ==
  /\ open /\ ~aborted
  /\ aborted' = TRUE
  /\ UNCHANGED <<stored, object, open, task, expired, damaged>>

Expire ==
  /\ open /\ ~expired
  /\ expired' = TRUE
  /\ UNCHANGED <<stored, object, open, task, aborted, damaged>>

Damage ==
  /\ object # <<>> \/ aborted \/ expired
  /\ damaged' = TRUE
  /\ UNCHANGED <<stored, object, open, task, aborted, expired>>

Next == (\E q \in Puts : Store(q)) \/ Publish \/ Close \/ Queue
        \/ Abort \/ Expire \/ Damage

Spec == Init /\ [][Next]_vars
=============================================================================
