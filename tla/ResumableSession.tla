-------------------------- MODULE ResumableSession --------------------------
(***************************************************************************)
(* The session of the resumable uploads of one object: one row of the      *)
(* table tus_uploads, keyed by the object, so that every upload of the     *)
(* object uses the same one.  An upload begins with a presigned URL, whose *)
(* expiry TusSessionStore writes into the row; the tus server adds length  *)
(* and metadata through SqliteConfigstore.  The row goes with a            *)
(* cancellation, when a completed upload has been sent to the secondary,   *)
(* and in a clean-up that runs at the start and once a day.  The tus       *)
(* server is a library: its steps are modelled as far as they call into    *)
(* this code.                                                              *)
(***************************************************************************)
EXTENDS PresignedUrl

(***************************************************************************)
(* A DATETIME of SQLite is a text, "YYYY-MM-DD HH:MM:SS": the day, a       *)
(* separator (its code) and the second of the day.  It is compared as a    *)
(* text, from left to right.                                               *)
(***************************************************************************)
Datetime == [date : Nat, sep : Nat, time : Nat]

Blank == 32

Before(d, e) == \/ d.date < e.date
                \/ d.date = e.date /\ d.sep < e.sep
                \/ d.date = e.date /\ d.sep = e.sep /\ d.time < e.time

CONSTANTS Uploads,
          Object,     \* the key of the object
          InPath,     \* the key a node reads in the path of a session
          Sizes,      \* sizes a client asks a URL for
          Length,     \* chunks of an upload
          AwaitSend,  \* no re-upload while a completed one is being sent
          Day,        \* seconds per day
          MaxNow,     \* bound on the clock
          MaxFaults,  \* bound on restarts
          Null, NoRow, Absent, None

ASSUME SessionAssumption ==
  /\ Object \in Keys
  /\ Sizes \subseteq Nat \ {0}
  /\ Length \in Nat \ {0} /\ MaxNow \in Nat /\ MaxFaults \in Nat
  /\ AwaitSend \in BOOLEAN /\ Day \in Nat \ {0}
  /\ Null \notin Datetime /\ NoRow \notin Datetime \cup {Null}
  /\ Absent \notin Nat
  /\ None \notin Uploads

VARIABLES
  now,
  row,      \* expires_at of the object's row, Null if unset, NoRow if none
  swept,    \* history: when the clean-up ran last
  file,     \* length of the object's file, Absent if there is none
  stage,    \* how far an upload is
  patch,    \* whether a PATCH of it has passed the check of its session
  url,      \* the presigned URL an upload was given
  latest,   \* history: the last upload whose POST was let in
  faults

vars == <<now, row, swept, file, stage, patch, url, latest, faults>>

Init ==
  /\ now = 0
  /\ row = NoRow
  /\ swept = 0
  /\ file = Absent
  /\ stage = [u \in Uploads |-> "new"]
  /\ patch = [u \in Uploads |-> FALSE]
  /\ url = [u \in Uploads |-> None]
  /\ latest = None
  /\ faults = 0

GoesTo(u, s) == stage' = [stage EXCEPT ![u] = s]

SecondOfDay(sec) == sec - Day * (sec \div Day)

\* A slip: the "T" between day and time stays.
ToDatetimeIso(sec) ==
  [date |-> sec \div Day, sep |-> 84, time |-> SecondOfDay(sec)]

\* What toDatetime makes of an expiry, and new Date of that.
ToDatetime(sec) ==
  [date |-> sec \div Day, sep |-> Blank, time |-> SecondOfDay(sec)]

FromDatetime(d) == Day * d.date + d.time

\* datetime('now') of SQLite.
DatetimeNow == LET sec == now \div Second IN
  [date |-> sec \div Day, sep |-> Blank, time |-> SecondOfDay(sec)]

\* A PATCH, HEAD or DELETE looks for the path, a POST wrote the query's key.
Found == IF InPath[Object] = InQuery[Object] THEN row ELSE NoRow

\* validate: "ok", "expired" or "not_found".  It does not round to seconds.
ValidateSession == IF Found \in {NoRow, Null} THEN "not_found"
                   ELSE IF now > Second * FromDatetime(Found) THEN "expired"
                   ELSE "ok"

\* A client asks the control plane for a URL.
Issue(u) ==
  /\ stage[u] = "new"
  /\ \E size \in Sizes : url' = [url EXCEPT ![u] = UploadUrl(Object, size, now)]
  /\ GoesTo(u, "issued")
  /\ UNCHANGED <<now, row, swept, file, patch, latest, faults>>

\* A slip: the session lasts from its own start.
PostRenews(u) ==
  /\ stage[u] \in {"issued", "open"} /\ ~patch[u]
  /\ \A v \in Uploads \ {u} : stage[v] \notin {"creating", "opened", "open"}
  /\ AwaitSend => \A v \in Uploads : stage[v] # "sending"
  /\ url[u].path = "resumable" /\ Served(url[u], now)
  /\ row' = ToDatetime(now \div Second + Lifetime)
  /\ latest' = u
  /\ GoesTo(u, "creating")
  /\ UNCHANGED <<now, swept, file, patch, url, faults>>

\* POST: the URL is let in and its expiry upserted.  A client may repeat it,
\* with the same URL; clients upload the object one after the other.
Post(u) ==
  /\ stage[u] \in {"issued", "open"} /\ ~patch[u]
  /\ \A v \in Uploads \ {u} : stage[v] \notin {"creating", "opened", "open"}
  /\ AwaitSend => \A v \in Uploads : stage[v] # "sending"
  /\ url[u].path = "resumable" /\ Served(url[u], now)
  /\ row' = ToDatetime(url[u].exp)
  /\ latest' = u
  /\ GoesTo(u, "creating")
  /\ UNCHANGED <<now, swept, file, patch, url, faults>>

PostRefused(u) ==
  /\ stage[u] = "issued"
  /\ url[u].path = "resumable" /\ ~Served(url[u], now)
  /\ GoesTo(u, "refused")
  /\ UNCHANGED <<now, row, swept, file, patch, url, latest, faults>>

\* The tus server creates the file, or truncates it ...
CreateFile(u) ==
  /\ stage[u] = "creating"
  /\ file' = 0
  /\ GoesTo(u, "opened")
  /\ UNCHANGED <<now, row, swept, patch, url, latest, faults>>

\* ... or cannot; the row is there already.
CreateFails(u) ==
  /\ stage[u] = "creating"
  /\ GoesTo(u, "issued")
  /\ UNCHANGED <<now, row, swept, file, patch, url, latest, faults>>

\* A slip: the statement sets every column of the row.
ConfigSetAll(u) ==
  /\ stage[u] = "opened"
  /\ row' = Null
  /\ GoesTo(u, "open")
  /\ UNCHANGED <<now, swept, file, patch, url, latest, faults>>

\* Then it stores length and metadata; a row it has to insert has no expiry.
ConfigSet(u) ==
  /\ stage[u] = "opened"
  /\ row' = IF row = NoRow THEN Null ELSE row
  /\ GoesTo(u, "open")
  /\ UNCHANGED <<now, swept, file, patch, url, latest, faults>>

PatchStart(u) ==
  /\ stage[u] = "open" /\ ~patch[u]
  /\ ValidateSession = "ok"
  /\ patch' = [patch EXCEPT ![u] = TRUE]
  /\ UNCHANGED <<now, row, swept, file, stage, url, latest, faults>>

PatchRefused(u) ==
  /\ stage[u] = "open" /\ ~patch[u]
  /\ ValidateSession # "ok"
  /\ GoesTo(u, "refused")
  /\ UNCHANGED <<now, row, swept, file, patch, url, latest, faults>>

\* A slip: the event of the last chunk does not come.
PatchWriteOnly(u) ==
  /\ patch[u] /\ row # NoRow /\ file # Absent
  /\ file' = file + 1
  /\ patch' = [patch EXCEPT ![u] = FALSE]
  /\ UNCHANGED <<now, row, swept, stage, url, latest, faults>>

\* The server appends a chunk; with the last one the handler starts to send.
PatchWrite(u) ==
  /\ patch[u] /\ row # NoRow /\ file # Absent
  /\ file' = file + 1
  /\ patch' = [patch EXCEPT ![u] = FALSE]
  /\ IF file' = Length THEN GoesTo(u, "sending") ELSE UNCHANGED stage
  /\ UNCHANGED <<now, row, swept, url, latest, faults>>

\* The connection breaks, or the row or the file is gone.
PatchFails(u) ==
  /\ patch[u]
  /\ patch' = [patch EXCEPT ![u] = FALSE]
  /\ UNCHANGED <<now, row, swept, file, stage, url, latest, faults>>

\* The send has ended, well or not: the object's row is deleted.
SendEnds(u) ==
  /\ stage[u] = "sending"
  /\ row' = NoRow
  /\ GoesTo(u, "done")
  /\ UNCHANGED <<now, swept, file, patch, url, latest, faults>>

Cancel(u) ==
  /\ stage[u] = "open" /\ ~patch[u]
  /\ ValidateSession = "ok" /\ file # Absent
  /\ file' = Absent
  /\ row' = NoRow
  /\ GoesTo(u, "cancelled")
  /\ UNCHANGED <<now, swept, patch, url, latest, faults>>

\* expires_at < datetime('now').
Expired == row \notin {NoRow, Null} /\ Before(row, DatetimeNow)

\* The row goes, the file stays.
ClearExpired ==
  /\ row' = IF Expired THEN NoRow ELSE row
  /\ swept' = now

\* The timer of the clean-up, a day after it ran last or later.
Cleanup ==
  /\ now >= swept + Second * Day
  /\ ClearExpired
  /\ UNCHANGED <<now, file, stage, patch, url, latest, faults>>

Tick ==
  /\ now < MaxNow
  /\ now' = now + 1
  /\ UNCHANGED <<row, swept, file, stage, patch, url, latest, faults>>

\* The table and the file stay, but for a first clean-up; an upload that is
\* open can be resumed, one whose POST was not answered can be begun again.
Restart ==
  /\ faults < MaxFaults
  /\ faults' = faults + 1
  /\ ClearExpired
  /\ stage' = [u \in Uploads |->
                 IF stage[u] \in {"creating", "opened"} THEN "issued"
                 ELSE IF stage[u] = "sending" THEN "done"
                 ELSE stage[u]]
  /\ patch' = [u \in Uploads |-> FALSE]
  /\ UNCHANGED <<now, file, url, latest>>

Next ==
  \/ \E u \in Uploads :
       \/ Issue(u) \/ Post(u) \/ PostRefused(u)
       \/ CreateFile(u) \/ CreateFails(u) \/ ConfigSet(u)
       \/ PatchStart(u) \/ PatchRefused(u) \/ PatchWrite(u) \/ PatchFails(u)
       \/ SendEnds(u) \/ Cancel(u)
  \/ Cleanup \/ Tick \/ Restart

Spec == Init /\ [][Next]_vars

---------------------------------------------------------------------------
UrlsIssued ==
  \A u \in Uploads :
    IF stage[u] = "new" THEN url[u] = None
    ELSE \E t \in 0 .. now, size \in Sizes : url[u] = UploadUrl(Object, size, t)

TypeOK ==
  /\ now \in 0 .. MaxNow
  /\ row \in Datetime \cup {Null, NoRow} /\ swept \in 0 .. now
  /\ file \in (0 .. Length) \cup {Absent}
  /\ stage \in [Uploads -> {"new", "issued", "creating", "opened", "open",
                            "sending", "done", "cancelled", "refused"}]
  /\ patch \in [Uploads -> BOOLEAN]
  /\ DOMAIN url = Uploads /\ UrlsIssued
  /\ latest \in Uploads \cup {None}
  /\ faults \in 0 .. MaxFaults

(***************************************************************************)
(* A URL of the control plane is let in by the node for its lifetime, and  *)
(* no longer than a second more, for uploads of either kind and downloads, *)
(* if the query gives the key back: one side rounds the time of issue, the *)
(* other the time of use, and both must sign the same string.              *)
(***************************************************************************)
IssuedUrlsLast ==
  \A t \in 0 .. now, size \in Sizes, key \in {k \in Keys : InQuery[k] = k} :
    \A issued \in {UploadUrl(key, size, t), DownloadUrl(key, size, t)} :
      /\ now - t <= Second * Lifetime => Served(issued, now)
      /\ now - t >= Second * (Lifetime + 1) => ~Served(issued, now)

(***************************************************************************)
(* A client that was given its session can use it until it expires: the    *)
(* row of the last upload started stays, with its expiry, across the       *)
(* statements of both stores, restarts and clean-ups; a session is deleted *)
(* "on completion or cancellation" only (TusSessionStore.ts:91).           *)
(***************************************************************************)
AuthorisedUntilExpiry ==
  \A u \in Uploads :
    (u = latest /\ stage[u] = "open" /\ now <= Second * url[u].exp)
      => ValidateSession = "ok"

(***************************************************************************)
(* A session that is accepted stands for a URL that still is: repeated     *)
(* POSTs, re-uploads and what is left of a POST that failed never give a   *)
(* session more time than a presigned URL of its object has.               *)
(***************************************************************************)
SessionEndsWithItsUrl ==
  ValidateSession = "ok"
    => \E u \in Uploads : stage[u] # "new" /\ Served(url[u], now)

(***************************************************************************)
(* No session outlives the first clean-up that finds it expired for a      *)
(* second: what is there, however it was written, expires after the last   *)
(* clean-up or within that second.  clearExpired compares texts of the two *)
(* sides, toDatetime and datetime('now'), and a POST in the last second of *)
(* its URL writes a row that is expired already.                           *)
(***************************************************************************)
NoSessionOutlivesCleanup ==
  row \notin {NoRow, Null} => swept < Second * (FromDatetime(row) + 1)
=============================================================================
