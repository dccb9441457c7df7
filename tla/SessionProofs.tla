---------------------------- MODULE SessionProofs ----------------------------
(***************************************************************************)
(* Proofs for PresignedUrl and ResumableSession: for every clock, lifetime *)
(* and size, any uploads and any number of restarts.                       *)
(***************************************************************************)
EXTENDS ResumableSession, TLAPS

---------------------------------------------------------------------------
(* Rounding down to seconds. *)

LEMMA Rounding ==
  ASSUME NEW t \in Nat, NEW s \in Nat \ {0}
  PROVE  t \div s \in Nat /\ s * (t \div s) <= t /\ t < s * ((t \div s) + 1)
  OBVIOUS

LEMMA RoundedEarly ==
  ASSUME NEW t \in Nat, NEW x \in Nat, NEW s \in Nat \ {0}, NEW l \in Nat,
         x - t <= s * l
  PROVE  x \div s <= (t \div s) + l
  BY Rounding

LEMMA RoundedLate ==
  ASSUME NEW t \in Nat, NEW x \in Nat, NEW s \in Nat \ {0}, NEW l \in Nat,
         x - t >= s * (l + 1)
  PROVE  x \div s > (t \div s) + l
  BY Rounding

LEMMA RoundedExact ==
  ASSUME NEW x \in Nat, NEW s \in Nat \ {0}, NEW e \in Nat, x <= s * e
  PROVE  x \div s <= e
  BY Rounding

LEMMA RoundedMonotone ==
  ASSUME NEW t \in Nat, NEW s \in Nat \ {0}
  PROVE  t \div s <= (t + 1) \div s
  BY Rounding

---------------------------------------------------------------------------
(* Seconds as texts, and back. *)

LEMMA DayAndTime ==
  ASSUME NEW x \in Nat
  PROVE  /\ x \div Day \in Nat /\ SecondOfDay(x) \in Nat
         /\ SecondOfDay(x) < Day /\ Day * (x \div Day) \in Nat
         /\ x = Day * (x \div Day) + SecondOfDay(x)
<1>1. Day \in Nat \ {0}
  BY SessionAssumption
<1>2. /\ x \div Day \in Nat /\ Day * (x \div Day) \in Nat
      /\ Day * (x \div Day) <= x /\ x < Day * (x \div Day) + Day
  BY <1>1, Rounding
<1> QED
  BY <1>1, <1>2 DEF SecondOfDay

LEMMA DatetimeKept ==
  ASSUME NEW x \in Nat
  PROVE  ToDatetime(x) \in Datetime /\ FromDatetime(ToDatetime(x)) = x
<1>1. /\ x \div Day \in Nat /\ SecondOfDay(x) \in Nat
      /\ x = Day * (x \div Day) + SecondOfDay(x)
  BY DayAndTime
<1>2. ToDatetime(x).date = x \div Day /\ ToDatetime(x).time = SecondOfDay(x)
  BY DEF ToDatetime
<1>3. FromDatetime(ToDatetime(x)) = x
  BY <1>1, <1>2 DEF FromDatetime
<1>4. ToDatetime(x) \in Datetime
  BY <1>1 DEF ToDatetime, Datetime, Blank
<1> QED
  BY <1>3, <1>4

LEMMA LaterDay ==
  ASSUME NEW a \in Nat, NEW b \in Nat, a < b
  PROVE  Day * a + Day <= Day * b
<1>1. Day \in Nat \ {0} /\ b >= a + 1
  BY SessionAssumption
<1>2. PICK d \in Nat : b = a + 1 + d
  <2>1. b - (a + 1) \in Nat
    BY <1>1
  <2> QED BY <2>1
<1>3. Day * b = Day * a + Day + Day * d /\ Day * d \in Nat /\ Day * a \in Nat
  BY <1>1, <1>2
<1> QED BY <1>1, <1>3

\* The texts are ordered like the seconds they stand for.
LEMMA DatetimesOrdered ==
  ASSUME NEW x \in Nat, NEW y \in Nat
  PROVE  Before(ToDatetime(x), ToDatetime(y)) <=> x < y
<1> DEFINE dx == x \div Day
           dy == y \div Day
           sx == SecondOfDay(x)
           sy == SecondOfDay(y)
<1>1. Before(ToDatetime(x), ToDatetime(y)) <=> dx < dy \/ (dx = dy /\ sx < sy)
  BY DEF Before, ToDatetime, Blank
<1>2. /\ dx \in Nat /\ dy \in Nat /\ sx \in Nat /\ sy \in Nat
      /\ sx < Day /\ sy < Day /\ Day * dx \in Nat /\ Day * dy \in Nat
      /\ x = Day * dx + sx /\ y = Day * dy + sy
  BY DayAndTime
<1>3. /\ dx < dy => Day * dx + Day <= Day * dy
      /\ dy < dx => Day * dy + Day <= Day * dx
  BY <1>2, LaterDay
<1>4. Day \in Nat
  BY SessionAssumption
<1> HIDE DEF dx, dy, sx, sy
<1>5. CASE dx < dy
  BY <1>1, <1>2, <1>3, <1>4, <1>5
<1>6. CASE dy < dx
  BY <1>1, <1>2, <1>3, <1>4, <1>6
<1>7. CASE dx = dy
  BY <1>1, <1>2, <1>4, <1>7
<1> QED
  BY <1>2, <1>5, <1>6, <1>7

---------------------------------------------------------------------------
(* What the control plane issues, and what the node makes of it. *)

Issued(key) ==
  {UploadUrl(key, size, t) : size \in Nat \ {0}, t \in Nat}
    \cup {DownloadUrl(key, size, t) : size \in Nat \ {0}, t \in Nat}

LEMMA IssuedFor ==
  ASSUME NEW key, NEW issued \in Issued(key)
  PROVE  \E r \in Routes, size \in Nat \ {0}, t \in Nat :
           issued = GeneratePresignedUrl(r[1], key, size, r[2], t)
<1>1. PICK size \in Nat \ {0}, t \in Nat :
        issued = UploadUrl(key, size, t) \/ issued = DownloadUrl(key, size, t)
  BY DEF Issued
<1>2. CASE issued = GeneratePresignedUrl("resumable", key, size, "POST", t)
  <2> <<"resumable", "POST">> \in Routes
    BY DEF Routes
  <2> QED BY <1>2, Zenon
<1>3. CASE issued = GeneratePresignedUrl("direct", key, size, "PUT", t)
  <2> <<"direct", "PUT">> \in Routes
    BY DEF Routes
  <2> QED BY <1>3, Zenon
<1>4. CASE issued = GeneratePresignedUrl("direct", key, size, "GET", t)
  <2> <<"direct", "GET">> \in Routes
    BY DEF Routes
  <2> QED BY <1>4, Zenon
<1> QED
  BY <1>1, <1>2, <1>3, <1>4 DEF UploadUrl, DownloadUrl

\* The expiry of a URL is the only check of it that time can change.
LEMMA ServedUntilExpiry ==
  ASSUME NEW key \in Keys, InQuery[key] = key, NEW issued \in Issued(key),
         NEW x \in Nat
  PROVE  issued.exp \in Nat /\ (Served(issued, x) <=> ~IsExpired(issued.exp, x))
<1>1. PICK r \in Routes, size \in Nat \ {0}, t \in Nat :
        issued = GeneratePresignedUrl(r[1], key, size, r[2], t)
  BY IssuedFor
<1>2. /\ issued.path = r[1] /\ issued.objectKey = key /\ issued.method = r[2]
      /\ issued.fileSize = size /\ issued.exp = t \div Second + Lifetime
      /\ issued.signature = Hmac(Secret, <<key, r[2], issued.exp, size>>)
      /\ Query(issued) = issued
  BY <1>1 DEF GeneratePresignedUrl, Url, GenerateSignature, Query
<1>3. issued.exp \in Nat
  BY <1>2, Rounding, UrlAssumption
<1>4. <<r[1], r[2]>> \in Routes /\ Missing # r[2]
  BY UrlAssumption DEF Routes
<1> QED
  BY <1>2, <1>3, <1>4, UrlAssumption
     DEF Served, ValidateRequest, VerifySignature

\* A key the query does not give back has no URL that works.
LEMMA ServedKeysSurvive ==
  ASSUME NEW key \in Keys, NEW issued \in Issued(key), NEW x \in Nat,
         Served(issued, x)
  PROVE  InQuery[key] = key
<1>1. PICK r \in Routes, size \in Nat \ {0}, t \in Nat :
        issued = GeneratePresignedUrl(r[1], key, size, r[2], t)
  BY IssuedFor
<1>2. /\ issued.objectKey = key
      /\ issued.signature = Hmac(Secret, <<key, r[2], issued.exp, size>>)
      /\ Query(issued).objectKey = InQuery[key]
      /\ Query(issued).signature = issued.signature
  BY <1>1 DEF GeneratePresignedUrl, Url, GenerateSignature, Query
<1> QED
  BY <1>2 DEF Served, ValidateRequest, VerifySignature, Hmac

---------------------------------------------------------------------------
(* Types.  That the file of an open upload is not full takes who writes it *)
(* and when: one upload at a time is being received.                       *)

Receiving(u) == stage[u] \in {"creating", "opened", "open"}

OneReceiver == \A u, v \in Uploads : Receiving(u) /\ Receiving(v) => u = v
PatchIsOpen == \A u \in Uploads : patch[u] => stage[u] = "open"
OpenIsShort == \A u \in Uploads :
  stage[u] \in {"opened", "open"} => file \in (0 .. Length - 1) \cup {Absent}

TypedInv == TypeOK /\ OneReceiver /\ PatchIsOpen /\ OpenIsShort

LEMMA TypedInit == Init => TypedInv
  BY SessionAssumption
     DEF Init, TypedInv, TypeOK, UrlsIssued, OneReceiver, Receiving,
         PatchIsOpen, OpenIsShort

\* An upload that has begun has a URL the control plane has issued.
LEMMA UrlIsIssued ==
  ASSUME TypeOK, NEW u \in Uploads, stage[u] # "new"
  PROVE  url[u] \in Issued(Object)
BY SessionAssumption DEF TypeOK, UrlsIssued, Issued

LEMMA ExpiryIsNat ==
  ASSUME TypeOK, NEW u \in Uploads, stage[u] # "new"
  PROVE  url[u].exp \in Nat
<1>1. PICK r \in Routes, size \in Nat \ {0}, t \in Nat :
        url[u] = GeneratePresignedUrl(r[1], Object, size, r[2], t)
  BY UrlIsIssued, IssuedFor
<1>2. url[u].exp = t \div Second + Lifetime
  BY <1>1 DEF GeneratePresignedUrl, Url
<1> QED
  BY <1>2, Rounding, UrlAssumption

\* The URLs stay what they are while a step moves an upload on.
LEMMA UrlsStay ==
  ASSUME TypeOK, UNCHANGED url, now' \in Nat, now' >= now,
         \A u \in Uploads : stage'[u] = "new" <=> stage[u] = "new"
  PROVE  UrlsIssued'
<1>1. ASSUME NEW t, t \in 0 .. now PROVE t \in 0 .. now'
  BY <1>1 DEF TypeOK
<1> QED
  BY <1>1 DEF TypeOK, UrlsIssued

LEMMA TypedStep == TypedInv /\ [Next]_vars => TypedInv'
<1> SUFFICES ASSUME TypedInv, [Next]_vars PROVE TypedInv'
  OBVIOUS
<1> USE SessionAssumption
        DEF TypedInv, OneReceiver, Receiving, PatchIsOpen, OpenIsShort
<1>1. ASSUME NEW u \in Uploads, Issue(u) PROVE TypedInv'
  <2>1. PICK size \in Sizes : url' = [url EXCEPT ![u] = UploadUrl(Object, size, now)]
    BY <1>1 DEF Issue
  <2>2. /\ stage[u] = "new" /\ stage' = [stage EXCEPT ![u] = "issued"]
        /\ UNCHANGED <<now, row, swept, file, patch, latest, faults>>
    BY <1>1 DEF Issue, GoesTo
  <2>3. now \in 0 .. now
    BY DEF TypeOK
  <2>4. UrlsIssued'
    BY <2>1, <2>2, <2>3 DEF TypeOK, UrlsIssued
  <2> QED
    BY <2>1, <2>2, <2>4 DEF TypeOK
<1>2. ASSUME NEW u \in Uploads, Post(u) PROVE TypedInv'
  <2>1. UrlsIssued'
    BY <1>2, UrlsStay DEF Post, GoesTo, TypeOK
  <2>2. ToDatetime(url[u].exp) \in Datetime
    BY <1>2, ExpiryIsNat, DatetimeKept DEF Post
  <2> QED
    BY <1>2, <2>1, <2>2 DEF Post, GoesTo, TypeOK
<1>3. ASSUME NEW u \in Uploads,
             PostRefused(u) \/ CreateFails(u) \/ PatchRefused(u) \/ SendEnds(u)
      PROVE  TypedInv'
  <2>1. UrlsIssued'
    BY <1>3, UrlsStay
       DEF PostRefused, CreateFails, PatchRefused, SendEnds, GoesTo, TypeOK
  <2> QED
    BY <1>3, <2>1
       DEF PostRefused, CreateFails, PatchRefused, SendEnds, GoesTo, TypeOK
<1>4. ASSUME NEW u \in Uploads, CreateFile(u) \/ ConfigSet(u) PROVE TypedInv'
  <2>1. UrlsIssued'
    BY <1>4, UrlsStay DEF CreateFile, ConfigSet, GoesTo, TypeOK
  <2> QED
    BY <1>4, <2>1 DEF CreateFile, ConfigSet, GoesTo, TypeOK
<1>5. ASSUME NEW u \in Uploads, PatchStart(u) \/ PatchFails(u) PROVE TypedInv'
  <2>1. UrlsIssued'
    BY <1>5, UrlsStay DEF PatchStart, PatchFails, TypeOK
  <2>2. PICK b \in BOOLEAN : patch' = [patch EXCEPT ![u] = b]
    BY <1>5, Zenon DEF PatchStart, PatchFails
  <2>3. patch' \in [Uploads -> BOOLEAN]
    BY <2>2 DEF TypeOK
  <2>4. TypeOK' /\ OneReceiver' /\ OpenIsShort'
    BY <1>5, <2>1, <2>3 DEF PatchStart, PatchFails, TypeOK
  <2>5. ASSUME NEW v \in Uploads, patch'[v] PROVE stage'[v] = "open"
    <3>1. CASE v = u
      BY <1>5, <2>5, <3>1 DEF PatchStart, PatchFails, TypeOK
    <3>2. CASE v # u
      BY <1>5, <2>5, <3>2 DEF PatchStart, PatchFails, TypeOK
    <3> QED BY <3>1, <3>2
  <2> QED
    BY <2>4, <2>5
<1>6. ASSUME NEW u \in Uploads, PatchWrite(u) PROVE TypedInv'
  <2>1. UrlsIssued'
    BY <1>6, UrlsStay DEF PatchWrite, GoesTo, TypeOK
  <2>2. stage[u] = "open" /\ file \in 0 .. Length - 1 /\ file' = file + 1
    BY <1>6 DEF PatchWrite
  <2>3. TypeOK'
    BY <1>6, <2>1, <2>2 DEF PatchWrite, GoesTo, TypeOK
  <2>4. CASE file' = Length
    BY <1>6, <2>2, <2>3, <2>4 DEF PatchWrite, GoesTo, TypeOK
  <2>5. CASE file' # Length
    BY <1>6, <2>2, <2>3, <2>5 DEF PatchWrite, GoesTo, TypeOK
  <2> QED BY <2>4, <2>5
<1>7. ASSUME NEW u \in Uploads, Cancel(u) PROVE TypedInv'
  <2>1. UrlsIssued'
    BY <1>7, UrlsStay DEF Cancel, GoesTo, TypeOK
  <2> QED
    BY <1>7, <2>1 DEF Cancel, GoesTo, TypeOK
<1>8. CASE Cleanup \/ Tick
  <2>1. UrlsIssued'
    BY <1>8, UrlsStay DEF Cleanup, Tick, TypeOK
  <2> QED
    BY <1>8, <2>1 DEF Cleanup, ClearExpired, Tick, TypeOK
<1>9. CASE Restart
  <2>1. UrlsIssued'
    BY <1>9, UrlsStay DEF Restart, TypeOK
  <2> QED
    BY <1>9, <2>1 DEF Restart, ClearExpired, TypeOK
<1>10. CASE UNCHANGED vars
  <2>1. UrlsIssued'
    BY <1>10, UrlsStay DEF vars, TypeOK
  <2> QED
    BY <1>10, <2>1 DEF vars, TypeOK
<1> QED
  BY <1>1, <1>2, <1>3, <1>4, <1>5, <1>6, <1>7, <1>8, <1>9, <1>10 DEF Next

(***************************************************************************)
(* Every variable of the session keeps its type; a file grows only under   *)
(* the one upload that is being received, and no further than its length.  *)
(***************************************************************************)
THEOREM TypeCorrect == Spec => []TypeOK
<1>1. TypedInv => TypeOK
  BY DEF TypedInv
<1> QED
  BY <1>1, TypedInit, TypedStep, PTL DEF Spec

---------------------------------------------------------------------------
(***************************************************************************)
(* For every lifetime, clock and size: the URLs of the control plane work  *)
(* as long as they should, and stop.                                       *)
(***************************************************************************)
THEOREM UrlsLast == Spec => []IssuedUrlsLast
<1>1. ASSUME TypeOK PROVE IssuedUrlsLast
  <2> SUFFICES ASSUME NEW t \in 0 .. now, NEW size \in Sizes, NEW key \in Keys,
                      InQuery[key] = key,
                      NEW issued \in {UploadUrl(key, size, t), DownloadUrl(key, size, t)}
               PROVE  /\ now - t <= Second * Lifetime => Served(issued, now)
                      /\ now - t >= Second * (Lifetime + 1) => ~Served(issued, now)
    BY DEF IssuedUrlsLast
  <2>1. /\ now \in Nat /\ t \in Nat /\ size \in Nat \ {0}
        /\ Second \in Nat \ {0} /\ Lifetime \in Nat
    BY <1>1, SessionAssumption, UrlAssumption DEF TypeOK
  <2>2. issued \in Issued(key)
    BY <2>1 DEF Issued
  <2>3. issued.exp = t \div Second + Lifetime
    BY DEF UploadUrl, DownloadUrl, GeneratePresignedUrl, Url
  <2>4. Served(issued, now) <=> ~(now \div Second > issued.exp)
    BY <2>1, <2>2, ServedUntilExpiry DEF IsExpired
  <2>5. ASSUME now - t <= Second * Lifetime PROVE Served(issued, now)
    <3>1. now \div Second <= t \div Second + Lifetime
      BY <2>1, <2>5, RoundedEarly
    <3>2. now \div Second \in Nat /\ t \div Second \in Nat
      BY <2>1, Rounding
    <3> QED BY <2>1, <2>3, <2>4, <3>1, <3>2
  <2>6. ASSUME now - t >= Second * (Lifetime + 1) PROVE ~Served(issued, now)
    BY <2>1, <2>3, <2>4, <2>6, RoundedLate
  <2> QED
    BY <2>5, <2>6
<1> QED
  BY <1>1, TypeCorrect, PTL

---------------------------------------------------------------------------
(* The clean-up. *)

LEMMA NowIsDatetime ==
  ASSUME TypeOK
  PROVE  now \div Second \in Nat /\ DatetimeNow = ToDatetime(now \div Second)
<1>1. now \in Nat
  BY SessionAssumption DEF TypeOK
<1> QED
  BY <1>1, Rounding, UrlAssumption DEF DatetimeNow, ToDatetime

---------------------------------------------------------------------------
(* A row with an expiry has it from a URL whose POST was let in.           *)

RowIsBacked ==
  row \in Datetime =>
    /\ InQuery[Object] = Object
    /\ \E u \in Uploads : stage[u] # "new" /\ row = ToDatetime(url[u].exp)

BackedInv == TypedInv /\ RowIsBacked

LEMMA BackedStep == BackedInv /\ [Next]_vars => BackedInv'
<1> SUFFICES ASSUME BackedInv, [Next]_vars PROVE RowIsBacked'
  BY TypedStep DEF BackedInv
<1> USE SessionAssumption DEF BackedInv, RowIsBacked, TypedInv, TypeOK, GoesTo
<1>1. ASSUME NEW u \in Uploads, Issue(u) PROVE RowIsBacked'
  BY <1>1 DEF Issue
<1>2. ASSUME NEW u \in Uploads, Post(u) PROVE RowIsBacked'
  <2>1. InQuery[Object] = Object
    BY <1>2, UrlIsIssued, ServedKeysSurvive DEF Post
  <2> QED
    BY <1>2, <2>1 DEF Post
<1>3. ASSUME NEW u \in Uploads,
             \/ PostRefused(u) \/ CreateFile(u) \/ CreateFails(u)
             \/ ConfigSet(u) \/ PatchStart(u) \/ PatchRefused(u)
      PROVE  RowIsBacked'
  BY <1>3
     DEF PostRefused, CreateFile, CreateFails, ConfigSet, PatchStart, PatchRefused
<1>4. ASSUME NEW u \in Uploads,
             PatchWrite(u) \/ PatchFails(u) \/ SendEnds(u) \/ Cancel(u)
      PROVE  RowIsBacked'
  BY <1>4 DEF PatchWrite, PatchFails, SendEnds, Cancel
<1>5. CASE Cleanup \/ Tick \/ Restart
  BY <1>5 DEF Cleanup, ClearExpired, Tick, Restart
<1>6. CASE UNCHANGED vars
  BY <1>6 DEF vars
<1> QED
  BY <1>1, <1>2, <1>3, <1>4, <1>5, <1>6 DEF Next

(***************************************************************************)
(* A session is never accepted longer than a URL of its object.            *)
(***************************************************************************)
THEOREM SessionsEnd == Spec => []SessionEndsWithItsUrl
<1>1. Init => BackedInv
  BY TypedInit, SessionAssumption DEF Init, BackedInv, RowIsBacked
<1>2. ASSUME BackedInv, ValidateSession = "ok"
      PROVE  \E u \in Uploads : stage[u] # "new" /\ Served(url[u], now)
  <2>1. row \in Datetime /\ now \in Nat /\ ~(now > Second * FromDatetime(row))
    BY <1>2, SessionAssumption, UrlAssumption
       DEF BackedInv, TypedInv, TypeOK, ValidateSession, Found
  <2>2. PICK u \in Uploads : stage[u] # "new" /\ row = ToDatetime(url[u].exp)
    BY <1>2, <2>1 DEF BackedInv, RowIsBacked
  <2>3. url[u] \in Issued(Object) /\ InQuery[Object] = Object
    BY <1>2, <2>1, <2>2, UrlIsIssued DEF BackedInv, TypedInv, RowIsBacked
  <2>4. ~IsExpired(url[u].exp, now)
    <3>1. url[u].exp \in Nat
      BY <1>2, <2>2, ExpiryIsNat DEF BackedInv, TypedInv
    <3>2. now <= Second * url[u].exp
      BY <2>1, <2>2, <3>1, DatetimeKept, UrlAssumption
    <3> QED
      BY <2>1, <3>1, <3>2, RoundedExact, Rounding, UrlAssumption DEF IsExpired
  <2>5. Served(url[u], now)
    BY <2>1, <2>3, <2>4, ServedUntilExpiry, SessionAssumption
  <2> QED
    BY <2>2, <2>5
<1> QED
  BY <1>1, <1>2, BackedStep, PTL DEF Spec, SessionEndsWithItsUrl

---------------------------------------------------------------------------
SweptInv == BackedInv /\ NoSessionOutlivesCleanup

\* What a clean-up leaves, or a POST writes, lasts for this second at least.
LEMMA LastsThisSecond ==
  ASSUME TypeOK, NEW exp \in Nat, ~(exp < now \div Second)
  PROVE  now < Second * (FromDatetime(ToDatetime(exp)) + 1)
<1>1. now \in Nat /\ Second \in Nat \ {0}
  BY SessionAssumption, UrlAssumption DEF TypeOK
<1>2. FromDatetime(ToDatetime(exp)) = exp
  BY DatetimeKept
<1>3. now < Second * (exp + 1)
  <2>1. ASSUME now >= Second * (exp + 1) PROVE FALSE
    <3>1. now \div Second > 0 \div Second + exp
      BY <1>1, <2>1, RoundedLate
    <3>2. 0 \div Second \in Nat /\ now \div Second \in Nat
      BY <1>1, Rounding
    <3> QED BY <3>1, <3>2
  <2> QED BY <1>1, <2>1
<1> QED BY <1>2, <1>3

LEMMA SweptStep == SweptInv /\ [Next]_vars => NoSessionOutlivesCleanup'
<1> SUFFICES ASSUME SweptInv, [Next]_vars PROVE NoSessionOutlivesCleanup'
  OBVIOUS
<1>0. TypeOK /\ now \in Nat /\ swept \in Nat /\ swept <= now
  BY SessionAssumption DEF SweptInv, BackedInv, TypedInv, TypeOK
<1>1. CASE UNCHANGED <<row, swept>> \/ row' \in {NoRow, Null}
  BY <1>1 DEF NoSessionOutlivesCleanup, SweptInv
<1>2. ASSUME ClearExpired PROVE NoSessionOutlivesCleanup'
  <2> SUFFICES ASSUME row' \notin {NoRow, Null}
               PROVE  now < Second * (FromDatetime(row) + 1) /\ row' = row
    BY <1>2 DEF ClearExpired, NoSessionOutlivesCleanup
  <2>1. row' = row /\ ~Expired /\ row \in Datetime
    BY <1>0, <1>2 DEF ClearExpired, TypeOK
  <2>2. PICK u \in Uploads : stage[u] # "new" /\ row = ToDatetime(url[u].exp)
    BY <2>1 DEF SweptInv, BackedInv, RowIsBacked
  <2>3. url[u].exp \in Nat
    BY <1>0, <2>2, ExpiryIsNat
  <2>4. ~(url[u].exp < now \div Second)
    BY <1>0, <2>1, <2>2, <2>3, NowIsDatetime, DatetimesOrdered,
       SessionAssumption DEF Expired
  <2> QED
    BY <1>0, <2>1, <2>2, <2>3, <2>4, LastsThisSecond
<1>3. ASSUME NEW u \in Uploads, Post(u) PROVE NoSessionOutlivesCleanup'
  <2>1. url[u].exp \in Nat /\ row' = ToDatetime(url[u].exp) /\ swept' = swept
    BY <1>0, <1>3, ExpiryIsNat DEF Post
  <2>2. ~(url[u].exp < now \div Second)
    <3>1. ~IsExpired(url[u].exp, now)
      BY <1>3 DEF Post, Served, ValidateRequest, Query
    <3> QED BY <1>0, <2>1, <3>1, NowIsDatetime DEF IsExpired
  <2>3. now < Second * (FromDatetime(ToDatetime(url[u].exp)) + 1)
    BY <1>0, <2>1, <2>2, LastsThisSecond
  <2>4. Second * (FromDatetime(ToDatetime(url[u].exp)) + 1) \in Nat
    BY <2>1, DatetimeKept, UrlAssumption
  <2> QED
    BY <1>0, <2>1, <2>3, <2>4 DEF NoSessionOutlivesCleanup
<1>4. CASE \E u \in Uploads : \/ Issue(u) \/ PostRefused(u) \/ CreateFile(u)
                             \/ CreateFails(u) \/ ConfigSet(u)
  BY <1>1, <1>4 DEF Issue, PostRefused, CreateFile, CreateFails, ConfigSet
<1>5. CASE \E u \in Uploads : \/ PatchStart(u) \/ PatchRefused(u)
                             \/ PatchWrite(u) \/ PatchFails(u)
                             \/ SendEnds(u) \/ Cancel(u)
  BY <1>1, <1>5
     DEF PatchStart, PatchRefused, PatchWrite, PatchFails, SendEnds, Cancel
<1>6. CASE Cleanup \/ Restart
  BY <1>2, <1>6 DEF Cleanup, Restart
<1>7. CASE Tick \/ UNCHANGED vars
  BY <1>1, <1>7 DEF Tick, vars
<1> QED
  BY <1>3, <1>4, <1>5, <1>6, <1>7 DEF Next

(***************************************************************************)
(* clearExpired leaves no session that had expired a second before it, for *)
(* every length of a day and of a URL's life: the text comparison orders   *)
(* the expiries as numbers would.                                          *)
(***************************************************************************)
THEOREM CleanupsSuffice == Spec => []NoSessionOutlivesCleanup
<1>1. Init => SweptInv
  BY TypedInit, SessionAssumption
     DEF Init, SweptInv, BackedInv, RowIsBacked, NoSessionOutlivesCleanup
<1>2. SweptInv /\ [Next]_vars => SweptInv'
  BY BackedStep, SweptStep DEF SweptInv
<1>3. SweptInv => NoSessionOutlivesCleanup
  BY DEF SweptInv
<1> QED
  BY <1>1, <1>2, <1>3, PTL DEF Spec

---------------------------------------------------------------------------
(* The row of the upload being received keeps the expiry of its URL until  *)
(* that has passed.  No send can take the row away meanwhile.              *)

ReceiverIsLatest == \A u \in Uploads : Receiving(u) => u = latest
NoSendMeanwhile ==
  \A u, v \in Uploads : Receiving(u) => stage[v] # "sending"
RowIsKept ==
  \A u \in Uploads :
    Receiving(u) => row = ToDatetime(url[u].exp) \/ IsExpired(url[u].exp, now)

KeptInv == TypedInv /\ ReceiverIsLatest /\ NoSendMeanwhile /\ RowIsKept

LEMMA KeptStep ==
  ASSUME AwaitSend
  PROVE  KeptInv /\ [Next]_vars => KeptInv'
<1> SUFFICES ASSUME KeptInv, [Next]_vars
             PROVE  ReceiverIsLatest' /\ NoSendMeanwhile' /\ RowIsKept'
  BY TypedStep DEF KeptInv
<1> DEFINE Goal == ReceiverIsLatest' /\ NoSendMeanwhile' /\ RowIsKept'
<1> USE SessionAssumption
        DEF KeptInv, TypedInv, TypeOK, OneReceiver, Receiving,
            ReceiverIsLatest, NoSendMeanwhile, RowIsKept, GoesTo
<1>0. ASSUME ClearExpired, NEW u \in Uploads, Receiving(u)
      PROVE  row' = ToDatetime(url[u].exp) \/ IsExpired(url[u].exp, now)
  <2>1. CASE row = ToDatetime(url[u].exp) /\ Expired
    <3>1. url[u].exp < now \div Second
      BY <1>0, <2>1, ExpiryIsNat, NowIsDatetime, DatetimesOrdered
         DEF Expired
    <3> QED BY <3>1, <1>0, ExpiryIsNat, NowIsDatetime DEF IsExpired
  <2> QED
    BY <1>0, <2>1 DEF ClearExpired
<1>1. ASSUME NEW u \in Uploads, Issue(u) PROVE Goal
  BY <1>1 DEF Issue
<1>2. ASSUME NEW u \in Uploads, Post(u) PROVE Goal
  BY <1>2 DEF Post
<1>3. ASSUME NEW u \in Uploads,
             PostRefused(u) \/ CreateFails(u) \/ PatchRefused(u)
      PROVE  Goal
  BY <1>3 DEF PostRefused, CreateFails, PatchRefused
<1>4. ASSUME NEW u \in Uploads, CreateFile(u) PROVE Goal
  BY <1>4 DEF CreateFile
<1>5. ASSUME NEW u \in Uploads, ConfigSet(u) PROVE Goal
  <2>1. row = NoRow => row # ToDatetime(url[u].exp)
    BY <1>5, ExpiryIsNat, DatetimeKept DEF ConfigSet
  <2> QED
    BY <1>5, <2>1 DEF ConfigSet
<1>6. ASSUME NEW u \in Uploads, PatchStart(u) \/ PatchFails(u) PROVE Goal
  BY <1>6 DEF PatchStart, PatchFails
<1>7. ASSUME NEW u \in Uploads, PatchWrite(u) PROVE Goal
  <2>1. stage[u] = "open"
    BY <1>7 DEF PatchWrite, PatchIsOpen
  <2>2. CASE file' = Length
    BY <1>7, <2>1, <2>2 DEF PatchWrite
  <2>3. CASE file' # Length
    BY <1>7, <2>3 DEF PatchWrite
  <2> QED BY <2>2, <2>3
<1>8. ASSUME NEW u \in Uploads, SendEnds(u) \/ Cancel(u) PROVE Goal
  BY <1>8 DEF SendEnds, Cancel
<1>9. CASE Cleanup
  BY <1>9, <1>0 DEF Cleanup
<1>10. CASE Tick
  <2> SUFFICES ASSUME NEW u \in Uploads, Receiving(u),
                      IsExpired(url[u].exp, now)
               PROVE  IsExpired(url[u].exp, now + 1)
    BY <1>10 DEF Tick
  <2>1. url[u].exp \in Nat /\ now \in Nat /\ Second \in Nat \ {0}
    BY ExpiryIsNat, UrlAssumption
  <2> QED
    BY <2>1, RoundedMonotone, Rounding DEF IsExpired
<1>11. CASE Restart
  BY <1>11, <1>0 DEF Restart
<1>12. CASE UNCHANGED vars
  BY <1>12 DEF vars
<1> QED
  BY <1>1, <1>2, <1>3, <1>4, <1>5, <1>6, <1>7, <1>8, <1>9, <1>10, <1>11, <1>12
     DEF Next

(***************************************************************************)
(* The session of the last upload is good until it expires, if no upload   *)
(* of the object begins during a send and the path gives the key back.     *)
(***************************************************************************)
THEOREM AuthorisedSafe ==
  ASSUME AwaitSend, InPath[Object] = InQuery[Object]
  PROVE  Spec => []AuthorisedUntilExpiry
<1>1. Init => KeptInv
  BY TypedInit
     DEF Init, KeptInv, ReceiverIsLatest, NoSendMeanwhile, RowIsKept, Receiving
<1>2. ASSUME KeptInv, NEW u \in Uploads, stage[u] = "open",
             now <= Second * url[u].exp
      PROVE  ValidateSession = "ok"
  <2>1. url[u].exp \in Nat /\ now \in Nat /\ Second \in Nat \ {0}
    BY <1>2, ExpiryIsNat, SessionAssumption, UrlAssumption
       DEF KeptInv, TypedInv, TypeOK
  <2>2. ~IsExpired(url[u].exp, now)
    BY <1>2, <2>1, RoundedExact, Rounding DEF IsExpired
  <2>3. row \in Datetime /\ FromDatetime(row) = url[u].exp
    BY <1>2, <2>1, <2>2, DatetimeKept DEF KeptInv, RowIsKept, Receiving
  <2> QED
    BY <1>2, <2>1, <2>3, SessionAssumption DEF ValidateSession, Found
<1> QED
  <2>1. KeptInv => AuthorisedUntilExpiry
    BY <1>2 DEF AuthorisedUntilExpiry
  <2>2. KeptInv /\ [Next]_vars => KeptInv'
    BY KeptStep
  <2> QED
    BY <1>1, <2>1, <2>2, PTL DEF Spec
=============================================================================
