---------------------------- MODULE PresignedUrl ----------------------------
(***************************************************************************)
(* Presigned URLs: the control plane signs one canonical string and writes *)
(* its parts into a URL, a storage node reads them back and signs the same *)
(* string again.  Neither keeps state; both look at a clock, which ticks   *)
(* here several times per second because the node rounds it down and the   *)
(* session store does not.                                                 *)
(***************************************************************************)
EXTENDS Naturals

CONSTANTS Second,         \* ticks of the clock per second
          Lifetime,       \* seconds from the issue of a URL to its expiry
          ResumableSize,  \* uploads of this size and more are resumable
          Keys,           \* bucket and object key
          InQuery,        \* the key a node reads where a key was written raw
          Secret, Missing

ASSUME UrlAssumption ==
  /\ Second \in Nat \ {0} /\ Lifetime \in Nat /\ ResumableSize \in Nat
  /\ Missing \notin Keys \cup Nat \cup {"PUT", "GET", "POST"}

\* HMAC-SHA256, taken to be injective.
Hmac(secret, data) == <<secret, data>>

---------------------------------------------------------------------------
\* The control plane.

GenerateSignature(key, method, exp, size) ==
  Hmac(Secret, <<key, method, exp, size>>)

Url(path, key, method, exp, size) ==
  [path |-> path, objectKey |-> key, method |-> method, exp |-> exp,
   fileSize |-> size, signature |-> GenerateSignature(key, method, exp, size)]

\* A slip: the expiry in the ticks of the clock.
UrlInTicks(path, key, size, method, t) ==
  Url(path, key, method, t + Second * Lifetime, size)

GeneratePresignedUrl(path, key, size, method, t) ==
  Url(path, key, method, t \div Second + Lifetime, size)

IsResumableSize(size) == size >= ResumableSize

UploadUrl(key, size, t) ==
  IF IsResumableSize(size)
  THEN GeneratePresignedUrl("resumable", key, size, "POST", t)
  ELSE GeneratePresignedUrl("direct", key, size, "PUT", t)

DownloadUrl(key, size, t) ==
  GeneratePresignedUrl("direct", key, size, "GET", t)

---------------------------------------------------------------------------
\* The storage node.

\* The query parser decodes what the control plane has not encoded.
Query(url) == [url EXCEPT !.objectKey = InQuery[url.objectKey]]

IsExpired(exp, t) == t \div Second > exp

VerifySignature(q) ==
  q.signature = Hmac(Secret, <<q.objectKey, q.method, q.exp, q.fileSize>>)

\* Every check passes; a request that fails one changes nothing.  A missing
\* signature is a wrong one.
ValidateRequest(q, expected, t) ==
  /\ Missing \notin {q.objectKey, q.method, q.exp}
  /\ ~IsExpired(q.exp, t)
  /\ q.method = expected
  /\ q.fileSize \in Nat \ {0}
  /\ VerifySignature(q)

Routes == {<<"direct", "PUT">>, <<"direct", "GET">>, <<"resumable", "POST">>}

\* The node has a route for the URL, whose handler lets the request in.
Served(url, t) ==
  /\ <<url.path, url.method>> \in Routes
  /\ ValidateRequest(Query(url), url.method, t)
=============================================================================
