---------------------------- MODULE MCMultipart ----------------------------
(* Two parts, the second of them sent twice (m1 and m2 are its PUTs). *)
EXTENDS MultipartUpload, TLC

CONSTANTS p1, m1, m2, c1, c2

MCPuts == {p1, m1, m2}
MCPartOf == p1 :> 1 @@ m1 :> 2 @@ m2 :> 2
MCCompletes == {c1, c2}
MCTwoPuts == {p1, m1}
MCTwoPartOf == p1 :> 1 @@ m1 :> 2
MCOnePut == {p1}
MCOnePartOf == p1 :> 1
=============================================================================
