--------------------------- MODULE MCReplication ---------------------------
(* Instances of ObjectReplication: which uploads there are, of which object *)
(* and by which path.                                                       *)
EXTENDS ReplicationInvariant, TLC

CONSTANTS u1, u2, u3, k1, k2

OneUpload   == {u1}
TwoUploads  == {u1, u2}
AllUploads  == {u1, u2, u3}

SameObject1 == [u \in OneUpload |-> k1]
SameObject2 == [u \in TwoUploads |-> k1]
SameObject3 == [u \in AllUploads |-> k1]
TwoObjects  == [u \in TwoUploads |-> IF u = u1 THEN k1 ELSE k2]

EachPath    == [u \in AllUploads |-> CASE u = u1 -> "direct"
                                       [] u = u2 -> "multipart"
                                       [] u = u3 -> "resumable"]
DirectThenMultipart == [u \in TwoUploads |-> IF u = u1 THEN "direct"
                                                       ELSE "multipart"]
DirectAndResumable == [u \in TwoUploads |-> IF u = u1 THEN "direct"
                                                      ELSE "resumable"]
JustDirect    == [u \in OneUpload |-> "direct"]
JustResumable == [u \in OneUpload |-> "resumable"]

\* Polls and slots are interchangeable (safety runs only).
Symmetry == Permutations(Polls) \cup Permutations(Slots)
=============================================================================
