---------------------------- MODULE MCSession ----------------------------
(***************************************************************************)
(* Three uploads of one object, one after the other.  The key "plain" is   *)
(* the same wherever it is read, "plus" has a '+' in it, which a query     *)
(* makes a space, and "accent" is percent-encoded in a path.               *)
(***************************************************************************)
EXTENDS ResumableSession, TLC

CONSTANTS u1, u2, u3, plain, plus, accent, blank, encoded

MCUploads == {u1, u2, u3}

\* The uploads are interchangeable.
Symmetry == Permutations(MCUploads)

MCKeys == {plain, plus, accent}
MCInQuery == [k \in MCKeys |-> IF k = plus THEN blank ELSE k]
MCInPath == [k \in MCKeys |-> IF k = accent THEN encoded ELSE k]
=============================================================================
