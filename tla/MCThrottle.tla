---------------------------- MODULE MCThrottle ----------------------------
(* Sizes below and at the limit; streams up to one more than a poll takes. *)
EXTENDS DiskActivity

CONSTANTS w1, w2

MCWriters == {w1, w2}
MCSizes == {0, 2}
=============================================================================
