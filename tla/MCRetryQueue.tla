---------------------------- MODULE MCRetryQueue ----------------------------
(* Three rows and a batch of two: a line the batch does not empty. *)
EXTENDS RetryQueue
=============================================================================
