-------------------------- MODULE MCContentWorker --------------------------
(* Small instances of ContentWorker. *)
EXTENDS ContentWorker

CONSTANTS w1, w2, s1, s2
=============================================================================
