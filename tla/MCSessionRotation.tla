------------------------- MODULE MCSessionRotation -------------------------
(* Small instances of SessionRotation. *)
EXTENDS SessionRotation, TLC

CONSTANTS s1, s2, s3, s4, t1, t2

Interchangeable == Permutations(Sessions) \cup Permutations(Tasks)
=============================================================================
