--------------------------- MODULE MCOfflineSync ---------------------------
(* Small instances of OfflineSync: one level with one version. *)
EXTENDS OfflineSync, TLC

CONSTANTS u1, u2, l1, a1, a2, d1, d2, v1, h1

mcKeys == Attempts \X (Diffs \cup {None})
mcLevelOf == [v \in Versions |-> l1]
mcNumberOf == [v \in Versions |-> 1]
mcDiffsOf == [v \in Versions |-> Diffs]
mcScoreOf == [v \in Versions |-> [h \in HintCount |-> 1]]
AttemptSymmetry == Permutations(Attempts)
NoVersions == {}
NoResets == {}
=============================================================================
