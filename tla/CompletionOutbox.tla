-------------------------- MODULE CompletionOutbox --------------------------
(* What the clients promise of a level played through: once its completion  *)
(* is handed to the sync queue, it is counted by the server or refused by   *)
(* it, and in the end one of the two, whatever happens to the device, the   *)
(* network and the session in between.  It is never silently given up, and  *)
(* what is counted stays counted.                                           *)
CONSTANT Attempts

VARIABLE fate

Fates == {"open", "waiting", "counted", "refused"}

Init == fate = [a \in Attempts |-> "open"]

Submit(a) == fate[a] = "open" /\ fate' = [fate EXCEPT ![a] = "waiting"]

\* A copy sent earlier may still be counted after a later one was refused.
Count(a) ==
    /\ fate[a] \in {"waiting", "refused"}
    /\ fate' = [fate EXCEPT ![a] = "counted"]

Refuse(a) == fate[a] = "waiting" /\ fate' = [fate EXCEPT ![a] = "refused"]

Settle(a) == Count(a) \/ Refuse(a)

Next == \E a \in Attempts : Submit(a) \/ Settle(a)

Safety == Init /\ [][Next]_fate

Spec ==
    /\ Safety
    /\ \A a \in Attempts : WF_fate(Settle(a) /\ fate[a] = "waiting")
=============================================================================
