-------------------------- MODULE MetricsDelivery ---------------------------
(* What the System Metrics queue promises its producers: a committed         *)
(* artifact is pending until the web app has stored it, or until it is       *)
(* rejected as invalid; it never goes back and it never disappears.          *)
CONSTANTS Artifacts, Oversized

VARIABLE phase

Phase == {"none", "pending", "received", "rejected"}

Init == phase = [a \in Artifacts |-> "none"]

Accept(a) ==
    /\ phase[a] = "none"
    /\ phase' = [phase EXCEPT ![a] = "pending"]

Deliver(a) ==
    /\ phase[a] = "pending"
    /\ a \notin Oversized
    /\ phase' = [phase EXCEPT ![a] = "received"]

Reject(a) ==
    /\ phase[a] = "pending"
    /\ a \in Oversized
    /\ phase' = [phase EXCEPT ![a] = "rejected"]

Next == \E a \in Artifacts : Accept(a) \/ Deliver(a) \/ Reject(a)

Spec == Init /\ [][Next]_phase

=============================================================================
