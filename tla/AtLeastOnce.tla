----------------------------- MODULE AtLeastOnce -----------------------------
(***************************************************************************)
(* What the transactional outbox promises, without relays, locks or        *)
(* notifications: an event recorded with its state change is delivered any *)
(* number of times, and is reported as published only after a delivery.    *)
(***************************************************************************)
CONSTANT Events

VARIABLES
    status,    \* per event: "NONE", "PENDING", "PUBLISHED" or "FAILED"
    delivered  \* events delivered at least once

vars == <<status, delivered>>

Init ==
    /\ status = [e \in Events |-> "NONE"]
    /\ delivered = {}

Record(e) ==
    /\ status[e] = "NONE"
    /\ status' = [status EXCEPT ![e] = "PENDING"]
    /\ UNCHANGED delivered

Deliver(e) ==
    /\ status[e] # "NONE"
    /\ delivered' = delivered \cup {e}
    /\ UNCHANGED status

Publish(e) ==
    /\ e \in delivered
    /\ status' = [status EXCEPT ![e] = "PUBLISHED"]
    /\ UNCHANGED delivered

\* A relay may give up an event it has delivered, or that another has.
GiveUp(e) ==
    /\ status[e] # "NONE"
    /\ status' = [status EXCEPT ![e] = "FAILED"]
    /\ UNCHANGED delivered

Next == \E e \in Events : Record(e) \/ Deliver(e) \/ Publish(e) \/ GiveUp(e)

Spec == Init /\ [][Next]_vars
=============================================================================
