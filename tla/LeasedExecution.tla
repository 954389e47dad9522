--------------------------- MODULE LeasedExecution ---------------------------
(***************************************************************************)
(* What the lock of an intervention and the unique key of its outcome      *)
(* promise together, without jobs, attempts, case states or transactions:  *)
(* whoever takes the free lease of a case may call the provider once, the  *)
(* lease is only ever ended from outside, and what the provider answered   *)
(* is stored once, after a call.  A holder whose lease was ended under it  *)
(* keeps its permit: the lease bounds how many may call, not when.         *)
(***************************************************************************)
EXTENDS Naturals

CONSTANTS Cases, Workers, Nobody

VARIABLES
    lease,  \* per case: "free" or "taken"
    permit, \* per worker: the case it may call the provider for, or Nobody
    calls,  \* per case: how many calls there were
    result  \* per case: the stored result, "NONE" as long as there is none

vars == <<lease, permit, calls, result>>

Results == {"SUCCEEDED", "FAILED", "AMBIGUOUS"}

Init ==
    /\ lease = [c \in Cases |-> "free"]
    /\ permit = [w \in Workers |-> Nobody]
    /\ calls = [c \in Cases |-> 0]
    /\ result = [c \in Cases |-> "NONE"]

Acquire(w, c) ==
    /\ lease[c] = "free"
    /\ permit[w] = Nobody
    /\ lease' = [lease EXCEPT ![c] = "taken"]
    /\ permit' = [permit EXCEPT ![w] = c]
    /\ UNCHANGED <<calls, result>>

\* The permit is used up with the call.
Call(w) ==
    /\ permit[w] \in Cases
    /\ permit' = [permit EXCEPT ![w] = Nobody]
    /\ calls' = [calls EXCEPT ![permit[w]] = @ + 1]
    /\ UNCHANGED <<lease, result>>

\* A holder dies or fails before its call; the lease stays taken.
Abandon(w) ==
    /\ permit[w] \in Cases
    /\ permit' = [permit EXCEPT ![w] = Nobody]
    /\ UNCHANGED <<lease, calls, result>>

Expire(c) ==
    /\ lease[c] = "taken"
    /\ lease' = [lease EXCEPT ![c] = "free"]
    /\ UNCHANGED <<permit, calls, result>>

Store(c) ==
    /\ result[c] = "NONE"
    /\ calls[c] > 0
    /\ \E r \in Results : result' = [result EXCEPT ![c] = r]
    /\ UNCHANGED <<lease, permit, calls>>

Next ==
    \/ \E w \in Workers : (\E c \in Cases : Acquire(w, c)) \/ Call(w) \/ Abandon(w)
    \/ \E c \in Cases : Expire(c) \/ Store(c)

Spec == Init /\ [][Next]_vars
=============================================================================
