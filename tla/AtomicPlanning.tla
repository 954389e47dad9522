---------------------------- MODULE AtomicPlanning ----------------------------
(***************************************************************************)
(* What the transactions of PrismaPlanningRepository promise, without      *)
(* versions, reads, callers and policies: a plan is stored once and in one *)
(* step with the state its case moves to; an approved plan is enqueued     *)
(* once and in one step with QUEUED, while its case is POLICY_CHECKED.     *)
(* That a plan is stored asks for no state of its case: the transaction    *)
(* looks at the version only.                                              *)
(***************************************************************************)

CONSTANTS
    Cases,
    Plans,        \* possible plans: tuples that begin with their case
    WorkerResults \* states an execution may leave its case in

VARIABLES
    state, \* per case
    plan,  \* per plan: what was decided, or "none"
    events \* plans that have been enqueued

vars == <<state, plan, events>>

CaseOf(k) == k[1]

\* What is stored of a plan, and the state its case moves to.
Outcomes == {<<"approved", "POLICY_CHECKED">>, <<"human", "ESCALATED">>,
             <<"rejected", "ESCALATED">>, <<"rejected", "STOPPED">>,
             <<"rejected", "RETRYABLE">>}

Init ==
    /\ state = [c \in Cases |-> "DETECTED"]
    /\ plan = [k \in Plans |-> "none"]
    /\ events = {}

Plan(k) ==
    /\ plan[k] = "none"
    /\ \E o \in Outcomes :
         /\ plan' = [plan EXCEPT ![k] = o[1]]
         /\ state' = [state EXCEPT ![CaseOf(k)] = o[2]]
    /\ UNCHANGED events

Enqueue(k) ==
    /\ plan[k] = "approved"
    /\ k \notin events
    /\ state[CaseOf(k)] = "POLICY_CHECKED"
    /\ state' = [state EXCEPT ![CaseOf(k)] = "QUEUED"]
    /\ events' = events \cup {k}
    /\ UNCHANGED plan

Recover(c) ==
    /\ state[c] \notin {"RECOVERED", "FAILED", "STOPPED"}
    /\ state' = [state EXCEPT ![c] = "RECOVERED"]
    /\ UNCHANGED <<plan, events>>

Execute(c) ==
    /\ state[c] = "QUEUED"
    /\ \E s \in WorkerResults : state' = [state EXCEPT ![c] = s]
    /\ UNCHANGED <<plan, events>>

Next ==
    \/ \E k \in Plans : Plan(k) \/ Enqueue(k)
    \/ \E c \in Cases : Recover(c) \/ Execute(c)

Spec == Init /\ [][Next]_vars
=============================================================================
