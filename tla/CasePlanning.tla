----------------------------- MODULE CasePlanning -----------------------------
(***************************************************************************)
(* The planning half of the recovery pipeline: createPlan and enqueuePlan  *)
(* of PlanningService with the transactions of PrismaPlanningRepository,   *)
(* and everybody who calls them: the orchestrator's cron, the webhook for  *)
(* a failed payment and an operator.                                       *)
(*                                                                         *)
(* A proposal is computed from a case read before the transaction that     *)
(* stores it.  The transaction reads the case again and updates it "WHERE  *)
(* version = <the version it read>", in three steps: read the case, look   *)
(* for an existing row, write.                                             *)
(***************************************************************************)
EXTENDS Naturals, FiniteSets

CONSTANTS
    NumCases,      \* cases, numbered by createdAt
    Crons,         \* API processes that run CaseOrchestratorService
    Requests,      \* concurrent webhook jobs and operator requests
    Interventions, \* intervention types a proposal may recommend
    Decisions,     \* what evaluating the policy may answer
    WorkerResults, \* states the execution worker may leave a queued case in
    Take,          \* cases one cron pass takes on ("take: 20")
    Policies,      \* values of the merchant's policyVersion
    FirstPolicy,   \* the one the cases are detected under
    MaxExternal,   \* bound: captured payments and policy updates
    MaxFaults      \* bound: crashes and failed calls

ASSUME PlanningConstants ==
    /\ NumCases \in Nat
    /\ Crons \cap Requests = {}
    /\ Decisions \subseteq {"approved", "human", "stop", "escalate", "later"}
    /\ WorkerResults \subseteq {"RECOVERED", "FAILED", "STOPPED", "ESCALATED",
                                "AWAITING_CUSTOMER_ACTION", "AMBIGUOUS", "DETECTED"}
    /\ Take \in Nat \ {0}
    /\ FirstPolicy \in Policies
    /\ MaxExternal \in Nat
    /\ MaxFaults \in Nat

VARIABLES
    case,     \* RevenueCase rows: state and version
    policy,   \* policyVersion in the merchant's configJson
    plan,     \* RecoveryPlan rows, by idempotency key
    outbox,   \* plans with an OutboxEvent row (idempotencyKey is unique)
    planner,  \* per cron and request: where its call is
    external, \* captured payments and policy updates so far
    faults    \* faults so far

vars == <<case, policy, plan, outbox, planner, external, faults>>

-----------------------------------------------------------------------------
(* Values *)

Cases    == 1..NumCases
Planners == Crons \cup Requests

CaseState == {"DETECTED", "RETRYABLE", "POLICY_CHECKED", "QUEUED"} \cup WorkerResults
             \cup {"STOPPED", "ESCALATED", "RECOVERED"}

\* The states a plan may be proposed in.
Open == {"DETECTED", "RETRYABLE"}

\* `${caseId}_${policyVersion}_${recommended}_${attemptCount + 1}`, where
\* attemptCount stays 0.  The key also identifies the plan.
PlanKey == Cases \X Policies \X Interventions
NoKey   == <<>>
CaseOf(k) == k[1]

\* POLICY_APPROVED without and with requiresHumanApproval, POLICY_REJECTED.
PlanRow == {"none", "approved", "human", "rejected"}

PC == {"idle", "nextCase", "load", "loadPolicy", "propose", "read", "check", "write",
       "enqueue", "enqueueRead", "enqueueCheck", "enqueueWrite"}

Planner == [pc : PC, todo : SUBSET Cases, case : Cases \cup {0}, policy : Policies,
            key : PlanKey \cup {NoKey}, decision : Decisions \cup {"none"}, seen : Nat]

Idle == [pc |-> "idle", todo |-> {}, case |-> 0, policy |-> FirstPolicy,
         key |-> NoKey, decision |-> "none", seen |-> 0]

TypeOK ==
    /\ case \in [Cases -> [state : CaseState, version : Nat]]
    /\ policy \in Policies
    /\ plan \in [PlanKey -> PlanRow]
    /\ outbox \subseteq PlanKey
    /\ planner \in [Planners -> Planner]
    /\ \A p \in Planners :
         /\ planner[p].pc \notin {"idle", "nextCase"} => planner[p].case \in Cases
         /\ planner[p].pc \in {"read", "check", "write", "enqueue", "enqueueRead",
                               "enqueueCheck", "enqueueWrite"}
              => planner[p].key \in PlanKey
    /\ external \in 0..MaxExternal
    /\ faults \in 0..MaxFaults

\* Ingestion has created the cases.
Init ==
    /\ case = [c \in Cases |-> [state |-> "DETECTED", version |-> 1]]
    /\ policy = FirstPolicy
    /\ plan = [k \in PlanKey |-> "none"]
    /\ outbox = {}
    /\ planner = [p \in Planners |-> Idle]
    /\ external = 0
    /\ faults = 0

-----------------------------------------------------------------------------
(* Helpers *)

\* The state a case is moved to by a decision.
ResolvePlanningOutcome(decision) ==
    CASE decision = "approved"             -> "POLICY_CHECKED"
      [] decision \in {"human", "escalate"} -> "ESCALATED"
      [] decision = "stop"                 -> "STOPPED"
      [] decision = "later"                -> "RETRYABLE"

\* What the plan row says of it.
PlanStatus(decision) == IF decision \in {"approved", "human"} THEN decision ELSE "rejected"

Transition(c, seen, next) == case' = [case EXCEPT ![c] = [state |-> next, version |-> seen + 1]]

Goto(p, pc) == planner' = [planner EXCEPT ![p].pc = pc]

\* The call has returned or thrown: a cron goes on to its next case, a request
\* ends.
Done(p) == planner' = [planner EXCEPT ![p] =
    IF p \in Crons THEN [Idle EXCEPT !.pc = "nextCase", !.todo = planner[p].todo] ELSE Idle]

\* createPlan has answered with the plan stored under key: a cron enqueues it
\* if the proposal it has just made was approved.
Planned(p) ==
    IF p \in Crons /\ planner[p].decision = "approved"
      THEN planner' = [planner EXCEPT ![p].pc = "enqueue", ![p].seen = 0]
      ELSE Done(p)

-----------------------------------------------------------------------------
(* Callers *)

\* CaseOrchestratorService.handleCron takes the oldest open cases ...
ListCases(p) ==
    LET open   == {c \in Cases : case[c].state \in Open}
        oldest == {c \in open : Cardinality({d \in open : d < c}) < Take}
    IN
    /\ p \in Crons
    /\ planner[p].pc = "idle"
    /\ oldest # {}
    /\ planner' = [planner EXCEPT ![p].pc = "nextCase", ![p].todo = oldest]
    /\ UNCHANGED <<case, policy, plan, outbox, external, faults>>

\* ... and handles one after the other, each under the policy of the moment.
Handle(p, c) ==
    /\ c \in planner[p].todo
    /\ \A d \in planner[p].todo : c <= d
    /\ planner' = [planner EXCEPT ![p] =
         [Idle EXCEPT !.pc = "load", !.todo = planner[p].todo \ {c}, !.case = c,
                      !.policy = policy]]

\* Mutant: isProcessing is not reset at the end of a pass.
NextCaseKeepsFlag(p) ==
    /\ planner[p].pc = "nextCase"
    /\ \E c \in Cases : Handle(p, c)
    /\ UNCHANGED <<case, policy, plan, outbox, external, faults>>

\* After the last one isProcessing is reset.
NextCase(p) ==
    /\ planner[p].pc = "nextCase"
    /\ \/ \E c \in Cases : Handle(p, c)
       \/ planner[p].todo = {} /\ planner' = [planner EXCEPT ![p] = Idle]
    /\ UNCHANGED <<case, policy, plan, outbox, external, faults>>

\* A payment.failed webhook asks for the policy of the moment, an operator's
\* POST plans for any.
RequestPlan(p) ==
    /\ p \in Requests
    /\ planner[p].pc = "idle"
    /\ \E c \in Cases, version \in Policies :
         planner' = [planner EXCEPT ![p].pc = "load", ![p].case = c, ![p].policy = version]
    /\ UNCHANGED <<case, policy, plan, outbox, external, faults>>

\* An operator's POST plans/:planId/enqueue.
RequestEnqueue(p) ==
    /\ p \in Requests
    /\ planner[p].pc = "idle"
    /\ \E k \in PlanKey :
         /\ plan[k] # "none"
         /\ planner' = [planner EXCEPT ![p].pc = "enqueue", ![p].case = CaseOf(k), ![p].key = k]
    /\ UNCHANGED <<case, policy, plan, outbox, external, faults>>

-----------------------------------------------------------------------------
(* PlanningService.createPlan *)

\* It reads the case: proposeRecoveryPlan will throw unless it is open.
Load(p) ==
    /\ planner[p].pc = "load"
    /\ IF case[planner[p].case].state \in Open THEN Goto(p, "loadPolicy") ELSE Done(p)
    /\ UNCHANGED <<case, policy, plan, outbox, external, faults>>

\* It reads the merchant's policy: the version must be the one asked for.
LoadPolicy(p) ==
    /\ planner[p].pc = "loadPolicy"
    /\ IF policy = planner[p].policy THEN Goto(p, "propose") ELSE Done(p)
    /\ UNCHANGED <<case, policy, plan, outbox, external, faults>>

\* The workflow recommends an intervention and evaluates the policy for it.
Propose(p) ==
    /\ planner[p].pc = "propose"
    /\ \E i \in Interventions, decision \in Decisions :
         planner' = [planner EXCEPT ![p].pc = "read", ![p].decision = decision,
                       ![p].key = <<planner[p].case, planner[p].policy, i>>]
    /\ UNCHANGED <<case, policy, plan, outbox, external, faults>>

\* createPlanWithPlanningOutcome reads the case again, but only its version.
Read(p) ==
    /\ planner[p].pc = "read"
    /\ planner' = [planner EXCEPT ![p].pc = "check",
                                  ![p].seen = case[planner[p].case].version]
    /\ UNCHANGED <<case, policy, plan, outbox, external, faults>>

\* Mutant: a replay moves the case, too.
CheckMovesCase(p) ==
    LET c == planner[p].case IN
    /\ planner[p].pc = "check"
    /\ IF plan[planner[p].key] = "none"
         THEN Goto(p, "write") /\ UNCHANGED case
         ELSE /\ IF case[c].version = planner[p].seen
                   THEN Transition(c, planner[p].seen, ResolvePlanningOutcome(planner[p].decision))
                   ELSE UNCHANGED case
              /\ Planned(p)
    /\ UNCHANGED <<policy, plan, outbox, external, faults>>

\* An existing plan with this key is the answer, and nothing is written.
Check(p) ==
    /\ planner[p].pc = "check"
    /\ IF plan[planner[p].key] = "none" THEN Goto(p, "write") ELSE Planned(p)
    /\ UNCHANGED <<case, policy, plan, outbox, external, faults>>

\* Mutant: the update leaves the version as it is.
WriteKeepsVersion(p) ==
    LET c == planner[p].case
        k == planner[p].key
    IN
    /\ planner[p].pc = "write"
    /\ IF case[c].version = planner[p].seen /\ plan[k] = "none"
         THEN /\ case' = [case EXCEPT ![c].state = ResolvePlanningOutcome(planner[p].decision)]
              /\ plan' = [plan EXCEPT ![k] = PlanStatus(planner[p].decision)]
              /\ Planned(p)
         ELSE Done(p) /\ UNCHANGED <<case, plan>>
    /\ UNCHANGED <<policy, outbox, external, faults>>

\* Mutant: nobody looks at how many case rows the update matched.
WriteCountUnchecked(p) ==
    LET c == planner[p].case
        k == planner[p].key
    IN
    /\ planner[p].pc = "write"
    /\ IF plan[k] = "none"
         THEN /\ IF case[c].version = planner[p].seen
                   THEN Transition(c, planner[p].seen, ResolvePlanningOutcome(planner[p].decision))
                   ELSE UNCHANGED case
              /\ plan' = [plan EXCEPT ![k] = PlanStatus(planner[p].decision)]
              /\ Planned(p)
         ELSE Done(p) /\ UNCHANGED <<case, plan>>
    /\ UNCHANGED <<policy, outbox, external, faults>>

\* Otherwise the case is moved and the plan inserted, unless the version or the
\* unique key says that somebody was faster.
Write(p) ==
    LET c == planner[p].case
        k == planner[p].key
    IN
    /\ planner[p].pc = "write"
    /\ IF case[c].version = planner[p].seen /\ plan[k] = "none"
         THEN /\ Transition(c, planner[p].seen, ResolvePlanningOutcome(planner[p].decision))
              /\ plan' = [plan EXCEPT ![k] = PlanStatus(planner[p].decision)]
              /\ Planned(p)
         ELSE Done(p) /\ UNCHANGED <<case, plan>>
    /\ UNCHANGED <<policy, outbox, external, faults>>

-----------------------------------------------------------------------------
(* PlanningService.enqueuePlan *)

\* Mutant: what createPlan answered is trusted.
EnqueueUnchecked(p) ==
    LET k == planner[p].key IN
    /\ planner[p].pc = "enqueue"
    /\ IF case[CaseOf(k)].state = "POLICY_CHECKED" THEN Goto(p, "enqueueRead") ELSE Done(p)
    /\ UNCHANGED <<case, policy, plan, outbox, external, faults>>

\* Only an approved plan that needs no approval, of a POLICY_CHECKED case.
Enqueue(p) ==
    LET k == planner[p].key IN
    /\ planner[p].pc = "enqueue"
    /\ IF plan[k] = "approved" /\ case[CaseOf(k)].state = "POLICY_CHECKED"
         THEN Goto(p, "enqueueRead")
         ELSE Done(p)
    /\ UNCHANGED <<case, policy, plan, outbox, external, faults>>

\* enqueuePlanWithOutbox checks the state again.
EnqueueRead(p) ==
    LET c == planner[p].case IN
    /\ planner[p].pc = "enqueueRead"
    /\ IF case[c].state = "POLICY_CHECKED"
         THEN planner' = [planner EXCEPT ![p].pc = "enqueueCheck", ![p].seen = case[c].version]
         ELSE Done(p)
    /\ UNCHANGED <<case, policy, plan, outbox, external, faults>>

\* An existing outbox event counts as success.
EnqueueCheck(p) ==
    /\ planner[p].pc = "enqueueCheck"
    /\ IF planner[p].key \in outbox THEN Done(p) ELSE Goto(p, "enqueueWrite")
    /\ UNCHANGED <<case, policy, plan, outbox, external, faults>>

\* Mutant: the update does not ask for the version.
EnqueueWriteUnversioned(p) ==
    LET c == planner[p].case IN
    /\ planner[p].pc = "enqueueWrite"
    /\ Transition(c, case[c].version, "QUEUED")
    /\ outbox' = outbox \cup {planner[p].key}
    /\ Done(p)
    /\ UNCHANGED <<policy, plan, external, faults>>

\* Otherwise the case is queued and the event inserted.
EnqueueWrite(p) ==
    LET c == planner[p].case IN
    /\ planner[p].pc = "enqueueWrite"
    /\ IF case[c].version = planner[p].seen /\ planner[p].key \notin outbox
         THEN /\ Transition(c, planner[p].seen, "QUEUED")
              /\ outbox' = outbox \cup {planner[p].key}
         ELSE UNCHANGED <<case, outbox>>
    /\ Done(p)
    /\ UNCHANGED <<policy, plan, external, faults>>

Step(p) ==
    \/ ListCases(p) \/ NextCase(p)
    \/ Load(p) \/ LoadPolicy(p) \/ Propose(p) \/ Read(p) \/ Check(p) \/ Write(p)
    \/ Enqueue(p) \/ EnqueueRead(p) \/ EnqueueCheck(p) \/ EnqueueWrite(p)

-----------------------------------------------------------------------------
(* Faults and the rest of the system *)

Fault == faults < MaxFaults /\ faults' = faults + 1

\* A query or the workflow fails: the call throws.
CallFails(p) ==
    /\ planner[p].pc \notin {"idle", "nextCase"}
    /\ Fault
    /\ Done(p)
    /\ UNCHANGED <<case, policy, plan, outbox, external>>

Crash(p) ==
    /\ planner[p].pc # "idle"
    /\ Fault
    /\ planner' = [planner EXCEPT ![p] = Idle]
    /\ UNCHANGED <<case, policy, plan, outbox, external>>

\* updateMerchantPolicy
UpdatePolicy ==
    /\ external < MaxExternal
    /\ policy' \in Policies \ {policy}
    /\ external' = external + 1
    /\ UNCHANGED <<case, plan, outbox, planner, faults>>

\* RazorpayEventsProcessor on payment.captured / order.paid.
PaymentCaptured(c) ==
    /\ external < MaxExternal
    /\ case[c].state \notin {"RECOVERED", "FAILED", "STOPPED"}
    /\ Transition(c, case[c].version, "RECOVERED")
    /\ external' = external + 1
    /\ UNCHANGED <<policy, plan, outbox, planner, faults>>

\* What module ExecutionWorker does with a queued case, in one step.
Execute(c) ==
    /\ case[c].state = "QUEUED"
    /\ \E result \in WorkerResults : Transition(c, case[c].version, result)
    /\ UNCHANGED <<policy, plan, outbox, planner, external, faults>>

-----------------------------------------------------------------------------
Next ==
    \/ \E p \in Planners :
         Step(p) \/ RequestPlan(p) \/ RequestEnqueue(p) \/ CallFails(p) \/ Crash(p)
    \/ UpdatePolicy
    \/ \E c \in Cases : PaymentCaptured(c) \/ Execute(c)

\* API processes run, the cron ticks; requests, payments and faults may come.
Fairness == \A p \in Planners : WF_vars(Step(p))

\* What is rejected for now is approved at another time of day.
DecisionsVary ==
    \A p \in Planners : SF_vars(Propose(p) /\ planner'[p].decision = "approved")

Spec        == Init /\ [][Next]_vars
FairSpec    == Spec /\ Fairness
VaryingSpec == FairSpec /\ DecisionsVary

-----------------------------------------------------------------------------
(* Properties *)

PlansOf(c) == {k \in PlanKey : CaseOf(k) = c /\ plan[k] # "none"}

\* The checks for an existing plan and an existing event and the inserts are
\* separate statements, yet an insert never hits a unique key while the version
\* read before the check is still current: whoever inserts takes a new version.
InsertsNeverCollide ==
    \A p \in Planners :
        planner[p].pc \in {"write", "enqueueWrite"}
            /\ case[planner[p].case].version = planner[p].seen =>
        IF planner[p].pc = "write" THEN plan[planner[p].key] = "none"
                                   ELSE planner[p].key \notin outbox

\* No plan that was rejected or waits for a human is ever enqueued, although a
\* replayed createPlan answers with a stored plan and the outcome of a proposal
\* that was made later and differently.
OnlyApprovedPlansEnqueued == \A k \in outbox : plan[k] = "approved"

\* A POLICY_CHECKED case is no dead end: one of its approved plans has not been
\* enqueued, so an operator can do it after a crash between createPlan and
\* enqueuePlan, and the answer is not taken from an old event.
PolicyCheckedIsEnqueueable ==
    \A c \in Cases : case[c].state = "POLICY_CHECKED" =>
        \E k \in PlansOf(c) \ outbox : plan[k] = "approved"

\* A case is queued from POLICY_CHECKED only, although that state was checked in
\* an earlier statement: a capture or a second operator in between is noticed.
QueuedFromPolicyChecked ==
    [][\A c \in Cases : case[c].state # "QUEUED" /\ case'[c].state = "QUEUED"
                           => case[c].state = "POLICY_CHECKED"]_vars

\* Planning implements AtomicPlanning: reads, checks and writes that other planners,
\* payments and executions interleave amount to one step per plan and one per event.
\* A plan and its case's state change together, no plan is replaced, and each event is
\* of an approved plan whose case is POLICY_CHECKED when it leaves that state.
Atomic == INSTANCE AtomicPlanning WITH
    Plans  <- PlanKey,
    state  <- [c \in Cases |-> case[c].state],
    events <- outbox

PlanningImplemented == Atomic!Spec

\* Every detected case is planned for the first time (or paid before), provided
\* a pass takes on all open cases: conflicts, crashes and changes of the policy
\* only delay it.
DetectedIsPlanned ==
    \A c \in Cases : case[c].state = "DETECTED" /\ PlansOf(c) = {}
                        ~> PlansOf(c) # {} \/ case[c].state # "DETECTED"

-----------------------------------------------------------------------------
(* What the repository's documents say, and the code does not do *)

\* README.md: a RETRYABLE case "Resets back to PLANNED for a new AI retry
\* strategy", also when every later proposal for it is approved again and again.
RetryableIsReplanned ==
    \A c \in Cases : case[c].state = "RETRYABLE" ~> case[c].state # "RETRYABLE"
=============================================================================
