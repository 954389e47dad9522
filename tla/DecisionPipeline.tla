--------------------------- MODULE DecisionPipeline ---------------------------
(***************************************************************************)
(* One case from the event that raised it to the result of its execution:  *)
(* the proposal of a plan, the queue, the execution worker's second        *)
(* evaluation of the policy and the adapter's answer.  Between those steps *)
(* the day goes on and the merchant changes the policy, so each of them    *)
(* decides under another policy at another hour.                           *)
(*                                                                         *)
(* What concurrent planners, redelivered jobs and crashes add is the       *)
(* matter of CasePlanning and ExecutionWorker; here each call is one step. *)
(***************************************************************************)
EXTENDS RecoveryDecision, ProviderAdapters

CONSTANTS
    Versions,  \* policyVersion values
    Policies,  \* the policy of each version
    Events,    \* events that qualified as recovery cases
    Amounts,   \* amounts at risk
    Currencies,
    Contacts,  \* which addresses the event's metadata carries
    Grants,    \* consents on the customer's row: the channels allowed
    Envs,      \* process configurations
    Minutes,   \* times of day
    Answers    \* what the scoring service may answer, NoAnswer included

ASSUME DecisionConstants ==
    /\ Policies \in [Versions -> [enabled : BOOLEAN, currencies : SUBSET Currencies,
                                  allowCrossBorder : BOOLEAN, maxAttempts : Nat,
                                  allowed : SUBSET InterventionType,
                                  minimumRecoveryScore : Nat, maxRetryAmount : Nat,
                                  manualApprovalAbove : Nat, maxMessages : Nat]]
    /\ Events # {}
    /\ Amounts \subseteq Nat
    /\ Contacts \subseteq [email : BOOLEAN, phone : BOOLEAN]
    /\ Grants \subseteq SUBSET Reminders
    /\ Envs \subseteq [testMode : BOOLEAN, razorpayMode : BOOLEAN, razorpay : BOOLEAN,
                       twilio : BOOLEAN, resend : BOOLEAN]
    /\ Minutes \subseteq 0..1439

VARIABLES
    case,    \* the case row
    event,   \* its source event, with the contacts of its metadata
    grants,  \* the consents stored with the customer
    env,     \* the worker's configuration
    policy,  \* the merchant's policyVersion
    minute,  \* the time of day
    plans,   \* the case's plans
    job      \* the execution job

vars == <<case, event, grants, env, policy, minute, plans, job>>

CaseState == {"DETECTED", "RETRYABLE", "POLICY_CHECKED", "QUEUED", "EXECUTING", "ESCALATED",
              "STOPPED", "AWAITING_CUSTOMER_ACTION", "RECOVERED", "FAILED", "AMBIGUOUS"}

\* Version and type are the part of the idempotency key that varies.
Plan == [type : InterventionType, version : Versions, minute : Minutes,
         status : {"approved", "human", "rejected"}]

\* A job is queued with a plan, checked under a policy at a time, and ends
\* executed, stopped or dropped.
NoJob == [pc |-> "none"]
Job   == {NoJob}
         \cup [pc : {"queued"}, plan : Plan]
         \cup [pc : {"checked", "executed", "stopped", "dropped"}, plan : Plan,
               version : Versions, minute : Minutes]

TypeOK ==
    /\ case \in [state : CaseState, amount : Amounts, currency : Currencies, attempts : {0}]
    /\ event.source \in Events /\ event.contact \in Contacts
    /\ grants \in Grants
    /\ env \in Envs
    /\ policy \in Versions
    /\ minute \in Minutes
    /\ plans \subseteq Plan
    /\ job \in Job

Init ==
    /\ case \in [state : {"DETECTED"}, amount : Amounts, currency : Currencies, attempts : {0}]
    /\ event \in [source : Events, contact : Contacts]
    /\ grants \in Grants
    /\ env \in Envs
    /\ policy \in Versions
    /\ minute \in Minutes
    /\ plans = {}
    /\ job = NoJob

-----------------------------------------------------------------------------
(* Planning *)

\* The status a plan is stored with, the need of approval included.
PlanStatus(v) == IF ~v.approved THEN "rejected" ELSE IF v.human THEN "human" ELSE "approved"

\* createPlan: a plan that exists is left alone, and so is the case.  No
\* intervention of an open case is active.
CreatePlan ==
    /\ case.state \in {"DETECTED", "RETRYABLE"}
    /\ \E answer \in Answers :
         LET proposal == Propose(case, event.source, Policies[policy], {}, answer, minute) IN
         /\ \A pl \in plans : pl.version # policy \/ pl.type # proposal.type
         /\ plans' = plans \cup {[type |-> proposal.type, version |-> policy, minute |-> minute,
                                  status |-> PlanStatus(proposal.verdict)]}
         /\ case' = [case EXCEPT !.state = ResolvePlanningOutcome(proposal.verdict)]
    /\ UNCHANGED <<event, grants, env, policy, minute, job>>

\* Mutant: a plan that waits for a human is enqueued.
EnqueuePlanAny ==
    /\ case.state \in {"POLICY_CHECKED", "ESCALATED"}
    /\ \E pl \in plans : pl.status # "rejected" /\ job' = [pc |-> "queued", plan |-> pl]
    /\ case' = [case EXCEPT !.state = "QUEUED"]
    /\ UNCHANGED <<event, grants, env, policy, minute, plans>>

\* enqueuePlan: the outbox relay will add the job.
EnqueuePlan ==
    /\ case.state = "POLICY_CHECKED"
    /\ \E pl \in plans : pl.status = "approved" /\ job' = [pc |-> "queued", plan |-> pl]
    /\ case' = [case EXCEPT !.state = "QUEUED"]
    /\ UNCHANGED <<event, grants, env, policy, minute, plans>>

-----------------------------------------------------------------------------
(* Execution *)

\* Mutant: the plan's policy is trusted.
ReevaluateNot ==
    /\ job.pc = "queued"
    /\ case' = [case EXCEPT !.state = "EXECUTING"]
    /\ job' = [pc |-> "checked", plan |-> job.plan, version |-> policy, minute |-> minute]
    /\ UNCHANGED <<event, grants, env, policy, minute, plans>>

\* Mutant: the stop is answered but not stored.
ReevaluateForgetsStop ==
    LET v == EvaluateRecoveryPolicy([case EXCEPT !.state = "DETECTED"], Diagnose(event.source),
                                    job.plan.type, Policies[policy], TRUE, FALSE, minute)
    IN
    /\ job.pc = "queued"
    /\ case' = [case EXCEPT !.state = IF v.approved THEN "EXECUTING" ELSE @]
    /\ job' = [pc      |-> IF v.approved THEN "checked" ELSE "stopped",
               plan    |-> job.plan,
               version |-> policy,
               minute  |-> minute]
    /\ UNCHANGED <<event, grants, env, policy, minute, plans>>

\* The worker evaluates the policy of the moment for the intervention planned,
\* without consents and contact limits.  A stop is stored; on any other
\* rejection the job ends, and the case stays QUEUED.
Reevaluate ==
    LET v == EvaluateRecoveryPolicy([case EXCEPT !.state = "DETECTED"], Diagnose(event.source),
                                    job.plan.type, Policies[policy], TRUE, FALSE, minute)
    IN
    /\ job.pc = "queued"
    /\ case' = [case EXCEPT !.state = IF v.approved THEN "EXECUTING"
                                      ELSE IF v.stop THEN "STOPPED" ELSE @]
    /\ job' = [pc      |-> IF v.approved THEN "checked" ELSE IF v.stop THEN "stopped" ELSE "dropped",
               plan    |-> job.plan,
               version |-> policy,
               minute  |-> minute]
    /\ UNCHANGED <<event, grants, env, policy, minute, plans>>

\* The adapter answers, and the worker stores what that means.
Execute ==
    LET action == ActionOf(job.plan.type) IN
    /\ job.pc = "checked"
    /\ \E result \in Outcomes(action, env, event.contact) :
         case' = [case EXCEPT !.state = NextCaseState(action, result)]
    /\ job' = [job EXCEPT !.pc = "executed"]
    /\ UNCHANGED <<event, grants, env, policy, minute, plans>>

-----------------------------------------------------------------------------
TimePasses ==
    /\ minute' \in Minutes \ {minute}
    /\ UNCHANGED <<case, event, grants, env, policy, plans, job>>

UpdatePolicy ==
    /\ policy' \in Versions \ {policy}
    /\ UNCHANGED <<case, event, grants, env, minute, plans, job>>

Next == CreatePlan \/ EnqueuePlan \/ Reevaluate \/ Execute \/ TimePasses \/ UpdatePolicy

\* The queue delivers the job and the worker runs it.
Fairness == WF_vars(Reevaluate) /\ WF_vars(Execute)

Spec     == Init /\ [][Next]_vars
FairSpec == Spec /\ Fairness

-----------------------------------------------------------------------------
(* Properties *)

Authorised == job.pc \in {"checked", "executed"}

\* p lets an intervention of this type be made for the case.
Permits(p, type) ==
    /\ p.enabled
    /\ type \in p.allowed
    /\ p.currencies = {} \/ case.currency \in p.currencies
    /\ p.allowCrossBorder \/ case.currency \in Domestic(p)
    /\ Diagnose(event.source).confidence >= p.minimumRecoveryScore
    /\ type = "PAYMENT_RETRY" => case.amount <= p.maxRetryAmount

\* Nothing is executed automatically that either the policy it was planned under
\* or the one in force when the worker looked again does not permit, and nothing
\* above the planning policy's threshold for a human, or for suspected fraud.
\* The worker does not look at the threshold again.
AutomaticExecutionIsPermitted ==
    Authorised =>
        /\ \A v \in {job.plan.version, job.version} : Permits(Policies[v], job.plan.type)
        /\ case.amount < Policies[job.plan.version].manualApprovalAbove
        /\ event.source.reason # "SUSPECTED_FRAUD"

\* A reminder that is sent was planned inside the contact window, and an SMS was
\* found inside it again by the worker, although the window closes and opens
\* while the job waits; an email is not looked at again.
QuietHours ==
    Authorised =>
        /\ job.plan.type \in Reminders => ~IsOutsideTRAIWindow(job.plan.minute)
        /\ job.plan.type = "SMS_REMINDER" => ~IsOutsideTRAIWindow(job.minute)

\* The worker retries and links payments and sends mails and messages.  It never
\* raises a ticket through the escalation service: a human escalation needs an
\* approval that nothing gives.  It never calls, and never runs into an action
\* without an adapter.
OnlyCustomerRemediesExecuted ==
    Authorised => job.plan.type \in {"PAYMENT_RETRY", "PAYMENT_LINK", "EMAIL_REMINDER",
                                     "SMS_REMINDER"}

\* A case that a dropped job leaves QUEUED is an SMS for which the window has
\* closed, or one for which the policy's minimum score has been raised.
StrandedByNightOrPolicyChange ==
    job.pc = "dropped" =>
        /\ case.state = "QUEUED"
        /\ \/ job.plan.type = "SMS_REMINDER" /\ IsOutsideTRAIWindow(job.minute)
           \/ Policies[job.version].minimumRecoveryScore
                > Policies[job.plan.version].minimumRecoveryScore

\* "Scores are logged for audit but do NOT override deterministic domain rules":
\* every plan has the type it would have for any other scores.  recommendIntervention
\* does read them, but after a rule that knows all the causes of the score branch.
PropensityIsAdvisory ==
    \A pl \in plans, answer \in Answers :
        Recommended(case, event.source, Policies[pl.version], {}, answer) = pl.type

\* Only the test mode's pretended payment retry recovers a case by execution.
RecoversOnlyInTestMode ==
    case.state = "RECOVERED" => env.testMode /\ job.plan.type = "PAYMENT_RETRY"

\* A queued case does not stay so, unless its job is dropped.
QueuedIsResolved == case.state = "QUEUED" ~> (case.state # "QUEUED" \/ job.pc = "dropped")

\* "Missing consent -> CONSENT_MISSING; requires human approval, blocked": a
\* reminder goes only to customers who agreed to the channel.
ConsentGate == Authorised /\ job.plan.type \in Reminders => job.plan.type \in grants
=============================================================================
