------------------------ MODULE DecisionPipelineProofs ------------------------
(***************************************************************************)
(* What is executed, and when, for every case, merchant policy, time of    *)
(* day and answer of the scoring service.                                  *)
(***************************************************************************)
EXTENDS DecisionPipeline, TLAPS

-----------------------------------------------------------------------------
(* The decision *)

\* What an approval says of the intervention, with the rules in their order.
Clears(c, d, type, p, consent, limited, hour) ==
    /\ p.enabled
    /\ d.rootCause # "FRAUD"
    /\ p.currencies = {} \/ c.currency \in p.currencies
    /\ p.allowCrossBorder \/ c.currency \in Domestic(p)
    /\ type \in p.allowed
    /\ type # "NO_ACTION"
    /\ type = "HUMAN_ESCALATION" \/ ~(d.confidence < p.minimumRecoveryScore)
    /\ type = "PAYMENT_RETRY" => ~(c.amount > p.maxRetryAmount)
    /\ limited => type \notin Reminders
    /\ type \in {"SMS_REMINDER", "VOICE_REMINDER"} => ~IsOutsideTRAIWindow(hour)

\* Why a rejection does not stop the case.
Postpones(d, type, p, limited, hour) ==
    \/ d.confidence < p.minimumRecoveryScore
    \/ limited
    \/ type \in {"SMS_REMINDER", "VOICE_REMINDER"} /\ IsOutsideTRAIWindow(hour)

\* An approved intervention passes all rules.
LEMMA ApprovedClears ==
    \A c, d, type, p, consent, limited, hour :
        EvaluateRecoveryPolicy(c, d, type, p, consent, limited, hour).approved
            => Clears(c, d, type, p, consent, limited, hour)
BY DEF EvaluateRecoveryPolicy, Clears, Verdict, Stop, StopAndAsk, Later

\* An intervention approved without a human is below the threshold.
LEMMA ApprovedAutomatically ==
    \A c, d, type, p, consent, limited, hour :
        /\ EvaluateRecoveryPolicy(c, d, type, p, consent, limited, hour).approved
        /\ ~EvaluateRecoveryPolicy(c, d, type, p, consent, limited, hour).human
        => ~(c.amount >= p.manualApprovalAbove) /\ type # "HUMAN_ESCALATION"
<1> SUFFICES ASSUME NEW c, NEW d, NEW type, NEW p, NEW consent, NEW limited, NEW hour,
                    EvaluateRecoveryPolicy(c, d, type, p, consent, limited, hour).approved,
                    c.amount >= p.manualApprovalAbove \/ type = "HUMAN_ESCALATION"
             PROVE  EvaluateRecoveryPolicy(c, d, type, p, consent, limited, hour).human
  OBVIOUS
<1> DEFINE manual == IF c.amount >= p.manualApprovalAbove THEN {"HUMAN_APPROVAL_REQUIRED"} ELSE {}
           ask    == manual # {} \/ type = "HUMAN_ESCALATION"
<1>1. EvaluateRecoveryPolicy(c, d, type, p, consent, limited, hour)
        = Verdict(TRUE, ask, FALSE, type = "HUMAN_ESCALATION", manual)
  BY DEF EvaluateRecoveryPolicy, Verdict, Stop, StopAndAsk, Later
<1>2. c.amount >= p.manualApprovalAbove => manual # {}
  OBVIOUS
<1>3. ask = TRUE
  BY <1>2
<1> HIDE DEF ask, manual
<1> QED BY <1>1, <1>3 DEF Verdict

\* A rejection that does not stop the case has one of three reasons.
LEMMA RejectedForNow ==
    \A c, d, type, p, limited, hour :
        /\ ~EvaluateRecoveryPolicy(c, d, type, p, TRUE, limited, hour).approved
        /\ ~EvaluateRecoveryPolicy(c, d, type, p, TRUE, limited, hour).stop
        => Postpones(d, type, p, limited, hour)
BY DEF EvaluateRecoveryPolicy, Postpones, Verdict, Stop, StopAndAsk, Later

\* A verdict leads to one of four states.
LEMMA OutcomeIsState ==
    \A c, d, type, p, consent, limited, hour :
        ResolvePlanningOutcome(EvaluateRecoveryPolicy(c, d, type, p, consent, limited, hour))
            \in {"POLICY_CHECKED", "ESCALATED", "STOPPED", "RETRYABLE"}
<1> SUFFICES ASSUME NEW c, NEW d, NEW type, NEW p, NEW consent, NEW limited, NEW hour
             PROVE  ResolvePlanningOutcome(EvaluateRecoveryPolicy(c, d, type, p, consent,
                                                                  limited, hour))
                      \in {"POLICY_CHECKED", "ESCALATED", "STOPPED", "RETRYABLE"}
  OBVIOUS
<1> DEFINE v == EvaluateRecoveryPolicy(c, d, type, p, consent, limited, hour)
<1>1. v.approved \in BOOLEAN
  BY DEF EvaluateRecoveryPolicy, Verdict, Stop, StopAndAsk, Later
<1>2. v.human \in BOOLEAN
  BY DEF EvaluateRecoveryPolicy, Verdict, Stop, StopAndAsk, Later
<1>3. v.stop \in BOOLEAN
  BY DEF EvaluateRecoveryPolicy, Verdict, Stop, StopAndAsk, Later
<1>4. v.escalate \in BOOLEAN
  BY DEF EvaluateRecoveryPolicy, Verdict, Stop, StopAndAsk, Later
<1> HIDE DEF v
<1>5. ResolvePlanningOutcome(v) \in {"POLICY_CHECKED", "ESCALATED", "STOPPED", "RETRYABLE"}
  BY <1>1, <1>2, <1>3, <1>4 DEF ResolvePlanningOutcome
<1> QED BY <1>5 DEF v

\* Nobody is ever called: no workflow recommends it.
LEMMA RecommendedTypes ==
    \A c, e, p, active, answer :
        Recommended(c, e, p, active, answer) \in InterventionType \ {"VOICE_REMINDER"}
<1> DEFINE Types == InterventionType \ {"VOICE_REMINDER"}
<1>1. \A candidates : /\ FirstOf("EMAIL_REMINDER", "SMS_REMINDER", candidates) \in Types
                      /\ FirstOf("SMS_REMINDER", "EMAIL_REMINDER", candidates) \in Types
  BY DEF FirstOf, InterventionType
<1>2. {"NO_ACTION", "HUMAN_ESCALATION", "PAYMENT_RETRY", "PAYMENT_LINK"} \subseteq Types
  BY DEF InterventionType
<1> HIDE DEF Types
<1>3. \A c, d, candidates, p, active, scores :
        Recommend(c, d, candidates, p, active, scores) \in Types
  <2> SUFFICES ASSUME NEW c, NEW d, NEW candidates, NEW p, NEW active, NEW scores
               PROVE  Recommend(c, d, candidates, p, active, scores) \in Types
    OBVIOUS
  <2> DEFINE reminders == IF active \cap Reminders = {} THEN candidates \cap Reminders ELSE {}
  <2>1. Recommend(c, d, candidates, p, active, scores) \in
          {"NO_ACTION", "HUMAN_ESCALATION", "PAYMENT_RETRY", "PAYMENT_LINK",
           FirstOf("EMAIL_REMINDER", "SMS_REMINDER", reminders),
           FirstOf("SMS_REMINDER", "EMAIL_REMINDER", reminders)}
    BY DEF Recommend
  <2> QED BY <1>1, <1>2, <2>1
<1>4. \A c, e, d, candidates, recommended :
        recommended \in Types => Override(c, e, d, candidates, recommended) \in Types
  BY <1>2 DEF Override
<1>5. \A c, e, p, active, answer : Recommended(c, e, p, active, answer) \in Types
  BY <1>3, <1>4 DEF Recommended
<1> QED BY <1>5 DEF Types

\* The branch that reads the scores comes too late: whenever it would choose the
\* payment link, the rule before it has done so.
LEMMA ScoresComeTooLate ==
    \A d, candidates, active, scores :
        PropensityPrefersLink(d, candidates, active, scores) => PrefersLink(d, candidates, active)
BY DEF PropensityPrefersLink, PrefersLink

\* The recommendation does not depend on the scores.
LEMMA ScoresDoNotMatter ==
    \A c, e, p, active, answer :
        Recommended(c, e, p, active, answer) = Recommended(c, e, p, active, NoAnswer)
<1>1. \A c, answer : ScorePropensity(c, answer).location = "Urban"
  BY DEF ScorePropensity
<1>2. \A c, d, candidates, p, active, s, t :
        s.location = t.location
          => Recommend(c, d, candidates, p, active, s) = Recommend(c, d, candidates, p, active, t)
  BY ScoresComeTooLate DEF Recommend
<1> QED BY <1>1, <1>2 DEF Recommended

\* Nor on the state of the case.
LEMMA StateDoesNotMatter ==
    \A b, c, e, p, active :
        b.amount = c.amount /\ b.attempts = c.attempts
          => Recommended(b, e, p, active, NoAnswer) = Recommended(c, e, p, active, NoAnswer)
<1> SUFFICES ASSUME NEW b, NEW c, NEW e, NEW p, NEW active,
                    b.amount = c.amount, b.attempts = c.attempts
             PROVE  Recommended(b, e, p, active, NoAnswer) = Recommended(c, e, p, active, NoAnswer)
  OBVIOUS
<1>1. ScorePropensity(b, NoAnswer).location = ScorePropensity(c, NoAnswer).location
  BY DEF ScorePropensity
<1>2. \A d, candidates, s, t :
        s.location = t.location
          => Recommend(b, d, candidates, p, active, s) = Recommend(c, d, candidates, p, active, t)
  BY ScoresComeTooLate DEF Recommend
<1>3. \A d, candidates, r : Override(b, e, d, candidates, r) = Override(c, e, d, candidates, r)
  BY DEF Override
<1> QED BY <1>1, <1>2, <1>3 DEF Recommended

\* Confidences are numbers, and fraud is always seen.
LEMMA Diagnoses ==
    \A e : /\ Diagnose(e).confidence \in 0..95
           /\ Diagnose(e).rootCause # "FRAUD" => e.reason # "SUSPECTED_FRAUD"
<1> SUFFICES ASSUME NEW e
             PROVE  /\ Diagnose(e).confidence \in 0..95
                    /\ Diagnose(e).rootCause # "FRAUD" => e.reason # "SUSPECTED_FRAUD"
  OBVIOUS
<1>1. CASE e.reason = "SUSPECTED_FRAUD"
  BY <1>1 DEF Diagnose, Cause
<1>2. CASE e.reason # "SUSPECTED_FRAUD"
  <2>1. DiagnosePayment(e.reason).confidence \in 0..95
    BY DEF DiagnosePayment, Cause
  <2> QED BY <1>2, <2>1 DEF Diagnose, Cause
<1> QED BY <1>1, <1>2

-----------------------------------------------------------------------------
(* The invariant *)

\* A plan is what would be recommended under its policy, and one that may be
\* enqueued had the approval of that policy at the minute it was made.
PlanInv(pl) ==
    /\ pl.type \in InterventionType \ {"VOICE_REMINDER"}
    /\ pl.type = Recommended(case, event.source, Policies[pl.version], {}, NoAnswer)
    /\ pl.status = "approved" =>
         /\ Permits(Policies[pl.version], pl.type)
         /\ case.amount < Policies[pl.version].manualApprovalAbove
         /\ event.source.reason # "SUSPECTED_FRAUD"
         /\ pl.type \notin {"NO_ACTION", "HUMAN_ESCALATION"}
         /\ pl.type \in Reminders => ~IsOutsideTRAIWindow(pl.minute)

\* The job has such a plan, and holds what the worker found.
JobInv ==
    /\ job.pc # "none" => job.plan \in plans /\ job.plan.status = "approved"
    /\ Authorised =>
         /\ job.version \in Versions
         /\ Permits(Policies[job.version], job.plan.type)
         /\ job.plan.type = "SMS_REMINDER" => ~IsOutsideTRAIWindow(job.minute)
    /\ job.pc = "queued" => case.state = "QUEUED"
    /\ job.pc = "checked" => case.state = "EXECUTING"
    /\ StrandedByNightOrPolicyChange
    /\ RecoversOnlyInTestMode

Inv == TypeOK /\ (\A pl \in plans : PlanInv(pl)) /\ JobInv

\* Nothing but the state of the case ever changes.
LEMMA Lasting ==
    ASSUME NEW state, case' = [case EXCEPT !.state = state], event' = event
    PROVE  /\ \A pl : PlanInv(pl)' <=> PlanInv(pl)
           /\ \A p, type : Permits(p, type)' <=> Permits(p, type)
<1>1. case'.amount = case.amount /\ case'.currency = case.currency /\ case'.attempts = case.attempts
  OBVIOUS
<1>2. \A p, type : Permits(p, type)' <=> Permits(p, type)
  BY <1>1 DEF Permits
<1>3. \A e, p : Recommended(case', e, p, {}, NoAnswer) = Recommended(case, e, p, {}, NoAnswer)
  <2> SUFFICES ASSUME NEW e, NEW p
               PROVE  Recommended(case', e, p, {}, NoAnswer) = Recommended(case, e, p, {}, NoAnswer)
    OBVIOUS
  <2>1. ASSUME NEW b, b.amount = case.amount, b.attempts = case.attempts
        PROVE  Recommended(b, e, p, {}, NoAnswer) = Recommended(case, e, p, {}, NoAnswer)
    BY <2>1, StateDoesNotMatter
  <2> QED BY <1>1, <2>1, Zenon
<1>4. \A pl : PlanInv(pl)' <=> PlanInv(pl)
  BY <1>1, <1>2, <1>3 DEF PlanInv
<1> QED BY <1>2, <1>4

LEMMA Initially == Init => Inv
<1> SUFFICES ASSUME Init PROVE Inv
  OBVIOUS
<1>1. TypeOK
  BY DEF Init, TypeOK, CaseState, Job
<1>2. JobInv
  BY DEF Init, NoJob, JobInv, Authorised, StrandedByNightOrPolicyChange, RecoversOnlyInTestMode
<1> QED BY <1>1, <1>2 DEF Inv, Init

\* A policy's numbers are numbers.
LEMMA PolicyType ==
    \A v \in Versions : /\ Policies[v].minimumRecoveryScore \in Nat
                        /\ Policies[v].maxRetryAmount \in Nat
                        /\ Policies[v].manualApprovalAbove \in Nat
BY DecisionConstants DEF DecisionConstants

\* And so is the amount at risk.
LEMMA AmountType == TypeOK => case.amount \in Nat
<1> SUFFICES ASSUME TypeOK PROVE case.amount \in Nat
  OBVIOUS
<1>1. case.amount \in Amounts
  BY DEF TypeOK
<1>2. Amounts \subseteq Nat
  BY DecisionConstants DEF DecisionConstants
<1> QED BY <1>1, <1>2

\* What passes the rules is permitted.
LEMMA ClearedIsPermitted ==
    ASSUME TypeOK
    PROVE  \A v \in Versions : \A type, c, consent, limited, m :
             /\ c.amount = case.amount
             /\ c.currency = case.currency
             /\ type # "HUMAN_ESCALATION"
             /\ Clears(c, Diagnose(event.source), type, Policies[v], consent, limited, m)
             => Permits(Policies[v], type) /\ event.source.reason # "SUSPECTED_FRAUD"
<1> SUFFICES ASSUME NEW v \in Versions, NEW type, NEW c, NEW consent, NEW limited, NEW m,
                    c.amount = case.amount, c.currency = case.currency,
                    type # "HUMAN_ESCALATION",
                    Clears(c, Diagnose(event.source), type, Policies[v], consent, limited, m)
             PROVE  Permits(Policies[v], type) /\ event.source.reason # "SUSPECTED_FRAUD"
  OBVIOUS
<1>1. case.amount \in Nat
  BY AmountType
<1>2. Diagnose(event.source).confidence >= Policies[v].minimumRecoveryScore
  <2>1. ~(Diagnose(event.source).confidence < Policies[v].minimumRecoveryScore)
    BY DEF Clears
  <2>2. Diagnose(event.source).confidence \in 0..95
    BY Diagnoses
  <2>3. Policies[v].minimumRecoveryScore \in Nat
    BY PolicyType
  <2> QED BY <2>1, <2>2, <2>3
<1>3. type = "PAYMENT_RETRY" => case.amount <= Policies[v].maxRetryAmount
  BY <1>1, PolicyType DEF Clears
<1> QED BY <1>2, <1>3, Diagnoses DEF Clears, Permits

-----------------------------------------------------------------------------
(* The steps *)

\* createPlan stores what would be recommended for any scores, and approves what
\* the policy permits now.
LEMMA CreatePlanStep ==
    ASSUME Inv, CreatePlan
    PROVE  Inv'
<1>1. PICK answer \in Answers :
        /\ plans' = plans \cup
             {[type    |-> Propose(case, event.source, Policies[policy], {}, answer, minute).type,
               version |-> policy, minute |-> minute,
               status  |-> PlanStatus(Propose(case, event.source, Policies[policy], {}, answer,
                                              minute).verdict)]}
        /\ case' = [case EXCEPT !.state =
             ResolvePlanningOutcome(Propose(case, event.source, Policies[policy], {}, answer,
                                            minute).verdict)]
  BY DEF CreatePlan
<1> DEFINE type    == Recommended(case, event.source, Policies[policy], {}, answer)
           limited == ContactLimitReached(event.source, Policies[policy], minute)
           v       == EvaluateRecoveryPolicy(case, Diagnose(event.source), type, Policies[policy],
                                             Consents(event.source, type), limited, minute)
           new     == [type |-> type, version |-> policy, minute |-> minute,
                       status |-> PlanStatus(v)]
           next    == ResolvePlanningOutcome(v)
<1>2. plans' = plans \cup {new} /\ case' = [case EXCEPT !.state = next]
  BY <1>1 DEF Propose
<1>3. next \in {"POLICY_CHECKED", "ESCALATED", "STOPPED", "RETRYABLE"}
  BY OutcomeIsState
<1>4. policy \in Versions /\ minute \in Minutes
  BY DEF Inv, TypeOK
<1>5. type \in InterventionType \ {"VOICE_REMINDER"}
  BY RecommendedTypes
<1>6. type = Recommended(case, event.source, Policies[policy], {}, NoAnswer)
  BY ScoresDoNotMatter
<1>7. PlanStatus(v) \in {"approved", "human", "rejected"}
  BY DEF PlanStatus
<1>8. ASSUME PlanStatus(v) = "approved"
      PROVE  /\ Permits(Policies[policy], type)
             /\ case.amount < Policies[policy].manualApprovalAbove
             /\ event.source.reason # "SUSPECTED_FRAUD"
             /\ type \notin {"NO_ACTION", "HUMAN_ESCALATION"}
             /\ type \in Reminders => ~IsOutsideTRAIWindow(minute)
  <2>1. v.approved /\ ~v.human
    <3> HIDE DEF v
    <3> QED BY <1>8 DEF PlanStatus
  <2>2. ~(case.amount >= Policies[policy].manualApprovalAbove) /\ type # "HUMAN_ESCALATION"
    <3> HIDE DEF type, limited
    <3> QED BY <2>1, ApprovedAutomatically
  <2>3. Clears(case, Diagnose(event.source), type, Policies[policy],
               Consents(event.source, type), limited, minute)
    <3> HIDE DEF type, limited
    <3> QED BY <2>1, ApprovedClears
  <2>4. case.amount < Policies[policy].manualApprovalAbove
    <3>1. case.amount \in Nat
      BY AmountType DEF Inv
    <3>2. Policies[policy].manualApprovalAbove \in Nat
      BY <1>4, PolicyType
    <3>3. ~(case.amount >= Policies[policy].manualApprovalAbove)
      BY <2>2
    <3> HIDE DEF type, v, next, limited, new
    <3> QED BY <3>1, <3>2, <3>3
  <2>5. type \in Reminders => ~IsOutsideTRAIWindow(minute)
    <3> HIDE DEF type
    <3> QED BY <2>3 DEF Clears, ContactLimitReached
  <2>6. Permits(Policies[policy], type) /\ event.source.reason # "SUSPECTED_FRAUD"
    <3> HIDE DEF type, limited
    <3> QED BY <1>4, <2>2, <2>3, ClearedIsPermitted DEF Inv
  <2>7. type # "NO_ACTION"
    <3> HIDE DEF type, limited
    <3> QED BY <2>3 DEF Clears
  <2> QED BY <2>2, <2>4, <2>5, <2>6, <2>7
<1> HIDE DEF type, v, next, limited
<1>9. PlanInv(new)
  BY <1>5, <1>6, <1>8 DEF PlanInv
<1>10. new \in Plan
  BY <1>4, <1>5, <1>7 DEF Plan
<1> HIDE DEF new
<1>11. UNCHANGED <<event, grants, env, policy, minute, job>> /\ case.state \in {"DETECTED", "RETRYABLE"}
  BY DEF CreatePlan
<1>12. \A pl \in plans' : PlanInv(pl)'
  BY <1>2, <1>9, <1>11, Lasting DEF Inv
<1>13. TypeOK'
  BY <1>2, <1>3, <1>10, <1>11 DEF Inv, TypeOK, CaseState
<1>14. JobInv'
  <2>1. \A p, t : Permits(p, t)' <=> Permits(p, t)
    BY <1>2, <1>11, Lasting
  <2>2. case'.state = next
    BY <1>2 DEF Inv, TypeOK
  <2>3. job.pc \notin {"queued", "checked", "dropped"}
    BY <1>11 DEF Inv, JobInv, StrandedByNightOrPolicyChange
  <2> QED BY <1>2, <1>3, <1>11, <2>1, <2>2, <2>3
          DEF Inv, JobInv, Authorised, StrandedByNightOrPolicyChange, RecoversOnlyInTestMode
<1> QED BY <1>12, <1>13, <1>14 DEF Inv

\* enqueuePlan takes an approved plan.
LEMMA EnqueuePlanStep ==
    ASSUME Inv, EnqueuePlan
    PROVE  Inv'
<1>1. PICK pl \in plans : pl.status = "approved" /\ job' = [pc |-> "queued", plan |-> pl]
  BY DEF EnqueuePlan
<1>2. /\ case' = [case EXCEPT !.state = "QUEUED"]
      /\ UNCHANGED <<event, grants, env, policy, minute, plans>>
  BY DEF EnqueuePlan
<1>3. \A p \in plans' : PlanInv(p)'
  BY <1>2, Lasting DEF Inv
<1>4. case'.state = "QUEUED"
  BY <1>2 DEF Inv, TypeOK
<1>5. job' \in Job
  BY <1>1 DEF Inv, TypeOK, Job
<1>6. TypeOK'
  BY <1>2, <1>5 DEF Inv, TypeOK, CaseState
<1>7. JobInv'
  BY <1>1, <1>2, <1>4 DEF JobInv, Authorised, StrandedByNightOrPolicyChange, RecoversOnlyInTestMode
<1> QED BY <1>3, <1>6, <1>7 DEF Inv

\* The worker finds the plan permitted, stops the case, or drops the job for the
\* hour or a raised score.
LEMMA ReevaluateStep ==
    ASSUME Inv, Reevaluate
    PROVE  Inv'
<1> DEFINE v    == EvaluateRecoveryPolicy([case EXCEPT !.state = "DETECTED"], Diagnose(event.source),
                                          job.plan.type, Policies[policy], TRUE, FALSE, minute)
           next == IF v.approved THEN "EXECUTING" ELSE IF v.stop THEN "STOPPED" ELSE case.state
           pc   == IF v.approved THEN "checked" ELSE IF v.stop THEN "stopped" ELSE "dropped"
<1>1. /\ job.pc = "queued"
      /\ case' = [case EXCEPT !.state = next]
      /\ job' = [pc |-> pc, plan |-> job.plan, version |-> policy, minute |-> minute]
      /\ UNCHANGED <<event, grants, env, policy, minute, plans>>
  BY DEF Reevaluate
<1>2. /\ job.plan \in plans /\ job.plan.status = "approved" /\ PlanInv(job.plan)
      /\ case.state = "QUEUED"
  BY <1>1 DEF Inv, JobInv
<1>3. policy \in Versions /\ minute \in Minutes
  BY DEF Inv, TypeOK
<1>4. ASSUME v.approved
      PROVE  /\ Permits(Policies[policy], job.plan.type)
             /\ job.plan.type = "SMS_REMINDER" => ~IsOutsideTRAIWindow(minute)
  <2> DEFINE c == [case EXCEPT !.state = "DETECTED"]
  <2>1. c.amount = case.amount /\ c.currency = case.currency
    BY DEF Inv, TypeOK
  <2>2. Clears(c, Diagnose(event.source), job.plan.type, Policies[policy], TRUE, FALSE, minute)
    <3> HIDE DEF c
    <3> QED BY <1>4, ApprovedClears DEF c
  <2>3. job.plan.type # "HUMAN_ESCALATION"
    BY <1>2 DEF PlanInv
  <2> HIDE DEF c
  <2>4. Permits(Policies[policy], job.plan.type)
    BY <1>3, <2>1, <2>2, <2>3, ClearedIsPermitted DEF Inv
  <2>5. job.plan.type = "SMS_REMINDER" => ~IsOutsideTRAIWindow(minute)
    BY <2>2 DEF Clears
  <2> QED BY <2>4, <2>5
<1>5. ASSUME ~v.approved, ~v.stop
      PROVE  \/ job.plan.type = "SMS_REMINDER" /\ IsOutsideTRAIWindow(minute)
             \/ Policies[policy].minimumRecoveryScore
                  > Policies[job.plan.version].minimumRecoveryScore
  <2>1. Postpones(Diagnose(event.source), job.plan.type, Policies[policy], FALSE, minute)
    BY <1>5, RejectedForNow
  <2>2. job.plan.type # "VOICE_REMINDER"
    BY <1>2 DEF PlanInv
  <2>3. Diagnose(event.source).confidence >= Policies[job.plan.version].minimumRecoveryScore
    BY <1>2 DEF PlanInv, Permits
  <2>4. job.plan.version \in Versions
    BY <1>2 DEF Inv, TypeOK, Plan
  <2>5. Diagnose(event.source).confidence \in 0..95
    BY Diagnoses
  <2>6. /\ Policies[policy].minimumRecoveryScore \in Nat
        /\ Policies[job.plan.version].minimumRecoveryScore \in Nat
    BY <1>3, <2>4, PolicyType
  <2>7. ASSUME Diagnose(event.source).confidence < Policies[policy].minimumRecoveryScore
        PROVE  Policies[policy].minimumRecoveryScore
                 > Policies[job.plan.version].minimumRecoveryScore
    <3> HIDE DEF v, next, pc
    <3> QED BY <2>3, <2>5, <2>6, <2>7
  <2> HIDE DEF v, next, pc
  <2> QED BY <2>1, <2>2, <2>7 DEF Postpones
<1>6. /\ pc = "checked" => v.approved /\ next = "EXECUTING"
      /\ pc = "dropped" => ~v.approved /\ ~v.stop /\ next = case.state
      /\ pc \in {"checked", "stopped", "dropped"}
      /\ next \in {"EXECUTING", "STOPPED", case.state}
  <2> HIDE DEF v
  <2> QED OBVIOUS
<1> HIDE DEF v, next, pc
<1>7. \A p \in plans' : PlanInv(p)'
  BY <1>1, Lasting DEF Inv
<1>8. case'.state = next
  BY <1>1 DEF Inv, TypeOK
<1>9. job' \in Job
  BY <1>1, <1>2, <1>3, <1>6 DEF Inv, TypeOK, Job
<1>10. TypeOK'
  BY <1>1, <1>2, <1>6, <1>9 DEF Inv, TypeOK, CaseState
<1>11. \A p, t : Permits(p, t)' <=> Permits(p, t)
  BY <1>1, Lasting
<1>12. /\ job'.pc = pc /\ job'.plan = job.plan /\ job'.version = policy /\ job'.minute = minute
  BY <1>1
<1>13. JobInv'
  <2>1. StrandedByNightOrPolicyChange'
    BY <1>2, <1>5, <1>6, <1>8, <1>12 DEF StrandedByNightOrPolicyChange
  <2>2. RecoversOnlyInTestMode'
    BY <1>2, <1>6, <1>8 DEF RecoversOnlyInTestMode
  <2>3. (Authorised => /\ job.version \in Versions
                       /\ Permits(Policies[job.version], job.plan.type)
                       /\ job.plan.type = "SMS_REMINDER" => ~IsOutsideTRAIWindow(job.minute))'
    <3>1. Permits(Policies[policy], job.plan.type)' <=> Permits(Policies[policy], job'.plan.type)
      BY <1>1, <1>11
    <3> QED BY <1>1, <1>3, <1>4, <1>6, <1>12, <3>1 DEF Authorised
  <2> QED BY <1>1, <1>2, <1>6, <1>8, <1>12, <2>1, <2>2, <2>3 DEF JobInv
<1> QED BY <1>7, <1>10, <1>13 DEF Inv

\* Adapters' answers: only the pretended retry of the test mode recovers money.
LEMMA Answered ==
    ASSUME NEW action \in {"CREATE_PAYMENT_LINK", "INITIATE_PAYMENT_RETRY",
                           "SEND_EMAIL_REMINDER", "SEND_SMS_REMINDER"},
           NEW contact, NEW result \in Outcomes(action, env, contact), env.testMode \in BOOLEAN
    PROVE  /\ NextCaseState(action, result)
                \in {"AWAITING_CUSTOMER_ACTION", "RECOVERED", "FAILED", "AMBIGUOUS"}
           /\ NextCaseState(action, result) = "RECOVERED"
                => env.testMode /\ action = "INITIATE_PAYMENT_RETRY"
<1>1. result.success \in BOOLEAN
  <2>1. \A code : Failure(code).success = FALSE
    BY DEF Failure
  <2>2. Success.success = TRUE /\ Recovered.success = TRUE
    BY DEF Success, Recovered
  <2>3. result \in {Success, Recovered} \/ \E code : result = Failure(code)
    BY DEF Outcomes, RazorpayTestModeAdapter, RazorpayAdapter, RazorpayRetryAdapter,
           ResendAdapter, TwilioAdapter
  <2> QED BY <2>1, <2>2, <2>3
<1>2. action = "INITIATE_PAYMENT_RETRY" /\ ~env.testMode => ~result.success
  BY DEF Outcomes, RazorpayRetryAdapter, Failure
<1>3. CASE ~result.success
  BY <1>3 DEF NextCaseState
<1>4. CASE result.success /\ action = "INITIATE_PAYMENT_RETRY"
  BY <1>2, <1>4 DEF NextCaseState
<1>5. CASE result.success /\ action # "INITIATE_PAYMENT_RETRY"
  BY <1>5 DEF NextCaseState
<1> QED BY <1>1, <1>3, <1>4, <1>5

LEMMA ExecuteStep ==
    ASSUME Inv, Execute
    PROVE  Inv'
<1> DEFINE action == ActionOf(job.plan.type)
<1>1. PICK result \in Outcomes(action, env, event.contact) :
        case' = [case EXCEPT !.state = NextCaseState(action, result)]
  BY DEF Execute
<1> DEFINE next == NextCaseState(action, result)
<1>2. /\ job.pc = "checked" /\ job' = [job EXCEPT !.pc = "executed"]
      /\ UNCHANGED <<event, grants, env, policy, minute, plans>>
  BY DEF Execute
<1>3. /\ job.plan \in plans /\ job.plan.status = "approved" /\ PlanInv(job.plan)
  BY <1>2 DEF Inv, JobInv
<1>4. job.plan.type \in {"PAYMENT_RETRY", "PAYMENT_LINK", "EMAIL_REMINDER", "SMS_REMINDER"}
  BY <1>3 DEF PlanInv, InterventionType
<1>5. /\ action \in {"CREATE_PAYMENT_LINK", "INITIATE_PAYMENT_RETRY",
                     "SEND_EMAIL_REMINDER", "SEND_SMS_REMINDER"}
      /\ action = "INITIATE_PAYMENT_RETRY" => job.plan.type = "PAYMENT_RETRY"
  BY <1>4 DEF ActionOf
<1>6. env.testMode \in BOOLEAN
  <2>1. env \in [testMode : BOOLEAN, razorpayMode : BOOLEAN, razorpay : BOOLEAN,
                 twilio : BOOLEAN, resend : BOOLEAN]
    BY DecisionConstants DEF Inv, TypeOK, DecisionConstants
  <2> QED BY <2>1
<1> HIDE DEF action
<1>7. /\ next \in {"AWAITING_CUSTOMER_ACTION", "RECOVERED", "FAILED", "AMBIGUOUS"}
      /\ next = "RECOVERED" => env.testMode /\ job.plan.type = "PAYMENT_RETRY"
  BY <1>1, <1>5, <1>6, Answered
<1>8. case' = [case EXCEPT !.state = next]
  BY <1>1
<1> HIDE DEF next
<1>9. \A p \in plans' : PlanInv(p)'
  BY <1>2, <1>8, Lasting DEF Inv
<1>10. case'.state = next
  BY <1>8 DEF Inv, TypeOK
<1>11. /\ job \in [pc : {"checked", "executed", "stopped", "dropped"}, plan : Plan,
                   version : Versions, minute : Minutes]
       /\ job' \in Job
  <2>1. job \in [pc : {"checked", "executed", "stopped", "dropped"}, plan : Plan,
                 version : Versions, minute : Minutes]
    BY <1>2 DEF Inv, TypeOK, Job, NoJob
  <2> QED BY <1>2, <2>1 DEF Job
<1>12. TypeOK'
  BY <1>2, <1>7, <1>8, <1>11 DEF Inv, TypeOK, CaseState
<1>13. job'.pc = "executed" /\ job'.plan = job.plan /\ job'.version = job.version
       /\ job'.minute = job.minute
  BY <1>2, <1>11
<1>14. JobInv'
  <2>1. Authorised
    BY <1>2 DEF Authorised
  <2>2. StrandedByNightOrPolicyChange'
    BY <1>13 DEF StrandedByNightOrPolicyChange
  <2>3. RecoversOnlyInTestMode'
    BY <1>2, <1>7, <1>10, <1>13 DEF RecoversOnlyInTestMode
  <2>4. \A p, t : Permits(p, t)' <=> Permits(p, t)
    BY <1>2, <1>8, Lasting
  <2>5. (Authorised => /\ job.version \in Versions
                       /\ Permits(Policies[job.version], job.plan.type)
                       /\ job.plan.type = "SMS_REMINDER" => ~IsOutsideTRAIWindow(job.minute))'
    <3>1. Permits(Policies[job.version], job.plan.type)
            <=> Permits(Policies[job'.version], job'.plan.type)
      BY <1>13
    <3>2. Permits(Policies[job.version], job.plan.type)'
      BY <1>13, <2>1, <2>4 DEF Inv, JobInv
    <3> QED BY <1>13, <2>1, <3>2 DEF Inv, JobInv
  <2> QED BY <1>2, <1>3, <1>13, <2>2, <2>3, <2>5 DEF JobInv
<1> QED BY <1>9, <1>12, <1>14 DEF Inv

\* The day goes on, and the merchant changes the policy.
LEMMA AroundStep ==
    ASSUME Inv, TimePasses \/ UpdatePolicy \/ UNCHANGED vars
    PROVE  Inv'
<1>1. UNCHANGED <<case, event, grants, env, plans, job>>
  BY DEF TimePasses, UpdatePolicy, vars
<1>2. policy' \in Versions /\ minute' \in Minutes
  BY DEF TimePasses, UpdatePolicy, vars, Inv, TypeOK
<1>3. TypeOK'
  BY <1>1, <1>2 DEF Inv, TypeOK
<1>4. \A p \in plans' : PlanInv(p)'
  BY <1>1 DEF Inv, PlanInv, Permits
<1>5. JobInv'
  BY <1>1 DEF Inv, JobInv, Authorised, Permits, StrandedByNightOrPolicyChange,
              RecoversOnlyInTestMode
<1> QED BY <1>3, <1>4, <1>5 DEF Inv

LEMMA Invariant == Spec => []Inv
<1>1. Inv /\ [Next]_vars => Inv'
  BY CreatePlanStep, EnqueuePlanStep, ReevaluateStep, ExecuteStep, AroundStep DEF Next
<1> QED BY <1>1, Initially, PTL DEF Spec

-----------------------------------------------------------------------------
\* Every variable of the pipeline keeps its type.
THEOREM DecisionTypeCorrect == Spec => []TypeOK
<1>1. Inv => TypeOK
  BY DEF Inv
<1> QED BY <1>1, Invariant, PTL

\* What is executed is permitted by the policy it was planned under and by the
\* one the worker looked at, is below the threshold for a human and no fraud.
THEOREM ExecutedIsPermitted == Spec => []AutomaticExecutionIsPermitted
<1>1. Inv => AutomaticExecutionIsPermitted
  <2> SUFFICES ASSUME Inv, Authorised PROVE AutomaticExecutionIsPermitted
    BY DEF AutomaticExecutionIsPermitted
  <2>1. PlanInv(job.plan) /\ job.plan.status = "approved"
    BY DEF Inv, JobInv, Authorised
  <2> QED BY <2>1 DEF Inv, JobInv, PlanInv, AutomaticExecutionIsPermitted
<1> QED BY <1>1, Invariant, PTL

\* Reminders are planned, and an SMS is found again, inside the contact window.
THEOREM QuietHoursKept == Spec => []QuietHours
<1>1. Inv => QuietHours
  <2> SUFFICES ASSUME Inv, Authorised PROVE QuietHours
    BY DEF QuietHours
  <2>1. PlanInv(job.plan) /\ job.plan.status = "approved"
    BY DEF Inv, JobInv, Authorised
  <2> QED BY <2>1 DEF Inv, JobInv, PlanInv, QuietHours
<1> QED BY <1>1, Invariant, PTL

\* The worker runs four of the seven interventions only.
THEOREM CustomerRemediesOnly == Spec => []OnlyCustomerRemediesExecuted
<1>1. Inv => OnlyCustomerRemediesExecuted
  <2> SUFFICES ASSUME Inv, Authorised PROVE OnlyCustomerRemediesExecuted
    BY DEF OnlyCustomerRemediesExecuted
  <2>1. PlanInv(job.plan) /\ job.plan.status = "approved"
    BY DEF Inv, JobInv, Authorised
  <2> QED BY <2>1 DEF PlanInv, InterventionType, OnlyCustomerRemediesExecuted
<1> QED BY <1>1, Invariant, PTL

\* A dropped job leaves its case QUEUED for the night or for a raised score.
THEOREM StrandedWhy == Spec => []StrandedByNightOrPolicyChange
<1>1. Inv => StrandedByNightOrPolicyChange
  BY DEF Inv, JobInv
<1> QED BY <1>1, Invariant, PTL

\* No answer of the scoring service changes what is planned: the branch of
\* recommendIntervention that reads the scores comes too late (ScoresComeTooLate).
THEOREM ScoresAreAdvisory == Spec => []PropensityIsAdvisory
<1>1. Inv => PropensityIsAdvisory
  BY ScoresDoNotMatter DEF Inv, PlanInv, PropensityIsAdvisory
<1> QED BY <1>1, Invariant, PTL

\* No adapter's answer recovers a case, but that of the test mode's retry.
THEOREM RecoveredInTestMode == Spec => []RecoversOnlyInTestMode
<1>1. Inv => RecoversOnlyInTestMode
  BY DEF Inv, JobInv
<1> QED BY <1>1, Invariant, PTL
=============================================================================
