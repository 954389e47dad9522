--------------------------- MODULE EvaluationHarness ---------------------------
(***************************************************************************)
(* The offline evaluation: runEvaluation gives every case of the dataset   *)
(* to three strategies and computes the metrics from their results.  The   *)
(* system under test is the production code, qualification and planning    *)
(* as in modules Qualification and RecoveryDecision, in a loop that        *)
(* pretends to be the providers.                                           *)
(*                                                                         *)
(* The evaluation runs offline (OFFLINE_EVALUATION), so no LLM is called.  *)
(***************************************************************************)
EXTENDS Qualification, RecoveryDecision, Sequences, FiniteSets

CONSTANTS
    NumCases,   \* cases of the dataset
    Amounts,    \* amounts at risk, between 10000 and 500000
    Minutes,    \* times of day of the events
    Lags,       \* hours between the generation and the evaluation
    Answers,    \* what the scoring service may answer, NoAnswer included
    MaxAttempts \* maximumAttempts of the generated cases

\* A case has at least the two attempts it takes to survive a timeout.
ASSUME EvaluationConstants ==
    /\ NumCases \in Nat
    /\ Amounts \subseteq Nat
    /\ \A amount \in Amounts : 10000 <= amount /\ amount <= 500000
    /\ Minutes \subseteq Nat
    /\ \A minute \in Minutes : minute < 1440
    /\ Lags \subseteq Nat
    /\ MaxAttempts \in Nat
    /\ MaxAttempts >= 2

VARIABLES
    dataset, \* the cases
    lag,     \* hours since their events
    naive,   \* results of Baseline1Strategy so far
    sut,     \* results of SystemUnderTestStrategy so far
    loop,    \* evaluate() of the system under test: where it is
    metrics  \* MetricsCalculator.compute: the cases counted, and their totals

vars == <<dataset, lag, naive, sut, loop, metrics>>

-----------------------------------------------------------------------------
(* The dataset *)

Scenario == {"INSUFFICIENT_FUNDS", "BANK_TIMEOUT", "CARD_EXPIRED", "DO_NOT_HONOR",
             "INVALID_CVV", "FRAUD_SUSPECTED"}

Recoverable == {"BANK_TIMEOUT", "CARD_EXPIRED", "INVALID_CVV"}

\* generateGroundTruth: how the provider will behave.
ProviderScenarios(scenario) ==
    CASE scenario = "BANK_TIMEOUT" -> {"success", "timeout_once_then_success"}
      [] scenario \in {"CARD_EXPIRED", "INVALID_CVV"} -> {"payment_link_paid_after_event"}
      [] OTHER -> {"permanent_failure"}

EvaluationCase ==
    UNION {[scenario : {s}, provider : ProviderScenarios(s), amount : Amounts,
            minute : Minutes] : s \in Scenario}

\* The event of a case: the reason without its SCN_ prefix.  The consents are
\* handed over as text, in which the workflow finds no channel refused.
SourceEvent(c) == [type |-> "PAYMENT_FAILED", reason |-> c.scenario, segment |-> "standard",
                   amount |-> c.amount, currency |-> "INR", consents |-> "none",
                   attemptsToday |-> 0]

Config == [minimumAmount |-> 50, supportedCurrencies |-> {"INR", "USD"},
           eventMaxAgeHours |-> 720, excludedMerchantSegments |-> {},
           supportedEventTypes |-> {"PAYMENT_FAILED", "SUBSCRIPTION_FAILED", "INVOICE_OVERDUE"}]

MerchantPolicy ==
    [enabled |-> TRUE, currencies |-> {}, allowCrossBorder |-> TRUE,
     maxAttempts |-> MaxAttempts, minimumRecoveryScore |-> 10, maxRetryAmount |-> 1000000,
     manualApprovalAbove |-> 5000000, maxMessages |-> 2,
     allowed |-> {"PAYMENT_RETRY", "EMAIL_REMINDER", "SMS_REMINDER", "NO_ACTION",
                  "HUMAN_ESCALATION"}]

-----------------------------------------------------------------------------
(* Results *)

Counters == {"attempted", "succeeded", "false", "blocks", "escalations", "stops",
             "consentBlocks", "timeouts", "retries", "failures", "aiRequests", "recovered"}

\* Baseline0Strategy's result, and where the others begin.
Nothing == [counter \in Counters |-> 0]

Plus(r, counters) == [counter \in Counters |->
    r[counter] + IF counter \in counters THEN 1 ELSE 0]

\* Mutant: the repeated reminder recovers the amount again.
NaiveTwice(c) ==
    IF c.scenario \notin Recoverable THEN Plus(Nothing, {"attempted", "false", "failures"})
    ELSE IF c.provider = "timeout_once_then_success"
      THEN [Plus(Nothing, {"succeeded"}) EXCEPT !.attempted = 2, !.recovered = 2 * c.amount]
      ELSE [Plus(Nothing, {"attempted", "succeeded"}) EXCEPT !.recovered = c.amount]

\* Baseline1Strategy: one reminder to everybody, repeated after a timeout.
Naive(c) ==
    CASE c.scenario \notin Recoverable -> Plus(Nothing, {"attempted", "false", "failures"})
      [] c.scenario \in Recoverable /\ c.provider # "timeout_once_then_success" ->
           [Plus(Nothing, {"attempted", "succeeded"}) EXCEPT !.recovered = c.amount]
      [] c.scenario \in Recoverable /\ c.provider = "timeout_once_then_success" ->
           [Plus(Nothing, {"succeeded", "timeouts", "retries"}) EXCEPT !.attempted = 2,
                                                                      !.recovered = c.amount]

NoMetrics == [cases |-> 0, atRisk |-> 0, baseline1 |-> 0, system |-> Nothing]

Idle == [pc |-> "idle", state |-> "DETECTED", attempts |-> 0, result |-> Nothing]

Init ==
    /\ dataset \in [1..NumCases -> EvaluationCase]
    /\ lag \in Lags
    /\ naive = <<>>
    /\ sut = <<>>
    /\ loop = Idle
    /\ metrics = NoMetrics

Current == dataset[Len(sut) + 1]

-----------------------------------------------------------------------------
(* The system under test *)

Return(result) ==
    /\ sut' = Append(sut, result)
    /\ loop' = Idle

\* The next case: an event that does not qualify is a stop.
Begin ==
    /\ loop.pc = "idle"
    /\ Len(sut) < NumCases
    /\ naive' = Append(naive, Naive(Current))
    /\ IF Eligible(SourceEvent(Current), Config, lag)
         THEN loop' = [Idle EXCEPT !.pc = "loop"] /\ UNCHANGED sut
         ELSE Return(Plus(Nothing, {"stops"}))
    /\ UNCHANGED <<dataset, lag, metrics>>

Over == loop.attempts >= MaxAttempts \/ loop.state \in {"RECOVERED", "STOPPED", "ESCALATED"}

\* Mutant: time stands still.
ProposalsAtOnce ==
    {Propose([state |-> loop.state, amount |-> Current.amount, currency |-> "INR",
              attempts |-> loop.attempts],
             SourceEvent(Current), MerchantPolicy, {}, answer, Current.minute) :
        answer \in Answers}

\* What may be proposed, depending on the scoring service.  An hour passes
\* between the attempts.
Proposals ==
    {Propose(c, e, MerchantPolicy, {}, answer, minute) :
        c \in {[state |-> loop.state, amount |-> Current.amount, currency |-> "INR",
               attempts |-> loop.attempts]},
        e \in {SourceEvent(Current)},
        minute \in {(Current.minute + 60 * loop.attempts) % 1440},
        answer \in Answers}

\* A rejected plan: what is neither stopped nor escalated stops as well.
Block(v, r) ==
    LET counter == IF v.stop \/ ~v.escalate THEN "stops" ELSE "escalations"
        block   == IF "CONSENT_MISSING" \in v.reasons THEN "consentBlocks" ELSE "blocks"
    IN loop' = [loop EXCEPT !.state = IF counter = "stops" THEN "STOPPED" ELSE "ESCALATED",
                            !.result = Plus(r, {block, counter})]

\* Mutant: a timeout does not count as an attempt.
AttemptUnlessTimeout(r) ==
    LET late == Current.provider = "timeout_once_then_success" /\ loop.attempts = 0
        good == Current.provider # "permanent_failure" /\ ~late
    IN loop' = [loop EXCEPT
         !.attempts = @ + 1,
         !.state    = IF good THEN "RECOVERED" ELSE "RETRYABLE",
         !.result   = IF late THEN Plus(r, {"timeouts", "retries"})
                      ELSE IF good THEN [Plus(r, {"attempted", "succeeded"})
                                           EXCEPT !.recovered = Current.amount]
                      ELSE Plus(r, {"attempted", "failures"})]

\* What the ground truth says of the attempt.
Attempt(r) ==
    LET attempt   == Plus(r, {"attempted"})
        first     == loop.attempts = 0
        recovered == [Plus(attempt, {"succeeded"}) EXCEPT !.recovered = Current.amount]
    IN
    \/ /\ \/ Current.provider \in {"success", "payment_link_paid_after_event"}
          \/ Current.provider = "timeout_once_then_success" /\ ~first
       /\ loop' = [loop EXCEPT !.attempts = @ + 1, !.state = "RECOVERED", !.result = recovered]
    \/ /\ Current.provider = "timeout_once_then_success" /\ first
       /\ loop' = [loop EXCEPT !.attempts = @ + 1, !.state = "RETRYABLE",
                               !.result = Plus(attempt, {"timeouts", "retries"})]
    \/ /\ Current.provider = "permanent_failure"
       /\ loop' = [loop EXCEPT !.attempts = @ + 1, !.state = "RETRYABLE",
                               !.result = Plus(attempt, {"failures"})]

\* Mutant: whatever is approved is executed.
TurnExecutesAll ==
    /\ loop.pc = "loop"
    /\ ~Over
    /\ \E p \in Proposals :
         IF p.verdict.approved THEN Attempt(loop.result) ELSE Block(p.verdict, loop.result)
    /\ UNCHANGED <<dataset, lag, naive, sut, metrics>>

\* A turn of the loop.  A reminder counts as a request to the LLM even if the
\* policy rejects it.
Turn ==
    /\ loop.pc = "loop"
    /\ ~Over
    /\ \E p \in Proposals :
         LET r == IF p.type \in {"SMS_REMINDER", "EMAIL_REMINDER"}
                    THEN Plus(loop.result, {"aiRequests"}) ELSE loop.result
         IN
         \/ ~p.verdict.approved /\ Block(p.verdict, r)
         \/ /\ p.verdict.approved
            /\ p.type = "HUMAN_ESCALATION" \/ p.verdict.human
            /\ loop' = [loop EXCEPT !.state = "ESCALATED", !.result = Plus(r, {"escalations"})]
         \/ /\ p.verdict.approved
            /\ p.type # "HUMAN_ESCALATION" /\ ~p.verdict.human
            /\ Attempt(r)
    /\ UNCHANGED <<dataset, lag, naive, sut, metrics>>

\* Mutant: they are not counted as an escalation.
FinishSilently ==
    /\ loop.pc = "loop"
    /\ Over
    /\ Return(loop.result)
    /\ UNCHANGED <<dataset, lag, naive, metrics>>

\* Attempts that are used up without an end count as an escalation.
Finish ==
    /\ loop.pc = "loop"
    /\ Over
    /\ IF loop.state \in {"DETECTED", "RETRYABLE"}
         THEN Return(Plus(loop.result, {"escalations"}))
         ELSE Return(loop.result)
    /\ UNCHANGED <<dataset, lag, naive, metrics>>

-----------------------------------------------------------------------------
(* Metrics *)

Done == Len(sut) = NumCases

\* Each counter of a result is added to its total.
Add(total, r) == [counter \in Counters |-> total[counter] + r[counter]]

\* When all strategies are through, the amount and the results of one case after
\* the other enter the totals; what the first baseline recovers is nothing.
Compute ==
    /\ Done
    /\ metrics.cases < NumCases
    /\ LET i == metrics.cases + 1
       IN metrics' = [cases     |-> i,
                      atRisk    |-> metrics.atRisk + dataset[i].amount,
                      baseline1 |-> metrics.baseline1 + naive[i].recovered,
                      system    |-> Add(metrics.system, sut[i])]
    /\ UNCHANGED <<dataset, lag, naive, sut, loop>>

Next == Begin \/ Turn \/ Finish \/ Compute

Spec == Init /\ [][Next]_vars

\* A penalty for each fraud case that was acted on.
Chargebacks(results) ==
    {i \in DOMAIN results : dataset[i].scenario = "FRAUD_SUSPECTED" /\ results[i].attempted > 0}

-----------------------------------------------------------------------------
(* Properties *)

\* Every case of the system under test ends one way: recovered with its whole
\* amount and one success, stopped, or escalated.  So the metrics add up to the
\* cases, as 35 + 38 + 97 = 170 in the published results.
EveryCaseEndsOneWay ==
    /\ \A i \in DOMAIN sut :
         LET r == sut[i] IN
         /\ r.succeeded + r.stops + r.escalations = 1
         /\ r.recovered = r.succeeded * dataset[i].amount
    /\ metrics.system.succeeded + metrics.system.stops + metrics.system.escalations
         = metrics.cases

\* Where the attempts of the system under test went: each is a success, a timeout
\* or a final failure, every request to the LLM is for a reminder that was either
\* attempted or blocked, and no case uses more attempts than it has.
AttemptsAreAccounted ==
    \A i \in DOMAIN sut :
        LET r == sut[i] IN
        /\ r.attempted = r.succeeded + r.timeouts + r.failures
        /\ r.retries = r.timeouts
        /\ r.attempted <= MaxAttempts
        /\ r.aiRequests <= r.attempted + r.blocks

\* "Fraud cases that are blocked from retry by policy": none is ever attempted,
\* although the generator's reason FRAUD_SUSPECTED is not the SUSPECTED_FRAUD that
\* the diagnosis knows, and no fraud rule applies to it.
FraudIsNeverAttempted == Chargebacks(sut) = {}

\* IntegrityAssertions.assertValid never throws, whenever the totals are looked at,
\* and what its comment asks for holds case by case, for the naive baseline, too.
IntegrityHolds ==
    /\ metrics.system.recovered <= metrics.atRisk
    /\ metrics.system.false <= metrics.system.attempted
    /\ metrics.system.succeeded <= metrics.system.attempted
    /\ metrics.baseline1 <= metrics.atRisk
    /\ \A results \in {naive, sut} : \A i \in DOMAIN results :
         /\ results[i].recovered <= dataset[i].amount
         /\ results[i].succeeded <= results[i].attempted
         /\ results[i].false <= results[i].attempted

\* Hours from the event on, an hour apart, that lie in the contact window, up to
\* the first that does not.
OpenHours(c) ==
    LET Open(k) == ~IsOutsideTRAIWindow((c.minute + 60 * k) % 1440)
    IN Cardinality({k \in 0..MaxAttempts - 1 : \A j \in 0..k : Open(j)})

\* What the result of a case must be, told without the pipeline.  It depends on
\* the ground truth and the hour only: not on the scores, and on the day of the
\* evaluation only when the events have become older than 30 days.
Expected(c) ==
    IF lag > 720 THEN Plus(Nothing, {"stops"})
    ELSE IF c.scenario = "BANK_TIMEOUT" THEN
        IF c.provider = "success"
          THEN [Plus(Nothing, {"attempted", "succeeded"}) EXCEPT !.recovered = c.amount]
          ELSE [Plus(Nothing, {"succeeded", "timeouts", "retries"})
                  EXCEPT !.attempted = 2, !.recovered = c.amount]
    ELSE IF c.scenario = "INSUFFICIENT_FUNDS" THEN
        LET k == OpenHours(c) IN
        IF k = MaxAttempts
          THEN [Plus(Nothing, {"escalations"}) EXCEPT !.attempted = k, !.failures = k,
                                                      !.aiRequests = k]
          ELSE [Plus(Nothing, {"stops", "blocks"}) EXCEPT !.attempted = k, !.failures = k,
                                                          !.aiRequests = k + 1]
    ELSE Plus(Nothing, {"escalations"})

\* "Produces identical numbers on every run": the results are those expected.
ResultsReproducible == \A i \in DOMAIN sut : sut[i] = Expected(dataset[i])
=============================================================================
