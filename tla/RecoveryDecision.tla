--------------------------- MODULE RecoveryDecision ---------------------------
(***************************************************************************)
(* What the dunning workflow decides about a case: diagnosis, candidate    *)
(* interventions, recommendation, policy evaluation and the case state     *)
(* they lead to.  Amounts are minor units, scores and confidences per      *)
(* cent, times minutes of a UTC day.                                       *)
(*                                                                         *)
(* A case is [state, amount, currency, attempts], an event [type, reason,  *)
(* consents, attemptsToday] with reason "none" when missing and consents   *)
(* "none" or a record of channels, a policy p the merchant's configuration *)
(* with p.currencies empty when supportedCurrencies is missing.            *)
(***************************************************************************)
EXTENDS Integers

RootCause == {"UNKNOWN", "FRAUD", "TRANSIENT", "INSUFFICIENT_FUNDS", "CUSTOMER_ACTION",
              "MANDATE", "CHECKOUT_DROP_OFF", "COLLECTION_DELAY"}

InterventionType == {"PAYMENT_RETRY", "PAYMENT_LINK", "EMAIL_REMINDER", "SMS_REMINDER",
                     "VOICE_REMINDER", "HUMAN_ESCALATION", "NO_ACTION"}

Reminders == {"EMAIL_REMINDER", "SMS_REMINDER", "VOICE_REMINDER"}
Terminal  == {"RECOVERED", "FAILED", "STOPPED", "EXPIRED", "REJECTED"}

\* Contact is allowed from 09:00 to 20:00 Indian time, UTC + 5:30.
IndianHour(minute) == ((minute + 330) \div 60) % 24
IsOutsideTRAIWindow(minute) == IndianHour(minute) < 9 \/ IndianHour(minute) >= 20

-----------------------------------------------------------------------------
(* Diagnosis *)

Cause(rootCause, confidence) == [rootCause |-> rootCause, confidence |-> confidence]

DiagnosePayment(reason) ==
    IF reason \in {"BANK_TIMEOUT", "NETWORK_ERROR"} THEN Cause("TRANSIENT", 95)
    ELSE IF reason = "INSUFFICIENT_FUNDS"           THEN Cause("INSUFFICIENT_FUNDS", 95)
    ELSE IF reason = "AUTHENTICATION_REQUIRED"      THEN Cause("CUSTOMER_ACTION", 95)
    ELSE Cause("UNKNOWN", 75)

\* Fraud first, whatever the event; then by event type.
Diagnose(e) ==
    IF e.reason = "SUSPECTED_FRAUD" THEN Cause("FRAUD", 0)
    ELSE CASE e.type = "PAYMENT_FAILED"      -> DiagnosePayment(e.reason)
           [] e.type = "SUBSCRIPTION_FAILED" ->
                Cause("MANDATE", IF e.reason = "MANDATE_FAILED" THEN 95 ELSE 75)
           [] e.type = "CHECKOUT_ABANDONED"  -> Cause("CHECKOUT_DROP_OFF", 95)
           [] e.type = "INVOICE_OVERDUE"     -> Cause("COLLECTION_DELAY", 95)
           [] OTHER                          -> Cause("UNKNOWN", 40)

-----------------------------------------------------------------------------
(* Propensity scores *)

Clamp(x) == IF x < 0 THEN 0 ELSE IF x > 100 THEN 100 ELSE x

NoAnswer == [retry |-> -1, link |-> -1]

\* Without an answer of the scoring service the scores follow from the amount
\* and the attempts.  The features always say "Urban".
ScorePropensity(c, answer) ==
    LET large    == c.amount > 1000000
        worn     == c.attempts > 2
        fallback == [retry |-> Clamp(50 - (IF large THEN 10 ELSE 0) - (IF worn THEN 20 ELSE 0)),
                     link  |-> Clamp(50 + (IF large THEN 20 ELSE 0) + (IF worn THEN 20 ELSE 0))]
        scores   == IF answer = NoAnswer THEN fallback ELSE answer
    IN [retry |-> scores.retry, link |-> scores.link, location |-> "Urban"]

-----------------------------------------------------------------------------
(* Candidates and recommendation *)

Candidates(rootCause) ==
    CASE rootCause = "TRANSIENT" -> {"PAYMENT_RETRY", "PAYMENT_LINK", "HUMAN_ESCALATION"}
      [] rootCause = "INSUFFICIENT_FUNDS" ->
           {"PAYMENT_LINK", "SMS_REMINDER", "EMAIL_REMINDER", "HUMAN_ESCALATION"}
      [] rootCause = "CUSTOMER_ACTION"    -> {"PAYMENT_LINK", "SMS_REMINDER", "EMAIL_REMINDER"}
      [] rootCause = "MANDATE"            -> {"PAYMENT_LINK", "EMAIL_REMINDER", "HUMAN_ESCALATION"}
      [] rootCause = "CHECKOUT_DROP_OFF"  -> {"SMS_REMINDER", "EMAIL_REMINDER", "NO_ACTION"}
      [] rootCause = "COLLECTION_DELAY"   -> {"EMAIL_REMINDER", "HUMAN_ESCALATION"}
      [] OTHER                            -> {"HUMAN_ESCALATION", "NO_ACTION"}

\* What the merchant allows of them, or NO_ACTION.
SelectCandidates(d, p) ==
    LET allowed == Candidates(d.rootCause) \cap p.allowed
    IN IF allowed = {} THEN {"NO_ACTION"} ELSE allowed

\* The first of these interventions that is a candidate.
FirstOf(first, second, candidates) ==
    IF first \in candidates THEN first
    ELSE IF second \in candidates THEN second ELSE "NO_ACTION"

\* Mutant: the rule knows fewer causes than the scores below.
PrefersLinkOnAction(d, candidates, active) ==
    d.rootCause = "CUSTOMER_ACTION" /\ "PAYMENT_LINK" \in candidates \ active

\* "prefer PAYMENT_LINK over direct retry"; active is the set of intervention
\* types with an active row.
PrefersLink(d, candidates, active) ==
    /\ d.rootCause \in {"CUSTOMER_ACTION", "INSUFFICIENT_FUNDS", "MANDATE"}
    /\ "PAYMENT_LINK" \in candidates \ active

\* "Causal ML Propensity Guidance", for the same causes.
PropensityPrefersLink(d, candidates, active, scores) ==
    /\ scores.link > scores.retry
    /\ "PAYMENT_LINK" \in candidates \ active
    /\ d.rootCause \in {"CUSTOMER_ACTION", "INSUFFICIENT_FUNDS", "MANDATE"}

Recommend(c, d, candidates, p, active, scores) ==
    LET human     == "HUMAN_ESCALATION" \in candidates
        unsure    == d.confidence < p.minimumRecoveryScore
        manual    == c.amount >= p.manualApprovalAbove
        retryable == /\ "PAYMENT_RETRY" \in candidates \ active
                     /\ d.rootCause = "TRANSIENT"
                     /\ c.amount <= p.maxRetryAmount
                     /\ c.attempts < p.maxAttempts
        reminders == IF active \cap Reminders = {} THEN candidates \cap Reminders ELSE {}
    IN
    IF candidates = {"NO_ACTION"}          THEN "NO_ACTION"
    ELSE IF unsure /\ ~human               THEN "NO_ACTION"
    ELSE IF unsure \/ (manual /\ human)    THEN "HUMAN_ESCALATION"
    ELSE IF retryable                      THEN "PAYMENT_RETRY"
    ELSE IF PrefersLink(d, candidates, active)
                                           THEN "PAYMENT_LINK"
    ELSE IF PropensityPrefersLink(d, candidates, active, scores)
                                           THEN "PAYMENT_LINK"
    ELSE IF reminders # {} /\ scores.location = "Urban"
                                           THEN FirstOf("EMAIL_REMINDER", "SMS_REMINDER", reminders)
    ELSE IF reminders # {}                 THEN FirstOf("SMS_REMINDER", "EMAIL_REMINDER", reminders)
    ELSE IF human                          THEN "HUMAN_ESCALATION"
    ELSE "NO_ACTION"

\* The workflow overrides it for an expired card or an authentication problem,
\* and for a failure that looks transient on one of the first three attempts.
Override(c, e, d, candidates, recommended) ==
    IF /\ e.reason \in {"CARD_EXPIRED", "EXPIRED_CARD"} \/ d.rootCause = "CUSTOMER_ACTION"
       /\ "PAYMENT_LINK" \in candidates
    THEN "PAYMENT_LINK"
    ELSE IF /\ e.reason \in {"BANK_TIMEOUT", "NETWORK_ERROR"} \/ d.rootCause = "TRANSIENT"
            /\ c.attempts < 3
            /\ "PAYMENT_RETRY" \in candidates
    THEN "PAYMENT_RETRY"
    ELSE recommended

Recommended(c, e, p, active, answer) ==
    LET d          == Diagnose(e)
        candidates == SelectCandidates(d, p)
    IN Override(c, e, d, candidates,
                Recommend(c, d, candidates, p, active, ScorePropensity(c, answer)))

-----------------------------------------------------------------------------
(* Policy *)

Verdict(approved, human, stop, escalate, reasons) ==
    [approved |-> approved, human |-> human, stop |-> stop, escalate |-> escalate,
     reasons |-> reasons]

Stop(reason) == Verdict(FALSE, FALSE, TRUE, FALSE, {reason})

\* Mutant: a rejection for a human does not stop the case.
OnlyAsk(reason) == Verdict(FALSE, TRUE, FALSE, TRUE, {reason})

StopAndAsk(reason) == Verdict(FALSE, TRUE, TRUE, TRUE, {reason})

Later(reasons) == Verdict(FALSE, FALSE, FALSE, FALSE, reasons)

\* Domestic currencies are the supported ones, or INR where none are listed.
Domestic(p) == IF p.currencies = {} THEN {"INR"} ELSE p.currencies

\* The rules in their order; consent is FALSE only where it is known to be
\* refused, limited where the contact limit is known to be reached.
EvaluateRecoveryPolicy(c, d, type, p, consent, limited, minute) ==
    LET manual == IF c.amount >= p.manualApprovalAbove THEN {"HUMAN_APPROVAL_REQUIRED"} ELSE {}
        ask    == manual # {} \/ type = "HUMAN_ESCALATION"
    IN
    IF c.state \in Terminal                  THEN Stop("TERMINAL_CASE")
    ELSE IF ~p.enabled                       THEN Stop("MERCHANT_POLICY_EXCLUDED")
    ELSE IF d.rootCause = "FRAUD"            THEN Stop("FRAUD_DETECTED")
    ELSE IF p.currencies # {} /\ c.currency \notin p.currencies
                                             THEN StopAndAsk("CURRENCY_NOT_SUPPORTED")
    ELSE IF ~p.allowCrossBorder /\ c.currency \notin Domestic(p)
                                             THEN StopAndAsk("CROSS_BORDER_RESTRICTED")
    ELSE IF c.attempts >= p.maxAttempts      THEN Stop("ATTEMPT_LIMIT_REACHED")
    ELSE IF type \notin p.allowed            THEN Stop("CHANNEL_NOT_ALLOWED")
    ELSE IF /\ d.confidence < p.minimumRecoveryScore
            /\ type \notin {"HUMAN_ESCALATION", "NO_ACTION"}
                                             THEN Verdict(FALSE, TRUE, FALSE, TRUE,
                                                          {"LOW_CONFIDENCE_ESCALATION"})
    ELSE IF type = "PAYMENT_RETRY" /\ c.amount > p.maxRetryAmount
                                             THEN Verdict(FALSE, FALSE, TRUE, TRUE,
                                                          {"RETRY_AMOUNT_LIMIT_EXCEEDED"})
    ELSE IF ~consent                         THEN StopAndAsk("CONSENT_MISSING")
    ELSE IF limited /\ type \in Reminders    THEN Later({"ATTEMPT_LIMIT_REACHED"})
    ELSE IF /\ type \in {"VOICE_REMINDER", "SMS_REMINDER"}
            /\ IsOutsideTRAIWindow(minute)   THEN Later(manual \cup {"CHANNEL_NOT_ALLOWED"})
    ELSE IF type = "NO_ACTION"               THEN [Stop("NO_SAFE_INTERVENTION")
                                                     EXCEPT !.reasons = manual \cup @]
    ELSE Verdict(TRUE, ask, FALSE, type = "HUMAN_ESCALATION", manual)

\* The workflow knows of a refused consent only from the event's own metadata.
Consents(e, type) ==
    \/ e.consents = "none"
    \/ /\ type = "EMAIL_REMINDER" => e.consents.email
       /\ type = "SMS_REMINDER"   => e.consents.sms
       /\ type = "VOICE_REMINDER" => e.consents.voice

\* Mutant: the limit is on attempts alone.
AttemptsReached(e, p, minute) == e.attemptsToday >= p.maxMessages

\* The contact limit is reached outside the window or by the day's attempts.
ContactLimitReached(e, p, minute) ==
    \/ IsOutsideTRAIWindow(minute)
    \/ e.attemptsToday >= IF p.maxMessages = 0 THEN 3 ELSE p.maxMessages

\* DETECTED and RETRYABLE cases are proposed a plan.
Propose(c, e, p, active, answer, minute) ==
    LET type    == Recommended(c, e, p, active, answer)
        verdict == EvaluateRecoveryPolicy(c, Diagnose(e), type, p, Consents(e, type),
                                          ContactLimitReached(e, p, minute), minute)
    IN [type |-> type, verdict |-> verdict]

\* The state a case takes from the verdict on its plan.
ResolvePlanningOutcome(v) ==
    CASE v.approved /\ ~v.human                -> "POLICY_CHECKED"
      [] v.approved /\ v.human                 -> "ESCALATED"
      [] ~v.approved /\ v.stop                 -> "STOPPED"
      [] ~v.approved /\ ~v.stop /\ v.escalate  -> "ESCALATED"
      [] ~v.approved /\ ~v.stop /\ ~v.escalate -> "RETRYABLE"
=============================================================================
