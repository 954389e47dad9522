-------------------------- MODULE MCDecisionPipeline --------------------------
EXTENDS DecisionPipeline

\* Thresholds at which the amounts and confidences fall on either side and on
\* the boundary.
BasePolicy ==
    [enabled |-> TRUE, currencies |-> {}, allowCrossBorder |-> TRUE, maxAttempts |-> 3,
     allowed |-> InterventionType, minimumRecoveryScore |-> 75, maxRetryAmount |-> 200,
     manualApprovalAbove |-> 400, maxMessages |-> 2]

VersionsUsed == {"base", "strict", "channels", "off"}

PoliciesUsed ==
    [v \in VersionsUsed |->
       CASE v = "base"     -> BasePolicy
         [] v = "strict"   -> [BasePolicy EXCEPT !.minimumRecoveryScore = 90,
                                                 !.maxRetryAmount = 100,
                                                 !.manualApprovalAbove = 200,
                                                 !.currencies = {"INR"}]
         [] v = "channels" -> [BasePolicy EXCEPT
                                 !.allowed = {"SMS_REMINDER", "PAYMENT_RETRY", "HUMAN_ESCALATION"},
                                 !.allowCrossBorder = FALSE]
         [] v = "off"      -> [BasePolicy EXCEPT !.enabled = FALSE]]

Occurrence(type, reason, today) ==
    [type |-> type, reason |-> reason, consents |-> "none", attemptsToday |-> today]

EventsUsed ==
    {Occurrence("PAYMENT_FAILED", reason, 0) :
        reason \in {"BANK_TIMEOUT", "INSUFFICIENT_FUNDS", "AUTHENTICATION_REQUIRED",
                    "CARD_EXPIRED", "SUSPECTED_FRAUD"}}
    \cup {Occurrence("SUBSCRIPTION_FAILED", "none", 0),
          Occurrence("CHECKOUT_ABANDONED", "none", 0),
          Occurrence("CHECKOUT_ABANDONED", "none", 2),
          Occurrence("INVOICE_OVERDUE", "none", 0)}

\* A reminder by mail can be sent, one by message cannot.
ContactsUsed == {[email |-> TRUE, phone |-> FALSE]}

EnvsUsed ==
    {[testMode |-> test, razorpayMode |-> ~test, razorpay |-> TRUE, twilio |-> TRUE,
      resend |-> TRUE] : test \in BOOLEAN}

AnyGrants == {{}, {"EMAIL_REMINDER"}}
AllGrants == {Reminders}

\* 08:59, 09:00, 19:59 and 20:00 in India.
MinutesUsed == {209, 210, 869, 870}

AnswersUsed == {NoAnswer, [retry |-> 90, link |-> 10], [retry |-> 10, link |-> 90]}
=============================================================================
