---------------------------- MODULE Qualification ----------------------------
(***************************************************************************)
(* qualifyRevenueEvent: which revenue events become recovery cases.  The   *)
(* rules do not stop at the first one that fails: every reason is listed,  *)
(* and an event is eligible when there is none.                            *)
(***************************************************************************)
EXTENDS Integers

Actionable == {"PAYMENT_FAILED", "SUBSCRIPTION_FAILED", "INVOICE_OVERDUE", "CHECKOUT_ABANDONED"}
Informational == {"PAYMENT_RECOVERED", "PAYMENT_STATUS_UPDATED"}

\* A revenue event e under a configuration c, ageHours after it occurred; a
\* missing failure reason is "none".
Objections(e, c, ageHours) ==
    [MERCHANT_SEGMENT_EXCLUDED  |-> e.segment \in c.excludedMerchantSegments,
     ZERO_AMOUNT                |-> e.amount <= 0,
     BELOW_MINIMUM_AMOUNT       |-> 0 < e.amount /\ e.amount < c.minimumAmount,
     UNSUPPORTED_CURRENCY       |-> e.currency \notin c.supportedCurrencies,
     EVENT_STALE                |-> ageHours > c.eventMaxAgeHours,
     UNSUPPORTED_EVENT_TYPE     |-> e.type \notin c.supportedEventTypes,
     UNSUPPORTED_FAILURE_REASON |-> e.type = "PAYMENT_FAILED" /\ e.reason \in {"none", "UNKNOWN"},
     NON_ACTIONABLE_EVENT_TYPE  |-> e.type \in Informational,
     UNKNOWN_EVENT_TYPE         |-> e.type \notin Actionable \cup Informational]

ReasonCodes(e, c, ageHours) ==
    {code \in DOMAIN Objections(e, c, ageHours) : Objections(e, c, ageHours)[code]}

Eligible(e, c, ageHours) == ReasonCodes(e, c, ageHours) = {}
=============================================================================
