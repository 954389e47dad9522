--------------------------- MODULE ProviderAdapters ---------------------------
(***************************************************************************)
(* What an execution may answer: the choice of an adapter by               *)
(* ExecutionProviderFactory and the results each adapter can return.  An   *)
(* adapter catches what its provider's client throws, so it always         *)
(* answers.                                                                *)
(*                                                                         *)
(* env says how the process is configured: testMode                        *)
(* (ENABLE_RAZORPAY_TEST_MODE), razorpayMode (RAZORPAY_MODE = test), and   *)
(* razorpay, twilio and resend where the provider's credentials are given. *)
(* contact says which of the customer's email and phone the event carries. *)
(***************************************************************************)

ActionType == {"CREATE_PAYMENT_LINK", "INITIATE_PAYMENT_RETRY", "SEND_EMAIL_REMINDER",
               "SEND_SMS_REMINDER", "SEND_VOICE_REMINDER", "CREATE_HUMAN_ESCALATION"}

ErrorCode == {"CONFIGURATION_ERROR", "PROVIDER_REJECTED", "PROVIDER_UNAVAILABLE",
              "PROVIDER_TIMEOUT", "INVALID_CREDENTIALS", "RATE_LIMITED", "UNKNOWN_ERROR"}

\* The action of an intervention type; NO_ACTION has none.
ActionOf(type) ==
    CASE type = "PAYMENT_LINK"     -> "CREATE_PAYMENT_LINK"
      [] type = "PAYMENT_RETRY"    -> "INITIATE_PAYMENT_RETRY"
      [] type = "EMAIL_REMINDER"   -> "SEND_EMAIL_REMINDER"
      [] type = "SMS_REMINDER"     -> "SEND_SMS_REMINDER"
      [] type = "VOICE_REMINDER"   -> "SEND_VOICE_REMINDER"
      [] type = "HUMAN_ESCALATION" -> "CREATE_HUMAN_ESCALATION"
      [] OTHER                     -> type

Success       == [success |-> TRUE,  recovered |-> FALSE, code |-> "none"]
Recovered     == [success |-> TRUE,  recovered |-> TRUE,  code |-> "none"]
Failure(code) == [success |-> FALSE, recovered |-> FALSE, code |-> code]

\* The breaker's fallback replaces every error by "Circuit Breaker is OPEN".
RazorpayAdapter(env) ==
    IF env.razorpayMode THEN {Success, Failure("PROVIDER_UNAVAILABLE")}
    ELSE {Failure("CONFIGURATION_ERROR")}

\* A link is created through the provider, a retry is only pretended.
RazorpayTestModeAdapter(action) ==
    IF action = "INITIATE_PAYMENT_RETRY" THEN {Recovered}
    ELSE {Success} \cup {Failure(code) : code \in {"INVALID_CREDENTIALS", "RATE_LIMITED",
                                                   "PROVIDER_REJECTED", "PROVIDER_UNAVAILABLE"}}

\* Mutant: an order that was only created counts as recovered money.
RetryRecovers(env) == {Recovered, Failure("PROVIDER_REJECTED")}

\* The execution worker passes no mandateId.
RazorpayRetryAdapter(env) ==
    IF env.razorpay /\ env.razorpayMode THEN {Failure("PROVIDER_REJECTED")}
    ELSE {Failure("CONFIGURATION_ERROR")}

TwilioAdapter(env, contact) ==
    IF ~env.twilio        THEN {Failure("CONFIGURATION_ERROR")}
    ELSE IF ~contact.phone THEN {Failure("PROVIDER_REJECTED")}
    ELSE {Success, Failure("PROVIDER_REJECTED")}

ResendAdapter(env, contact) ==
    IF ~env.resend        THEN {Failure("CONFIGURATION_ERROR")}
    ELSE IF ~contact.email THEN {Failure("PROVIDER_REJECTED")}
    ELSE {Success, Failure("PROVIDER_REJECTED"), Failure("UNKNOWN_ERROR")}

EscalationService == {Success, Failure("PROVIDER_UNAVAILABLE")}

\* getProvider and execute.  No provider for an action means the job throws.
Outcomes(action, env, contact) ==
    CASE action \in {"CREATE_PAYMENT_LINK", "INITIATE_PAYMENT_RETRY"} /\ env.testMode ->
           RazorpayTestModeAdapter(action)
      [] action = "CREATE_PAYMENT_LINK" /\ ~env.testMode    -> RazorpayAdapter(env)
      [] action = "INITIATE_PAYMENT_RETRY" /\ ~env.testMode -> RazorpayRetryAdapter(env)
      [] action = "SEND_EMAIL_REMINDER"                     -> ResendAdapter(env, contact)
      [] action \in {"SEND_SMS_REMINDER", "SEND_VOICE_REMINDER"} -> TwilioAdapter(env, contact)
      [] action = "CREATE_HUMAN_ESCALATION"                 -> EscalationService
      [] OTHER                                              -> {}

\* The worker's mapping of a result to the next state of the case.  The amount
\* an adapter reports as recovered is always the whole amount requested.
NextCaseState(action, result) ==
    CASE result.success /\ action \in {"CREATE_PAYMENT_LINK", "SEND_EMAIL_REMINDER",
                                       "SEND_SMS_REMINDER", "SEND_VOICE_REMINDER"} ->
           "AWAITING_CUSTOMER_ACTION"
      [] result.success /\ action = "INITIATE_PAYMENT_RETRY" ->
           IF result.recovered THEN "RECOVERED" ELSE "FAILED"
      [] result.success /\ action = "CREATE_HUMAN_ESCALATION"     -> "RECOVERED"
      [] ~result.success /\ result.code = "PROVIDER_TIMEOUT"      -> "AMBIGUOUS"
      [] ~result.success /\ result.code # "PROVIDER_TIMEOUT"      -> "FAILED"
=============================================================================
