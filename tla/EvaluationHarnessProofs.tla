------------------------ MODULE EvaluationHarnessProofs ------------------------
(***************************************************************************)
(* The benchmark for every number of cases, every data set the generator   *)
(* may write, every age of the events and every answer of the scoring      *)
(* service.                                                                *)
(*                                                                         *)
(* The argument: the result of a case in the loop is determined by its     *)
(* ground truth and the attempts made so far, whatever was proposed, so    *)
(* that each result is the one expected; what an expected result satisfies *)
(* then holds of every result, and carries over to the totals, which grow  *)
(* by one case at a time.                                                  *)
(***************************************************************************)
EXTENDS EvaluationHarness, FiniteSetTheorems, TLAPS

-----------------------------------------------------------------------------
(* The invariant *)

\* Whether customers may be contacted at the (k+1)-st attempt.
Open(c, k) == ~IsOutsideTRAIWindow((c.minute + 60 * k) % 1440)

\* The results of a case before it is ended.
TimedOut  == Plus(Plus(Nothing, {"attempted"}), {"timeouts", "retries"})
Failed(k) == [Nothing EXCEPT !.attempted = k, !.failures = k, !.aiRequests = k]

\* What a strategy reports of a case.
Result == [Counters -> Nat]

\* The states of the loop.
Loops == [pc : {"idle", "loop"}, attempts : 0..MaxAttempts, result : Result,
          state : {"DETECTED", "RETRYABLE", "RECOVERED", "STOPPED", "ESCALATED"}]

\* A naive result for every result, and one for the case in the loop.
TypeOK ==
    /\ dataset \in [1..NumCases -> EvaluationCase]
    /\ lag \in Nat
    /\ naive \in Seq(Result)
    /\ sut \in Seq(Result)
    /\ Len(sut) <= NumCases
    /\ Len(naive) = IF loop.pc = "loop" THEN Len(sut) + 1 ELSE Len(sut)
    /\ loop \in Loops
    /\ metrics \in [cases : 0..NumCases, atRisk : Nat, baseline1 : Nat, system : Result]

\* A case that goes on: untouched, a timeout behind it, or k failures in k hours
\* in which its customer could be contacted.
GoesOn(c) ==
    \/ loop.state = "DETECTED" /\ loop.attempts = 0 /\ loop.result = Nothing
    \/ /\ c.scenario = "BANK_TIMEOUT" /\ c.provider = "timeout_once_then_success"
       /\ loop.state = "RETRYABLE" /\ loop.attempts = 1 /\ loop.result = TimedOut
    \/ /\ c.scenario = "INSUFFICIENT_FUNDS"
       /\ loop.state = "RETRYABLE" /\ loop.attempts > 0
       /\ loop.result = Failed(loop.attempts)
       /\ \A k \in 0..loop.attempts - 1 : Open(c, k)

\* The loop leads to the expected result.
LoopInv ==
    \/ loop = Idle
    \/ /\ loop.pc = "loop"
       /\ lag <= 720
       /\ Len(sut) < NumCases
       /\ \/ GoesOn(Current)
          \/ /\ loop.state \in {"RECOVERED", "STOPPED", "ESCALATED"}
             /\ loop.result = Expected(Current)

\* The results are those expected.
ResultsInv ==
    /\ ResultsReproducible
    /\ \A i \in DOMAIN naive : naive[i] = Naive(dataset[i])

\* The totals relate as the results do.
TotalsInv ==
    /\ metrics.cases > 0 => Done
    /\ metrics.system.recovered <= metrics.atRisk
    /\ metrics.system.false <= metrics.system.attempted
    /\ metrics.system.succeeded <= metrics.system.attempted
    /\ metrics.baseline1 <= metrics.atRisk
    /\ metrics.system.succeeded + metrics.system.stops + metrics.system.escalations
         = metrics.cases

Inv == TypeOK /\ LoopInv /\ ResultsInv /\ TotalsInv

-----------------------------------------------------------------------------
(* The data set *)

\* The amounts and times the generator writes.
LEMMA AmountsAndMinutes ==
    /\ \A amount \in Amounts : amount \in Nat /\ 10000 <= amount /\ amount <= 500000
    /\ \A minute \in Minutes : minute \in Nat
<1>1. Amounts \subseteq Nat /\ Minutes \subseteq Nat
  BY EvaluationConstants
<1>2. \A amount \in Amounts : 10000 <= amount /\ amount <= 500000
  BY EvaluationConstants
<1> QED BY <1>1, <1>2

\* The cases it writes.
LEMMA Cases ==
    \A c \in EvaluationCase :
        /\ c.scenario \in Scenario
        /\ c.provider \in ProviderScenarios(c.scenario)
        /\ c.amount \in Nat /\ 10000 <= c.amount /\ c.amount <= 500000
        /\ c.minute \in Nat
<1>1. \A c \in EvaluationCase :
        /\ c.scenario \in Scenario
        /\ c.provider \in ProviderScenarios(c.scenario)
        /\ c.amount \in Amounts
        /\ c.minute \in Minutes
  <2> SUFFICES ASSUME NEW c \in EvaluationCase
               PROVE  /\ c.scenario \in Scenario
                      /\ c.provider \in ProviderScenarios(c.scenario)
                      /\ c.amount \in Amounts
                      /\ c.minute \in Minutes
    OBVIOUS
  <2>1. PICK s \in Scenario : c \in [scenario : {s}, provider : ProviderScenarios(s),
                                     amount : Amounts, minute : Minutes]
    BY Zenon DEF EvaluationCase
  <2> QED BY <2>1
<1> QED BY <1>1, AmountsAndMinutes

\* The provider behaves differently for two scenarios only.
LEMMA Providers ==
    \A c \in EvaluationCase :
        /\ c.scenario = "BANK_TIMEOUT"
             => c.provider \in {"success", "timeout_once_then_success"}
        /\ c.scenario \in {"CARD_EXPIRED", "INVALID_CVV"}
             => c.provider = "payment_link_paid_after_event"
        /\ c.scenario \in {"INSUFFICIENT_FUNDS", "DO_NOT_HONOR", "FRAUD_SUSPECTED"}
             => c.provider = "permanent_failure"
BY Cases DEF ProviderScenarios

\* Every case qualifies as long as its event is not older than 30 days.
LEMMA Qualifies ==
    \A c \in EvaluationCase : \A age \in Nat :
        Eligible(SourceEvent(c), Config, age) <=> age <= 720
<1> SUFFICES ASSUME NEW c \in EvaluationCase, NEW age \in Nat
             PROVE  Eligible(SourceEvent(c), Config, age) <=> age <= 720
  OBVIOUS
<1> DEFINE o == Objections(SourceEvent(c), Config, age)
<1>1. c.amount \in Int /\ c.amount >= 10000 /\ c.scenario \in Scenario
  BY Cases
<1>2. o.EVENT_STALE <=> age > 720
  BY DEF Objections, SourceEvent, Config
<1>3. /\ ~o.ZERO_AMOUNT
      /\ ~o.BELOW_MINIMUM_AMOUNT
  <2>1. ~(c.amount <= 0) /\ ~(c.amount < 50)
    BY <1>1
  <2>2. (0 < c.amount /\ c.amount < 50) = FALSE /\ (c.amount <= 0) = FALSE
    BY <2>1
  <2> QED BY <2>2, Zenon DEF Objections, SourceEvent, Config
<1>4. /\ ~o.MERCHANT_SEGMENT_EXCLUDED
      /\ ~o.UNSUPPORTED_CURRENCY
      /\ ~o.UNSUPPORTED_EVENT_TYPE
      /\ ~o.NON_ACTIONABLE_EVENT_TYPE
      /\ ~o.UNKNOWN_EVENT_TYPE
  BY DEF Objections, SourceEvent, Config, Actionable, Informational
<1>5. ~o.UNSUPPORTED_FAILURE_REASON
  <2>1. c.scenario \notin {"none", "UNKNOWN"}
    BY <1>1 DEF Scenario
  <2> QED BY <2>1, Zenon DEF Objections, SourceEvent, Config
<1>6. DOMAIN o = {"MERCHANT_SEGMENT_EXCLUDED", "ZERO_AMOUNT", "BELOW_MINIMUM_AMOUNT",
                  "UNSUPPORTED_CURRENCY", "EVENT_STALE", "UNSUPPORTED_EVENT_TYPE",
                  "UNSUPPORTED_FAILURE_REASON", "NON_ACTIONABLE_EVENT_TYPE",
                  "UNKNOWN_EVENT_TYPE"}
  BY DEF Objections
<1> HIDE DEF o
<1>7. ReasonCodes(SourceEvent(c), Config, age) = {} <=> \A code \in DOMAIN o : ~o[code]
  BY DEF ReasonCodes, o
<1>8. (\A code \in DOMAIN o : ~o[code]) <=> ~o.EVENT_STALE
  BY <1>3, <1>4, <1>5, <1>6
<1> QED BY <1>2, <1>7, <1>8 DEF Eligible

-----------------------------------------------------------------------------
(* What is proposed *)

\* A case as the loop hands it to the workflow.
AsCase(s, c, k) == [state |-> s, amount |-> c.amount, currency |-> "INR", attempts |-> k]

\* A case whose attempts are not used up, at any time and for any scores.
Asked(s, c, k) ==
    /\ s \in {"DETECTED", "RETRYABLE"}
    /\ c \in EvaluationCase
    /\ k \in 0..MaxAttempts - 1

\* The diagnosis of the generator's reasons.
LEMMA Diagnoses ==
    \A c \in EvaluationCase :
        Diagnose(SourceEvent(c)) =
            CASE c.scenario = "BANK_TIMEOUT"       -> Cause("TRANSIENT", 95)
              [] c.scenario = "INSUFFICIENT_FUNDS" -> Cause("INSUFFICIENT_FUNDS", 95)
              [] OTHER                             -> Cause("UNKNOWN", 75)
BY Cases DEF Diagnose, DiagnosePayment, SourceEvent, Scenario

\* What the generator's policy leaves of the candidates.
LEMMA CandidatesLeft ==
    /\ SelectCandidates(Cause("TRANSIENT", 95), MerchantPolicy)
         = {"PAYMENT_RETRY", "HUMAN_ESCALATION"}
    /\ SelectCandidates(Cause("INSUFFICIENT_FUNDS", 95), MerchantPolicy)
         = {"SMS_REMINDER", "EMAIL_REMINDER", "HUMAN_ESCALATION"}
    /\ SelectCandidates(Cause("UNKNOWN", 75), MerchantPolicy)
         = {"HUMAN_ESCALATION", "NO_ACTION"}
<1>1. SelectCandidates(Cause("TRANSIENT", 95), MerchantPolicy)
        = {"PAYMENT_RETRY", "HUMAN_ESCALATION"}
  BY DEF SelectCandidates, Candidates, Cause, MerchantPolicy
<1>2. SelectCandidates(Cause("INSUFFICIENT_FUNDS", 95), MerchantPolicy)
        = {"SMS_REMINDER", "EMAIL_REMINDER", "HUMAN_ESCALATION"}
  BY DEF SelectCandidates, Candidates, Cause, MerchantPolicy
<1>3. SelectCandidates(Cause("UNKNOWN", 75), MerchantPolicy) = {"HUMAN_ESCALATION", "NO_ACTION"}
  BY DEF SelectCandidates, Candidates, Cause, MerchantPolicy
<1> QED BY <1>1, <1>2, <1>3

\* The scores decide nothing, because the location of the features is fixed.
LEMMA ScoredUrban == \A c, answer : ScorePropensity(c, answer).location = "Urban"
BY DEF ScorePropensity

\* The merchant's consents are not looked at, and the contact limit is the hour.
LEMMA Contact ==
    \A c, type, minute :
        /\ Consents(SourceEvent(c), type)
        /\ ContactLimitReached(SourceEvent(c), MerchantPolicy, minute)
             <=> IsOutsideTRAIWindow(minute)
BY DEF Consents, ContactLimitReached, SourceEvent, MerchantPolicy

\* A diagnosis that neither stops a case nor sends it to a human.
Clear(d) == d.rootCause # "FRAUD" /\ d.confidence \in {75, 95}

\* The verdict on a case within the limits of the generator's policy.
Judgement(s, c, k, d, type, limited, minute) ==
    EvaluateRecoveryPolicy(AsCase(s, c, k), d, type, MerchantPolicy, TRUE, limited, minute)

\* It depends on the type and, for a reminder, on the hour.
LEMMA Judged ==
    ASSUME NEW s, NEW c, NEW k, NEW d, NEW limited, NEW minute,
           Asked(s, c, k), Clear(d)
    PROVE  /\ Judgement(s, c, k, d, "PAYMENT_RETRY", limited, minute)
                = Verdict(TRUE, FALSE, FALSE, FALSE, {})
           /\ ~limited => Judgement(s, c, k, d, "EMAIL_REMINDER", limited, minute)
                            = Verdict(TRUE, FALSE, FALSE, FALSE, {})
           /\ limited => Judgement(s, c, k, d, "EMAIL_REMINDER", limited, minute)
                           = Later({"ATTEMPT_LIMIT_REACHED"})
           /\ Judgement(s, c, k, d, "HUMAN_ESCALATION", limited, minute)
                = Verdict(TRUE, TRUE, FALSE, TRUE, {})
<1> DEFINE b == AsCase(s, c, k)
           verdict(type) == Judgement(s, c, k, d, type, limited, minute)
<1>1. /\ b.state \notin Terminal
      /\ b.currency = "INR"
      /\ ~(b.attempts >= MerchantPolicy.maxAttempts)
  BY EvaluationConstants DEF Asked, AsCase, Terminal, MerchantPolicy
<1>2. /\ ~(b.amount >= MerchantPolicy.manualApprovalAbove)
      /\ ~(b.amount > MerchantPolicy.maxRetryAmount)
  BY Cases DEF Asked, AsCase, MerchantPolicy
<1>3. \A type \in {"PAYMENT_RETRY", "EMAIL_REMINDER", "HUMAN_ESCALATION"} :
        /\ MerchantPolicy.enabled
        /\ MerchantPolicy.currencies = {}
        /\ MerchantPolicy.allowCrossBorder
        /\ ~(d.confidence < MerchantPolicy.minimumRecoveryScore)
        /\ type \in MerchantPolicy.allowed
        /\ type \notin {"VOICE_REMINDER", "SMS_REMINDER", "NO_ACTION"}
        /\ type \in Reminders <=> type = "EMAIL_REMINDER"
  BY DEF MerchantPolicy, Reminders, Clear
<1> HIDE DEF b
<1>4. \A type \in {"PAYMENT_RETRY", "EMAIL_REMINDER", "HUMAN_ESCALATION"} :
        verdict(type)
          = IF limited /\ type \in Reminders THEN Later({"ATTEMPT_LIMIT_REACHED"})
            ELSE Verdict(TRUE, {} # {} \/ type = "HUMAN_ESCALATION", FALSE,
                         type = "HUMAN_ESCALATION", {})
  <2> SUFFICES ASSUME NEW type \in {"PAYMENT_RETRY", "EMAIL_REMINDER", "HUMAN_ESCALATION"}
               PROVE  EvaluateRecoveryPolicy(b, d, type, MerchantPolicy, TRUE, limited, minute)
                        = IF limited /\ type \in Reminders THEN Later({"ATTEMPT_LIMIT_REACHED"})
                          ELSE Verdict(TRUE, {} # {} \/ type = "HUMAN_ESCALATION", FALSE,
                                       type = "HUMAN_ESCALATION", {})
    BY DEF Judgement, b
  <2> QED BY <1>1, <1>2, <1>3, Zenon DEF EvaluateRecoveryPolicy, Clear
<1> HIDE DEF verdict
<1>5. \A type \in {"PAYMENT_RETRY", "EMAIL_REMINDER"} :
        /\ (type = "HUMAN_ESCALATION") = FALSE
        /\ ({} # {} \/ type = "HUMAN_ESCALATION") = FALSE
  OBVIOUS
<1>6. ({} # {} \/ "HUMAN_ESCALATION" = "HUMAN_ESCALATION") = TRUE
  OBVIOUS
<1>7. /\ verdict("PAYMENT_RETRY") = Verdict(TRUE, FALSE, FALSE, FALSE, {})
      /\ ~limited => verdict("EMAIL_REMINDER") = Verdict(TRUE, FALSE, FALSE, FALSE, {})
  BY <1>3, <1>4, <1>5
<1>8. limited => verdict("EMAIL_REMINDER") = Later({"ATTEMPT_LIMIT_REACHED"})
  BY <1>3, <1>4
<1>9. verdict("HUMAN_ESCALATION") = Verdict(TRUE, TRUE, FALSE, TRUE, {})
  BY <1>3, <1>4, <1>6
<1> QED BY <1>7, <1>8, <1>9 DEF verdict

\* A transient failure is retried.
LEMMA TimeoutIsRetried ==
    ASSUME NEW s, NEW c, NEW k, NEW answer, NEW minute,
           Asked(s, c, k), c.scenario = "BANK_TIMEOUT"
    PROVE  Propose(AsCase(s, c, k), SourceEvent(c), MerchantPolicy, {}, answer, minute)
             = [type |-> "PAYMENT_RETRY", verdict |-> Verdict(TRUE, FALSE, FALSE, FALSE, {})]
<1> DEFINE b == AsCase(s, c, k)
           e == SourceEvent(c)
           d == Cause("TRANSIENT", 95)
           left == {"PAYMENT_RETRY", "HUMAN_ESCALATION"}
<1>1. Diagnose(e) = d /\ SelectCandidates(d, MerchantPolicy) = left
  BY Diagnoses, CandidatesLeft DEF Asked
<1>2. \A scores : Recommend(b, d, left, MerchantPolicy, {}, scores) = "PAYMENT_RETRY"
  <2>1. /\ ~(d.confidence < MerchantPolicy.minimumRecoveryScore)
        /\ d.rootCause = "TRANSIENT"
    BY DEF Cause, MerchantPolicy
  <2>2. /\ ~(b.amount >= MerchantPolicy.manualApprovalAbove)
        /\ b.amount <= MerchantPolicy.maxRetryAmount
        /\ b.attempts < MerchantPolicy.maxAttempts
    BY Cases, EvaluationConstants DEF Asked, AsCase, MerchantPolicy
  <2>3. "PAYMENT_RETRY" \in left \ {} /\ left # {"NO_ACTION"}
    OBVIOUS
  <2> HIDE DEF b, d, left
  <2> QED BY <2>1, <2>2, <2>3, Zenon DEF Recommend
<1>3. Override(b, e, d, left, "PAYMENT_RETRY") = "PAYMENT_RETRY"
  <2>1. "PAYMENT_LINK" \notin left
    OBVIOUS
  <2> HIDE DEF b, d, left, e
  <2> QED BY <2>1, Zenon DEF Override
<1>4. Recommended(b, e, MerchantPolicy, {}, answer) = "PAYMENT_RETRY"
  <2> HIDE DEF b, d, left, e
  <2> QED BY <1>1, <1>2, <1>3, Zenon DEF Recommended
<1>5. EvaluateRecoveryPolicy(b, d, "PAYMENT_RETRY", MerchantPolicy, TRUE,
                             ContactLimitReached(e, MerchantPolicy, minute), minute)
        = Verdict(TRUE, FALSE, FALSE, FALSE, {})
  <2> DEFINE limited == ContactLimitReached(e, MerchantPolicy, minute)
  <2>1. Clear(d)
    BY DEF Cause, Clear
  <2> HIDE DEF d, e, limited
  <2>2. Judgement(s, c, k, d, "PAYMENT_RETRY", limited, minute)
          = Verdict(TRUE, FALSE, FALSE, FALSE, {})
    BY <2>1, Judged
  <2> QED BY <2>2 DEF limited, Judgement
<1>6. Consents(e, "PAYMENT_RETRY") = TRUE
  BY Contact DEF Consents
<1> HIDE DEF b, d, left, e
<1>7. Propose(b, e, MerchantPolicy, {}, answer, minute)
        = [type |-> "PAYMENT_RETRY", verdict |-> Verdict(TRUE, FALSE, FALSE, FALSE, {})]
  BY <1>1, <1>4, <1>5, <1>6, Zenon DEF Propose
<1> QED BY <1>7 DEF b, e

\* An insufficient balance is answered by an email, for which the hour must be
\* right; the rejection neither stops nor escalates the case.
LEMMA BalanceIsReminded ==
    ASSUME NEW s, NEW c, NEW k, NEW answer, NEW minute,
           Asked(s, c, k), c.scenario = "INSUFFICIENT_FUNDS"
    PROVE  Propose(AsCase(s, c, k), SourceEvent(c), MerchantPolicy, {}, answer, minute)
             = [type    |-> "EMAIL_REMINDER",
                verdict |-> IF IsOutsideTRAIWindow(minute) THEN Later({"ATTEMPT_LIMIT_REACHED"})
                            ELSE Verdict(TRUE, FALSE, FALSE, FALSE, {})]
<1> DEFINE b == AsCase(s, c, k)
           e == SourceEvent(c)
           d == Cause("INSUFFICIENT_FUNDS", 95)
           left == {"SMS_REMINDER", "EMAIL_REMINDER", "HUMAN_ESCALATION"}
<1>1. Diagnose(e) = d /\ SelectCandidates(d, MerchantPolicy) = left
  BY Diagnoses, CandidatesLeft DEF Asked
<1>2. \A scores : scores.location = "Urban"
        => Recommend(b, d, left, MerchantPolicy, {}, scores) = "EMAIL_REMINDER"
  <2>1. /\ ~(d.confidence < MerchantPolicy.minimumRecoveryScore)
        /\ d.rootCause # "TRANSIENT"
    BY DEF Cause, MerchantPolicy
  <2>2. ~(b.amount >= MerchantPolicy.manualApprovalAbove)
    BY Cases DEF Asked, AsCase, MerchantPolicy
  <2>3. /\ left # {"NO_ACTION"}
        /\ "PAYMENT_LINK" \notin left \ {}
        /\ {} \cap Reminders = {}
        /\ left \cap Reminders # {}
        /\ "EMAIL_REMINDER" \in left \cap Reminders
    BY DEF Reminders
  <2> HIDE DEF b, d, left
  <2> QED BY <2>1, <2>2, <2>3, Zenon DEF Recommend, FirstOf, PrefersLink, PropensityPrefersLink
<1>3. Override(b, e, d, left, "EMAIL_REMINDER") = "EMAIL_REMINDER"
  <2>1. "PAYMENT_LINK" \notin left /\ "PAYMENT_RETRY" \notin left
    OBVIOUS
  <2> HIDE DEF b, d, left, e
  <2> QED BY <2>1, Zenon DEF Override
<1>4. Recommended(b, e, MerchantPolicy, {}, answer) = "EMAIL_REMINDER"
  <2> HIDE DEF b, d, left, e
  <2> QED BY <1>1, <1>2, <1>3, ScoredUrban, Zenon DEF Recommended
<1>5. EvaluateRecoveryPolicy(b, d, "EMAIL_REMINDER", MerchantPolicy, TRUE,
                             ContactLimitReached(e, MerchantPolicy, minute), minute)
        = IF IsOutsideTRAIWindow(minute) THEN Later({"ATTEMPT_LIMIT_REACHED"})
          ELSE Verdict(TRUE, FALSE, FALSE, FALSE, {})
  <2> DEFINE limited == ContactLimitReached(e, MerchantPolicy, minute)
  <2>1. Clear(d)
    BY DEF Cause, Clear
  <2>2. limited <=> IsOutsideTRAIWindow(minute)
    BY Contact
  <2> HIDE DEF d, e, limited
  <2>3. Judgement(s, c, k, d, "EMAIL_REMINDER", limited, minute)
          = IF limited THEN Later({"ATTEMPT_LIMIT_REACHED"})
            ELSE Verdict(TRUE, FALSE, FALSE, FALSE, {})
    BY <2>1, Judged, ZenonT(30)
  <2> QED BY <2>2, <2>3 DEF limited, Judgement
<1>6. Consents(e, "EMAIL_REMINDER") = TRUE
  BY Contact DEF Consents
<1> HIDE DEF b, d, left, e
<1>7. Propose(b, e, MerchantPolicy, {}, answer, minute)
        = [type    |-> "EMAIL_REMINDER",
           verdict |-> IF IsOutsideTRAIWindow(minute) THEN Later({"ATTEMPT_LIMIT_REACHED"})
                       ELSE Verdict(TRUE, FALSE, FALSE, FALSE, {})]
  BY <1>1, <1>4, <1>5, <1>6, Zenon DEF Propose
<1> QED BY <1>7 DEF b, e

\* Every other reason, that of a suspected fraud and of an expired card included,
\* goes to a human.
LEMMA OthersAreEscalated ==
    ASSUME NEW s, NEW c, NEW k, NEW answer, NEW minute,
           Asked(s, c, k), c.scenario \notin {"BANK_TIMEOUT", "INSUFFICIENT_FUNDS"}
    PROVE  Propose(AsCase(s, c, k), SourceEvent(c), MerchantPolicy, {}, answer, minute)
             = [type |-> "HUMAN_ESCALATION", verdict |-> Verdict(TRUE, TRUE, FALSE, TRUE, {})]
<1> DEFINE b == AsCase(s, c, k)
           e == SourceEvent(c)
           d == Cause("UNKNOWN", 75)
           left == {"HUMAN_ESCALATION", "NO_ACTION"}
<1>1. Diagnose(e) = d /\ SelectCandidates(d, MerchantPolicy) = left
  BY Diagnoses, CandidatesLeft DEF Asked
<1>2. \A scores : Recommend(b, d, left, MerchantPolicy, {}, scores) = "HUMAN_ESCALATION"
  <2>1. ~(d.confidence < MerchantPolicy.minimumRecoveryScore)
    BY DEF Cause, MerchantPolicy
  <2>2. ~(b.amount >= MerchantPolicy.manualApprovalAbove)
    BY Cases DEF Asked, AsCase, MerchantPolicy
  <2>3. /\ left # {"NO_ACTION"}
        /\ "PAYMENT_LINK" \notin left \ {} /\ "PAYMENT_RETRY" \notin left \ {}
        /\ {} \cap Reminders = {}
        /\ left \cap Reminders = {}
        /\ "HUMAN_ESCALATION" \in left
    BY DEF Reminders
  <2> HIDE DEF b, d, left
  <2> QED BY <2>1, <2>2, <2>3, Zenon DEF Recommend, PrefersLink, PropensityPrefersLink
<1>3. Override(b, e, d, left, "HUMAN_ESCALATION") = "HUMAN_ESCALATION"
  <2>1. "PAYMENT_LINK" \notin left /\ "PAYMENT_RETRY" \notin left
    OBVIOUS
  <2> HIDE DEF b, d, left, e
  <2> QED BY <2>1, Zenon DEF Override
<1>4. Recommended(b, e, MerchantPolicy, {}, answer) = "HUMAN_ESCALATION"
  <2> HIDE DEF b, d, left, e
  <2> QED BY <1>1, <1>2, <1>3, Zenon DEF Recommended
<1>5. EvaluateRecoveryPolicy(b, d, "HUMAN_ESCALATION", MerchantPolicy, TRUE,
                             ContactLimitReached(e, MerchantPolicy, minute), minute)
        = Verdict(TRUE, TRUE, FALSE, TRUE, {})
  <2> DEFINE limited == ContactLimitReached(e, MerchantPolicy, minute)
  <2>1. Clear(d)
    BY DEF Cause, Clear
  <2> HIDE DEF d, e, limited
  <2>2. Judgement(s, c, k, d, "HUMAN_ESCALATION", limited, minute)
          = Verdict(TRUE, TRUE, FALSE, TRUE, {})
    BY <2>1, Judged
  <2> QED BY <2>2 DEF limited, Judgement
<1>6. Consents(e, "HUMAN_ESCALATION") = TRUE
  BY Contact DEF Consents
<1> HIDE DEF b, d, left, e
<1>7. Propose(b, e, MerchantPolicy, {}, answer, minute)
        = [type |-> "HUMAN_ESCALATION", verdict |-> Verdict(TRUE, TRUE, FALSE, TRUE, {})]
  BY <1>1, <1>4, <1>5, <1>6, Zenon DEF Propose
<1> QED BY <1>7 DEF b, e

-----------------------------------------------------------------------------
(* Results *)

\* Counting keeps a result a result.
LEMMA ResultTypes ==
    /\ Nothing \in Result
    /\ \A r \in Result : \A counters : Plus(r, counters) \in Result
    /\ \A r, total \in Result : Add(total, r) \in Result
    /\ \A r \in Result : \A n \in Nat : [r EXCEPT !.recovered = n] \in Result
<1>1. Nothing \in Result
  BY DEF Nothing, Result
<1>2. \A r \in Result : \A counters : Plus(r, counters) \in Result
  BY DEF Plus, Result
<1>3. \A r, total \in Result : Add(total, r) \in Result
  BY DEF Add, Result
<1>4. \A r \in Result : \A n \in Nat : [r EXCEPT !.recovered = n] \in Result
  BY DEF Result, Counters
<1> QED BY <1>1, <1>2, <1>3, <1>4

\* The hours in which the customer may be contacted are at most the attempts, and
\* they end with the first in which this is not so.
LEMMA OpenHoursEnd ==
    ASSUME NEW c
    PROVE  /\ OpenHours(c) \in 0..MaxAttempts
           /\ \A k \in 0..MaxAttempts :
                /\ \A j \in 0..k - 1 : Open(c, j)
                /\ k = MaxAttempts \/ ~Open(c, k)
                => OpenHours(c) = k
<1> DEFINE hours == {k \in 0..MaxAttempts - 1 : \A j \in 0..k : Open(c, j)}
<1>1. OpenHours(c) = Cardinality(hours)
  BY DEF OpenHours, Open
<1>2. IsFiniteSet(0..MaxAttempts - 1) /\ Cardinality(0..MaxAttempts - 1) = MaxAttempts
  BY FS_Interval, EvaluationConstants
<1>3. Cardinality(hours) \in Nat /\ Cardinality(hours) <= MaxAttempts
  <2>1. hours \in SUBSET (0..MaxAttempts - 1)
    OBVIOUS
  <2> HIDE DEF hours
  <2> QED BY <1>2, <2>1, FS_Subset, FS_CardinalityType
<1>4. ASSUME NEW k \in 0..MaxAttempts, \A j \in 0..k - 1 : Open(c, j),
             k = MaxAttempts \/ ~Open(c, k)
      PROVE  OpenHours(c) = k
  <2>1. hours = 0..k - 1
    <3>1. ASSUME NEW i \in 0..k - 1 PROVE i \in hours
      <4>1. i \in 0..MaxAttempts - 1 /\ \A j \in 0..i : j \in 0..k - 1
        BY EvaluationConstants
      <4> QED BY <1>4, <4>1
    <3>2. ASSUME NEW i \in hours PROVE i \in 0..k - 1
      <4>1. i \in 0..MaxAttempts - 1 /\ \A j \in 0..i : Open(c, j)
        OBVIOUS
      <4>2. ASSUME i >= k PROVE FALSE
        <5>1. k \in 0..i /\ k # MaxAttempts
          BY <4>1, <4>2, EvaluationConstants
        <5> QED BY <1>4, <4>1, <5>1
      <4> QED BY <4>1, <4>2, EvaluationConstants
    <3> QED BY <3>1, <3>2
  <2>2. Cardinality(0..k - 1) = k
    BY FS_Interval, EvaluationConstants
  <2> QED BY <1>1, <2>1, <2>2
<1> HIDE DEF hours
<1> QED BY <1>1, <1>3, <1>4

\* What the result of a case satisfies: a single end, an end with the whole amount,
\* attempts that are accounted for, and no attempt on a suspected fraud.
Booked(r, c) ==
    /\ r \in Result
    /\ r.succeeded + r.stops + r.escalations = 1
    /\ r.recovered = r.succeeded * c.amount
    /\ r.attempted = r.succeeded + r.timeouts + r.failures
    /\ r.retries = r.timeouts
    /\ r.attempted <= MaxAttempts
    /\ r.aiRequests <= r.attempted + r.blocks
    /\ r.false = 0
    /\ c.scenario = "FRAUD_SUSPECTED" => r.attempted = 0

\* One of each of these counters, and nothing else.
LEMMA OneOfEach ==
    \A counters :
        /\ Plus(Nothing, counters) \in Result
        /\ \A x \in Counters : Plus(Nothing, counters)[x] = IF x \in counters THEN 1 ELSE 0
BY DEF Plus, Nothing, Result

\* The expected result satisfies it, for every case.
LEMMA ExpectedIsBooked == \A c \in EvaluationCase : Booked(Expected(c), c)
<1> SUFFICES ASSUME NEW c \in EvaluationCase PROVE Booked(Expected(c), c)
  OBVIOUS
<1>1. c.amount \in Nat /\ MaxAttempts \in Nat /\ MaxAttempts >= 2
  BY Cases, EvaluationConstants
<1>2. Booked(Plus(Nothing, {"stops"}), c)
  BY <1>1 DEF Booked, Plus, Nothing, Counters, Result
<1>3. Booked(Plus(Nothing, {"escalations"}), c)
  BY <1>1 DEF Booked, Plus, Nothing, Counters, Result
<1>4. c.scenario # "FRAUD_SUSPECTED"
        => Booked([Plus(Nothing, {"attempted", "succeeded"}) EXCEPT !.recovered = c.amount], c)
  <2> DEFINE p == Plus(Nothing, {"attempted", "succeeded"})
             r == [p EXCEPT !.recovered = c.amount]
  <2>1. /\ p \in Result
        /\ \A x \in Counters : p[x] = IF x \in {"attempted", "succeeded"} THEN 1 ELSE 0
    BY OneOfEach
  <2> HIDE DEF p
  <2>2. r \in Result
    BY <1>1, <2>1 DEF Result, Counters
  <2>3. /\ r.attempted = 1 /\ r.succeeded = 1 /\ r.timeouts = 0
        /\ r.retries = 0 /\ r.failures = 0 /\ r.stops = 0
        /\ r.escalations = 0 /\ r.blocks = 0 /\ r.aiRequests = 0
        /\ r.false = 0 /\ r.recovered = c.amount
    BY <1>1, <2>1 DEF Result, Counters
  <2> HIDE DEF r
  <2>4. c.scenario # "FRAUD_SUSPECTED" => Booked(r, c)
    BY <1>1, <2>2, <2>3 DEF Booked
  <2> QED BY <2>4 DEF r, p
<1>5. c.scenario # "FRAUD_SUSPECTED"
        => Booked([Plus(Nothing, {"succeeded", "timeouts", "retries"})
                     EXCEPT !.attempted = 2, !.recovered = c.amount], c)
  <2> DEFINE p == Plus(Nothing, {"succeeded", "timeouts", "retries"})
             r == [p EXCEPT !.attempted = 2, !.recovered = c.amount]
  <2>1. /\ p \in Result
        /\ \A x \in Counters : p[x] = IF x \in {"succeeded", "timeouts", "retries"} THEN 1 ELSE 0
    BY OneOfEach
  <2> HIDE DEF p
  <2>2. r \in Result
    BY <1>1, <2>1 DEF Result, Counters
  <2>3. /\ r.attempted = 2 /\ r.succeeded = 1 /\ r.timeouts = 1
        /\ r.retries = 1 /\ r.failures = 0 /\ r.stops = 0
        /\ r.escalations = 0 /\ r.blocks = 0 /\ r.aiRequests = 0
        /\ r.false = 0 /\ r.recovered = c.amount
    BY <1>1, <2>1 DEF Result, Counters
  <2> HIDE DEF r
  <2>4. c.scenario # "FRAUD_SUSPECTED" => Booked(r, c)
    BY <1>1, <2>2, <2>3 DEF Booked
  <2> QED BY <2>4 DEF r, p
<1>6. ASSUME NEW k \in 0..MaxAttempts, c.scenario # "FRAUD_SUSPECTED"
      PROVE  Booked([Plus(Nothing, {"escalations"})
                        EXCEPT !.attempted = k, !.failures = k, !.aiRequests = k], c)
  <2> DEFINE p == Plus(Nothing, {"escalations"})
             r == [p EXCEPT !.attempted = k, !.failures = k, !.aiRequests = k]
  <2>0. k \in Nat /\ k + 1 \in Nat
    BY <1>1
  <2>1. p \in Result /\ \A x \in Counters : p[x] = IF x \in {"escalations"} THEN 1 ELSE 0
    BY OneOfEach
  <2> HIDE DEF p
  <2>2. r \in Result
    BY <2>0, <2>1 DEF Result, Counters
  <2>3. /\ r.attempted = k /\ r.succeeded = 0 /\ r.timeouts = 0
        /\ r.retries = 0 /\ r.failures = k /\ r.stops = 0
        /\ r.escalations = 1 /\ r.blocks = 0 /\ r.aiRequests = k
        /\ r.false = 0 /\ r.recovered = 0
    BY <2>0, <2>1 DEF Result, Counters
  <2> HIDE DEF r
  <2>4. Booked(r, c)
    BY <1>1, <1>6, <2>2, <2>3 DEF Booked
  <2> QED BY <2>4 DEF r, p
<1>7. ASSUME NEW k \in 0..MaxAttempts, c.scenario # "FRAUD_SUSPECTED"
      PROVE  Booked([Plus(Nothing, {"stops", "blocks"})
                        EXCEPT !.attempted = k, !.failures = k, !.aiRequests = k + 1], c)
  <2> DEFINE p == Plus(Nothing, {"stops", "blocks"})
             r == [p EXCEPT !.attempted = k, !.failures = k, !.aiRequests = k + 1]
  <2>0. k \in Nat /\ k + 1 \in Nat
    BY <1>1
  <2>1. /\ p \in Result
        /\ \A x \in Counters : p[x] = IF x \in {"stops", "blocks"} THEN 1 ELSE 0
    BY OneOfEach
  <2> HIDE DEF p
  <2>2. r \in Result
    BY <2>0, <2>1 DEF Result, Counters
  <2>3. /\ r.attempted = k /\ r.succeeded = 0 /\ r.timeouts = 0
        /\ r.retries = 0 /\ r.failures = k /\ r.stops = 1
        /\ r.escalations = 0 /\ r.blocks = 1 /\ r.aiRequests = k + 1
        /\ r.false = 0 /\ r.recovered = 0
    BY <2>0, <2>1 DEF Result, Counters
  <2> HIDE DEF r
  <2>4. Booked(r, c)
    BY <1>1, <1>7, <2>2, <2>3 DEF Booked
  <2> QED BY <2>4 DEF r, p
<1>8. OpenHours(c) \in 0..MaxAttempts
  BY OpenHoursEnd
<1> QED BY <1>2, <1>3, <1>4, <1>5, <1>6, <1>7, <1>8 DEF Expected

\* Nor does the naive strategy recover more than there is.
LEMMA NaiveIsBooked ==
    \A c \in EvaluationCase :
        /\ Naive(c) \in Result
        /\ Naive(c).recovered <= c.amount
        /\ Naive(c).succeeded <= Naive(c).attempted
        /\ Naive(c).false <= Naive(c).attempted
<1> SUFFICES ASSUME NEW c \in EvaluationCase
             PROVE  /\ Naive(c) \in Result
                    /\ Naive(c).recovered <= c.amount
                    /\ Naive(c).succeeded <= Naive(c).attempted
                    /\ Naive(c).false <= Naive(c).attempted
  OBVIOUS
<1> DEFINE Sound(r) == /\ r \in Result
                       /\ r.recovered <= c.amount
                       /\ r.succeeded <= r.attempted
                       /\ r.false <= r.attempted
<1>1. c.amount \in Nat
  BY Cases
<1>2. Sound(Plus(Nothing, {"attempted", "false", "failures"}))
  BY <1>1 DEF Plus, Nothing, Counters, Result
<1>3. Sound([Plus(Nothing, {"attempted", "succeeded"}) EXCEPT !.recovered = c.amount])
  <2> DEFINE p == Plus(Nothing, {"attempted", "succeeded"})
             r == [p EXCEPT !.recovered = c.amount]
  <2>1. /\ p \in Result
        /\ \A x \in Counters : p[x] = IF x \in {"attempted", "succeeded"} THEN 1 ELSE 0
    BY OneOfEach
  <2> HIDE DEF p
  <2>2. r \in Result
    BY <1>1, <2>1 DEF Result, Counters
  <2>3. /\ r.attempted = 1 /\ r.succeeded = 1 /\ r.timeouts = 0
        /\ r.retries = 0 /\ r.failures = 0 /\ r.stops = 0
        /\ r.escalations = 0 /\ r.blocks = 0 /\ r.aiRequests = 0
        /\ r.false = 0 /\ r.recovered = c.amount
    BY <1>1, <2>1 DEF Result, Counters
  <2> HIDE DEF r
  <2>4. Sound(r)
    BY <1>1, <2>2, <2>3
  <2> QED BY <2>4 DEF r, p
<1>4. Sound([Plus(Nothing, {"succeeded", "timeouts", "retries"})
               EXCEPT !.attempted = 2, !.recovered = c.amount])
  <2> DEFINE p == Plus(Nothing, {"succeeded", "timeouts", "retries"})
             r == [p EXCEPT !.attempted = 2, !.recovered = c.amount]
  <2>1. /\ p \in Result
        /\ \A x \in Counters : p[x] = IF x \in {"succeeded", "timeouts", "retries"} THEN 1 ELSE 0
    BY OneOfEach
  <2> HIDE DEF p
  <2>2. r \in Result
    BY <1>1, <2>1 DEF Result, Counters
  <2>3. /\ r.attempted = 2 /\ r.succeeded = 1 /\ r.timeouts = 1
        /\ r.retries = 1 /\ r.failures = 0 /\ r.stops = 0
        /\ r.escalations = 0 /\ r.blocks = 0 /\ r.aiRequests = 0
        /\ r.false = 0 /\ r.recovered = c.amount
    BY <1>1, <2>1 DEF Result, Counters
  <2> HIDE DEF r
  <2>4. Sound(r)
    BY <1>1, <2>2, <2>3
  <2> QED BY <2>4 DEF r, p
<1> HIDE DEF Sound
<1>5. Sound(Naive(c))
  BY <1>2, <1>3, <1>4 DEF Naive
<1> QED BY <1>5 DEF Sound

\* Results are equal when their counters are.
LEMMA SameCounters ==
    \A r, s \in Result : (\A x \in Counters : r[x] = s[x]) => r = s
BY DEF Result

\* Adding one to some counters.
LEMMA PlusOne ==
    \A r \in Result : \A counters :
        /\ Plus(r, counters) \in Result
        /\ \A x \in Counters : Plus(r, counters)[x] = r[x] + IF x \in counters THEN 1 ELSE 0
BY DEF Plus, Result

\* The counters after k failures.
LEMMA FailedCounters ==
    \A k \in Nat :
        /\ Failed(k) \in Result
        /\ \A x \in Counters :
             Failed(k)[x] = IF x \in {"attempted", "failures", "aiRequests"} THEN k ELSE 0
BY DEF Failed, Nothing, Result, Counters

\* Counting one by one leads to the expected results.
LEMMA Sums ==
    /\ Failed(0) = Nothing
    /\ \A n \in Nat :
         [Plus(Plus(Nothing, {"attempted"}), {"succeeded"}) EXCEPT !.recovered = n]
           = [Plus(Nothing, {"attempted", "succeeded"}) EXCEPT !.recovered = n]
    /\ \A n \in Nat :
         [Plus(Plus(TimedOut, {"attempted"}), {"succeeded"}) EXCEPT !.recovered = n]
           = [Plus(Nothing, {"succeeded", "timeouts", "retries"})
                EXCEPT !.attempted = 2, !.recovered = n]
    /\ \A k \in Nat :
         /\ Failed(k) \in Result
         /\ Plus(Plus(Plus(Failed(k), {"aiRequests"}), {"attempted"}), {"failures"})
              = Failed(k + 1)
         /\ Plus(Plus(Failed(k), {"aiRequests"}), {"blocks", "stops"})
              = [Plus(Nothing, {"stops", "blocks"})
                   EXCEPT !.attempted = k, !.failures = k, !.aiRequests = k + 1]
         /\ Plus(Failed(k), {"escalations"})
              = [Plus(Nothing, {"escalations"})
                   EXCEPT !.attempted = k, !.failures = k, !.aiRequests = k]
<1>1. Failed(0) = Nothing
  BY DEF Failed, Nothing, Counters
<1>2. ASSUME NEW n \in Nat
      PROVE  [Plus(Plus(Nothing, {"attempted"}), {"succeeded"}) EXCEPT !.recovered = n]
               = [Plus(Nothing, {"attempted", "succeeded"}) EXCEPT !.recovered = n]
  <2> DEFINE a == Plus(Nothing, {"attempted"})
             b == Plus(a, {"succeeded"})
             d == [b EXCEPT !.recovered = n]
             p == Plus(Nothing, {"attempted", "succeeded"})
             q == [p EXCEPT !.recovered = n]
  <2>1. a \in Result /\ \A x \in Counters : a[x] = IF x \in {"attempted"} THEN 1 ELSE 0
    BY OneOfEach
  <2> HIDE DEF a
  <2>2. b \in Result /\ \A x \in Counters : b[x] = a[x] + IF x \in {"succeeded"} THEN 1 ELSE 0
    BY <2>1, PlusOne
  <2> HIDE DEF b
  <2>3. d \in Result /\ \A x \in Counters : d[x] = IF x \in {"recovered"} THEN n ELSE b[x]
    BY <2>2 DEF Result, Counters
  <2> HIDE DEF d
  <2>4. p \in Result /\ \A x \in Counters : p[x] =
          IF x \in {"attempted", "succeeded"} THEN 1 ELSE 0
    BY OneOfEach
  <2> HIDE DEF p
  <2>5. q \in Result /\ \A x \in Counters : q[x] = IF x \in {"recovered"} THEN n ELSE p[x]
    BY <2>4 DEF Result, Counters
  <2> HIDE DEF q
  <2>6. \A x \in Counters : d[x] = q[x]
    BY <2>1, <2>2, <2>3, <2>4, <2>5 DEF Counters
  <2>7. d = q
    BY <2>1, <2>2, <2>3, <2>4, <2>5, <2>6, SameCounters
  <2> QED BY <2>7 DEF a, b, d, p, q
<1>3. ASSUME NEW n \in Nat
      PROVE  [Plus(Plus(TimedOut, {"attempted"}), {"succeeded"}) EXCEPT !.recovered = n]
               = [Plus(Nothing, {"succeeded", "timeouts", "retries"})
                    EXCEPT !.attempted = 2, !.recovered = n]
  <2> DEFINE a == Plus(Nothing, {"attempted"})
             b == Plus(a, {"timeouts", "retries"})
             d == Plus(b, {"attempted"})
             f == Plus(d, {"succeeded"})
             g == [f EXCEPT !.recovered = n]
             p == Plus(Nothing, {"succeeded", "timeouts", "retries"})
             q == [p EXCEPT !.attempted = 2, !.recovered = n]
  <2>1. a \in Result /\ \A x \in Counters : a[x] = IF x \in {"attempted"} THEN 1 ELSE 0
    BY OneOfEach
  <2> HIDE DEF a
  <2>2. b \in Result /\ \A x \in Counters : b[x] =
          a[x] + IF x \in {"timeouts", "retries"} THEN 1 ELSE 0
    BY <2>1, PlusOne
  <2> HIDE DEF b
  <2>3. d \in Result /\ \A x \in Counters : d[x] = b[x] + IF x \in {"attempted"} THEN 1 ELSE 0
    BY <2>2, PlusOne
  <2> HIDE DEF d
  <2>4. f \in Result /\ \A x \in Counters : f[x] = d[x] + IF x \in {"succeeded"} THEN 1 ELSE 0
    BY <2>3, PlusOne
  <2> HIDE DEF f
  <2>5. g \in Result /\ \A x \in Counters : g[x] = IF x \in {"recovered"} THEN n ELSE f[x]
    BY <2>4 DEF Result, Counters
  <2> HIDE DEF g
  <2>6. p \in Result /\ \A x \in Counters : p[x] =
          IF x \in {"succeeded", "timeouts", "retries"} THEN 1 ELSE 0
    BY OneOfEach
  <2> HIDE DEF p
  <2>7. q \in Result /\ \A x \in Counters : q[x] =
          IF x \in {"attempted"} THEN 2 ELSE IF x \in {"recovered"} THEN n ELSE p[x]
    BY <2>6 DEF Result, Counters
  <2> HIDE DEF q
  <2>8. \A x \in Counters : g[x] = q[x]
    BY <2>1, <2>2, <2>3, <2>4, <2>5, <2>6, <2>7 DEF Counters
  <2>9. g = q
    BY <2>1, <2>2, <2>3, <2>4, <2>5, <2>6, <2>7, <2>8, SameCounters
  <2> QED BY <2>9 DEF a, b, d, f, g, p, q, TimedOut
<1>4. ASSUME NEW k \in Nat PROVE Failed(k) \in Result
  BY FailedCounters
<1>5. ASSUME NEW k \in Nat
      PROVE  Plus(Plus(Plus(Failed(k), {"aiRequests"}), {"attempted"}), {"failures"})
               = Failed(k + 1)
  <2> DEFINE a == Failed(k)
             b == Plus(a, {"aiRequests"})
             d == Plus(b, {"attempted"})
             f == Plus(d, {"failures"})
             q == Failed(k + 1)
  <2>1. a \in Result /\ \A x \in Counters : a[x] =
          IF x \in {"attempted", "failures", "aiRequests"} THEN k ELSE 0
    BY FailedCounters
  <2> HIDE DEF a
  <2>2. b \in Result /\ \A x \in Counters : b[x] = a[x] + IF x \in {"aiRequests"} THEN 1 ELSE 0
    BY <2>1, PlusOne
  <2> HIDE DEF b
  <2>3. d \in Result /\ \A x \in Counters : d[x] = b[x] + IF x \in {"attempted"} THEN 1 ELSE 0
    BY <2>2, PlusOne
  <2> HIDE DEF d
  <2>4. f \in Result /\ \A x \in Counters : f[x] = d[x] + IF x \in {"failures"} THEN 1 ELSE 0
    BY <2>3, PlusOne
  <2> HIDE DEF f
  <2>5. q \in Result /\ \A x \in Counters : q[x] =
          IF x \in {"attempted", "failures", "aiRequests"} THEN k + 1 ELSE 0
    BY FailedCounters
  <2> HIDE DEF q
  <2>6. \A x \in Counters : f[x] = q[x]
    BY <2>1, <2>2, <2>3, <2>4, <2>5 DEF Counters
  <2>7. f = q
    BY <2>1, <2>2, <2>3, <2>4, <2>5, <2>6, SameCounters
  <2> QED BY <2>7 DEF a, b, d, f, q
<1>6. ASSUME NEW k \in Nat
      PROVE  Plus(Plus(Failed(k), {"aiRequests"}), {"blocks", "stops"})
               = [Plus(Nothing, {"stops", "blocks"})
                    EXCEPT !.attempted = k, !.failures = k, !.aiRequests = k + 1]
  <2> DEFINE a == Failed(k)
             b == Plus(a, {"aiRequests"})
             d == Plus(b, {"blocks", "stops"})
             p == Plus(Nothing, {"stops", "blocks"})
             q == [p EXCEPT !.attempted = k, !.failures = k, !.aiRequests = k + 1]
  <2>1. a \in Result /\ \A x \in Counters : a[x] =
          IF x \in {"attempted", "failures", "aiRequests"} THEN k ELSE 0
    BY FailedCounters
  <2> HIDE DEF a
  <2>2. b \in Result /\ \A x \in Counters : b[x] = a[x] + IF x \in {"aiRequests"} THEN 1 ELSE 0
    BY <2>1, PlusOne
  <2> HIDE DEF b
  <2>3. d \in Result /\ \A x \in Counters : d[x] =
          b[x] + IF x \in {"blocks", "stops"} THEN 1 ELSE 0
    BY <2>2, PlusOne
  <2> HIDE DEF d
  <2>4. p \in Result /\ \A x \in Counters : p[x] = IF x \in {"stops", "blocks"} THEN 1 ELSE 0
    BY OneOfEach
  <2> HIDE DEF p
  <2>5. q \in Result /\ \A x \in Counters : q[x] =
          IF x \in {"attempted", "failures"} THEN k
          ELSE IF x \in {"aiRequests"} THEN k + 1 ELSE p[x]
    BY <2>4, k + 1 \in Nat DEF Result, Counters
  <2> HIDE DEF q
  <2>6. \A x \in Counters : d[x] = q[x]
    BY <2>1, <2>2, <2>3, <2>4, <2>5 DEF Counters
  <2>7. d = q
    BY <2>1, <2>2, <2>3, <2>4, <2>5, <2>6, SameCounters
  <2> QED BY <2>7 DEF a, b, d, p, q
<1>7. ASSUME NEW k \in Nat
      PROVE  Plus(Failed(k), {"escalations"})
               = [Plus(Nothing, {"escalations"})
                    EXCEPT !.attempted = k, !.failures = k, !.aiRequests = k]
  <2> DEFINE a == Failed(k)
             b == Plus(a, {"escalations"})
             p == Plus(Nothing, {"escalations"})
             q == [p EXCEPT !.attempted = k, !.failures = k, !.aiRequests = k]
  <2>1. a \in Result /\ \A x \in Counters : a[x] =
          IF x \in {"attempted", "failures", "aiRequests"} THEN k ELSE 0
    BY FailedCounters
  <2> HIDE DEF a
  <2>2. b \in Result /\ \A x \in Counters : b[x] =
          a[x] + IF x \in {"escalations"} THEN 1 ELSE 0
    BY <2>1, PlusOne
  <2> HIDE DEF b
  <2>3. p \in Result /\ \A x \in Counters : p[x] = IF x \in {"escalations"} THEN 1 ELSE 0
    BY OneOfEach
  <2> HIDE DEF p
  <2>4. q \in Result /\ \A x \in Counters : q[x] =
          IF x \in {"attempted", "failures", "aiRequests"} THEN k ELSE p[x]
    BY <2>3 DEF Result, Counters
  <2> HIDE DEF q
  <2>5. \A x \in Counters : b[x] = q[x]
    BY <2>1, <2>2, <2>3, <2>4 DEF Counters
  <2>6. b = q
    BY <2>1, <2>2, <2>3, <2>4, <2>5, SameCounters
  <2> QED BY <2>6 DEF a, b, p, q
<1> QED BY <1>1, <1>2, <1>3, <1>4, <1>5, <1>6, <1>7

\* What the integrity check asks of a single case.
LEMMA BookedIsSound ==
    ASSUME NEW c \in EvaluationCase, NEW r, Booked(r, c)
    PROVE  /\ r \in Result
           /\ r.recovered <= c.amount
           /\ r.succeeded <= r.attempted
           /\ r.false <= r.attempted
<1>1. c.amount \in Nat
  BY Cases
<1>2. r \in Result /\ \A x \in Counters : r[x] \in Nat
  BY DEF Booked, Result
<1>3. r.succeeded \in {0, 1}
  BY <1>2 DEF Booked, Counters
<1>4. r.recovered <= c.amount
  <2>1. CASE r.succeeded = 0
    BY <1>1, <2>1 DEF Booked
  <2>2. CASE r.succeeded = 1
    BY <1>1, <2>2 DEF Booked
  <2> QED BY <1>3, <2>1, <2>2
<1>5. r.succeeded <= r.attempted /\ r.false <= r.attempted
  BY <1>2 DEF Booked, Counters
<1> QED BY <1>2, <1>4, <1>5

-----------------------------------------------------------------------------
(* The steps *)

\* The case in the loop is one of the data set.
LEMMA CurrentCase == TypeOK /\ Len(sut) < NumCases => Current \in EvaluationCase
BY EvaluationConstants DEF TypeOK, Current

\* What is expected of a case depends on the age of the events only.
LEMMA SameExpectations == lag' = lag => \A c : Expected(c)' = Expected(c)
BY DEF Expected

\* The results stay right while nothing is added to them.
LEMMA SameResults ==
    ResultsInv /\ UNCHANGED <<dataset, lag, naive, sut>> => ResultsInv'
BY SameExpectations DEF ResultsInv, ResultsReproducible

\* There are no totals while a case is in the loop or to come.
LEMMA NoTotals ==
    Inv /\ Len(sut) < NumCases => metrics.cases = 0
BY EvaluationConstants DEF Inv, TypeOK, TotalsInv, Done

\* The totals are right while there are none.
LEMMA SameTotals ==
    Inv /\ Len(sut) < NumCases /\ UNCHANGED metrics => TotalsInv'
BY NoTotals DEF Inv, TotalsInv

\* The evaluation begins without results.
LEMMA Initially == Init => Inv
<1> SUFFICES ASSUME Init PROVE Inv
  OBVIOUS
<1>1. TypeOK
  <2>1. NumCases \in Nat /\ MaxAttempts \in Nat /\ Lags \subseteq Nat
    BY EvaluationConstants
  <2>2. /\ naive \in Seq(Result) /\ sut \in Seq(Result)
        /\ Len(naive) = 0 /\ Len(sut) = 0
    BY DEF Init
  <2>3. loop \in Loops /\ loop.pc = "idle"
    BY <2>1, ResultTypes DEF Init, Idle, Loops
  <2>4. metrics \in [cases : 0..NumCases, atRisk : Nat, baseline1 : Nat, system : Result]
    BY <2>1, ResultTypes DEF Init, NoMetrics
  <2> QED BY <2>1, <2>2, <2>3, <2>4 DEF Init, TypeOK
<1>2. LoopInv
  BY DEF Init, LoopInv
<1>3. ResultsInv
  BY DEF Init, ResultsInv, ResultsReproducible
<1>4. TotalsInv
  BY DEF Init, TotalsInv, NoMetrics, Nothing, Counters
<1> QED BY <1>1, <1>2, <1>3, <1>4 DEF Inv

\* A result that is the expected one may be added.
LEMMA Added ==
    ASSUME Inv, Len(sut) < NumCases, UNCHANGED <<dataset, lag>>, Return(Expected(Current)),
           Len(naive') = Len(sut) + 1, naive' \in Seq(Result),
           \A i \in DOMAIN naive' : naive'[i] = Naive(dataset[i]),
           UNCHANGED metrics
    PROVE  Inv'
<1>1. Current \in EvaluationCase
  BY CurrentCase DEF Inv
<1>2. Expected(Current) \in Result
  BY <1>1, ExpectedIsBooked DEF Booked
<1>3. /\ sut \in Seq(Result) /\ sut' = Append(sut, Expected(Current)) /\ loop' = Idle
      /\ NumCases \in Nat /\ MaxAttempts \in Nat
  BY EvaluationConstants DEF Inv, TypeOK, Return
<1>4. /\ sut' \in Seq(Result)
      /\ Len(sut') = Len(sut) + 1
      /\ \A i \in 1..Len(sut) : sut'[i] = sut[i]
      /\ sut'[Len(sut) + 1] = Expected(Current)
  BY <1>2, <1>3
<1>5. TypeOK'
  <2>1. loop' \in Loops /\ loop'.pc = "idle"
    BY <1>3, ResultTypes DEF Idle, Loops
  <2> QED BY <1>3, <1>4, <2>1 DEF Inv, TypeOK
<1>6. LoopInv'
  BY <1>3 DEF LoopInv
<1>7. ResultsInv'
  <2>1. ASSUME NEW i \in DOMAIN sut' PROVE sut'[i] = Expected(dataset[i])
    <3>1. i \in 1..Len(sut) \/ i = Len(sut) + 1
      BY <1>3, <1>4
    <3>2. CASE i \in 1..Len(sut)
      BY <1>3, <1>4, <3>2 DEF Inv, ResultsInv, ResultsReproducible
    <3>3. CASE i = Len(sut) + 1
      BY <1>4, <3>3 DEF Current
    <3> QED BY <3>1, <3>2, <3>3
  <2> QED BY <2>1, SameExpectations DEF ResultsInv, ResultsReproducible
<1>8. TotalsInv'
  BY SameTotals
<1> QED BY <1>5, <1>6, <1>7, <1>8 DEF Inv

\* Begin: the naive result comes first; an event too old to qualify is a stop, and
\* any other case enters the loop untouched.
LEMMA BeginStep == Inv /\ Begin => Inv'
<1> SUFFICES ASSUME Inv, Begin PROVE Inv'
  OBVIOUS
<1>1. /\ Len(sut) < NumCases
      /\ loop = Idle
      /\ naive \in Seq(Result) /\ sut \in Seq(Result) /\ lag \in Nat
      /\ Len(naive) = Len(sut)
      /\ Current \in EvaluationCase
  <2>1. loop.pc = "idle" /\ Len(sut) < NumCases
    BY DEF Begin
  <2>2. loop = Idle
    BY <2>1 DEF Inv, LoopInv
  <2> QED BY <2>1, <2>2, CurrentCase DEF Inv, TypeOK
<1>2. /\ naive' \in Seq(Result)
      /\ Len(naive') = Len(sut) + 1
      /\ \A i \in DOMAIN naive' : naive'[i] = Naive(dataset[i])
  <2>1. naive' = Append(naive, Naive(Current)) /\ Naive(Current) \in Result
    BY <1>1, NaiveIsBooked DEF Begin
  <2>2. /\ naive' \in Seq(Result)
        /\ Len(naive') = Len(sut) + 1
        /\ \A i \in 1..Len(sut) : naive'[i] = naive[i]
        /\ naive'[Len(sut) + 1] = Naive(Current)
    BY <1>1, <2>1
  <2>3. ASSUME NEW i \in DOMAIN naive' PROVE naive'[i] = Naive(dataset[i])
    <3>1. i \in 1..Len(sut) \/ i = Len(sut) + 1
      BY <1>1, <2>2
    <3>2. CASE i \in 1..Len(sut)
      BY <1>1, <2>2, <3>2 DEF Inv, ResultsInv
    <3>3. CASE i = Len(sut) + 1
      BY <2>2, <3>3 DEF Current
    <3> QED BY <3>1, <3>2, <3>3
  <2> QED BY <2>2, <2>3
<1>3. UNCHANGED <<dataset, lag, metrics>>
  BY DEF Begin
<1>4. CASE Eligible(SourceEvent(Current), Config, lag)
  <2>1. lag <= 720
    BY <1>1, <1>4, Qualifies
  <2>2. loop' = [Idle EXCEPT !.pc = "loop"] /\ sut' = sut
    BY <1>4 DEF Begin
  <2>3. /\ loop' \in Loops
        /\ loop'.pc = "loop" /\ loop'.state = "DETECTED" /\ loop'.attempts = 0
        /\ loop'.result = Nothing
    BY <2>2, ResultTypes, EvaluationConstants DEF Idle, Loops
  <2>4. TypeOK'
    BY <1>2, <1>3, <2>2, <2>3 DEF Inv, TypeOK
  <2>5. LoopInv'
    BY <1>1, <1>3, <2>1, <2>2, <2>3 DEF LoopInv, GoesOn
  <2>6. ResultsInv'
    BY <1>2, <1>3, <2>2, SameExpectations DEF Inv, ResultsInv, ResultsReproducible
  <2>7. TotalsInv'
    BY <1>1, <1>3, SameTotals
  <2> QED BY <2>4, <2>5, <2>6, <2>7 DEF Inv
<1>5. CASE ~Eligible(SourceEvent(Current), Config, lag)
  <2>1. lag > 720
    BY <1>1, <1>5, Qualifies
  <2>2. Return(Expected(Current))
    BY <1>5, <2>1 DEF Begin, Expected
  <2> QED BY <1>1, <1>2, <1>3, <2>2, Added
<1> QED BY <1>4, <1>5

\* Finish: what is neither stopped nor escalated nor recovered is escalated.
LEMMA FinishStep == Inv /\ Finish => Inv'
<1> SUFFICES ASSUME Inv, Finish PROVE Inv'
  OBVIOUS
<1>1. /\ loop.pc = "loop" /\ Over
      /\ UNCHANGED <<dataset, lag, naive, metrics>>
  BY DEF Finish
<1>2. /\ Len(sut) < NumCases
      /\ lag <= 720 /\ lag \in Nat
      /\ \/ GoesOn(Current)
         \/ /\ loop.state \in {"RECOVERED", "STOPPED", "ESCALATED"}
            /\ loop.result = Expected(Current)
      /\ Current \in EvaluationCase
      /\ loop.attempts \in 0..MaxAttempts
      /\ naive \in Seq(Result) /\ Len(naive) = Len(sut) + 1
  BY <1>1, CurrentCase DEF Inv, TypeOK, LoopInv, Idle, Loops
<1>3. Return(Expected(Current))
  <2>1. CASE GoesOn(Current)
    <3>1. loop.state \in {"DETECTED", "RETRYABLE"}
      BY <2>1 DEF GoesOn
    <3>2. loop.attempts = MaxAttempts /\ MaxAttempts >= 2 /\ MaxAttempts \in Nat
      BY <1>1, <1>2, <3>1, EvaluationConstants DEF Over
    <3>3. /\ Current.scenario = "INSUFFICIENT_FUNDS"
          /\ loop.result = Failed(MaxAttempts)
          /\ \A k \in 0..MaxAttempts - 1 : Open(Current, k)
      BY <2>1, <3>2 DEF GoesOn
    <3>4. OpenHours(Current) = MaxAttempts
      BY <3>2, <3>3, OpenHoursEnd
    <3>5. Plus(loop.result, {"escalations"}) = Expected(Current)
      <4>1. Expected(Current)
              = [Plus(Nothing, {"escalations"}) EXCEPT !.attempted = MaxAttempts,
                   !.failures = MaxAttempts, !.aiRequests = MaxAttempts]
        <5>1. ~(lag > 720) /\ Current.scenario # "BANK_TIMEOUT"
          BY <1>2, <3>3
        <5> QED BY <3>3, <3>4, <5>1 DEF Expected
      <4> QED BY <3>2, <3>3, <4>1, Sums
    <3> QED BY <3>1, <3>5 DEF Finish
  <2>2. CASE /\ loop.state \in {"RECOVERED", "STOPPED", "ESCALATED"}
             /\ loop.result = Expected(Current)
    BY <2>2 DEF Finish
  <2> QED BY <1>2, <2>1, <2>2
<1>4. /\ naive' \in Seq(Result) /\ Len(naive') = Len(sut) + 1
      /\ \A i \in DOMAIN naive' : naive'[i] = Naive(dataset[i])
  BY <1>1, <1>2 DEF Inv, ResultsInv
<1> QED BY <1>1, <1>2, <1>3, <1>4, Added

\* Compute: a case enters the totals, with results that are booked.
LEMMA ComputeStep == Inv /\ Compute => Inv'
<1> SUFFICES ASSUME Inv, Compute PROVE Inv'
  OBVIOUS
<1> DEFINE i == metrics.cases + 1
           c == dataset[i]
           r == sut[i]
           n == naive[i]
<1>1. /\ Len(sut) = NumCases /\ metrics.cases < NumCases
      /\ metrics' = [cases |-> i, atRisk |-> metrics.atRisk + c.amount,
                     baseline1 |-> metrics.baseline1 + n.recovered,
                     system |-> Add(metrics.system, r)]
      /\ UNCHANGED <<dataset, lag, naive, sut, loop>>
  BY DEF Compute, Done
<1>2. /\ metrics.cases \in 0..NumCases /\ metrics.atRisk \in Nat
      /\ metrics.baseline1 \in Nat /\ metrics.system \in Result
      /\ dataset \in [1..NumCases -> EvaluationCase]
      /\ naive \in Seq(Result) /\ sut \in Seq(Result)
      /\ NumCases \in Nat
  BY EvaluationConstants DEF Inv, TypeOK
<1>3. i \in 1..NumCases /\ Len(naive) = NumCases
  <2>1. loop = Idle
    BY <1>1, <1>2 DEF Inv, LoopInv
  <2> QED BY <1>1, <1>2, <2>1 DEF Inv, TypeOK, Idle
<1>4. c \in EvaluationCase /\ r = Expected(c) /\ n = Naive(c)
  BY <1>1, <1>2, <1>3 DEF Inv, ResultsInv, ResultsReproducible
<1>5. Booked(r, c)
  BY <1>4, ExpectedIsBooked
<1>6. /\ c.amount \in Nat
      /\ r \in Result /\ r.recovered <= c.amount
      /\ r.succeeded <= r.attempted /\ r.false <= r.attempted
      /\ r.succeeded + r.stops + r.escalations = 1
  BY <1>4, <1>5, BookedIsSound, Cases DEF Booked
<1>7. n \in Result /\ n.recovered <= c.amount
  BY <1>4, NaiveIsBooked
<1> HIDE DEF i, c, r, n
<1>8. Add(metrics.system, r) \in Result
  BY <1>2, <1>6, ResultTypes
<1>9. \A x \in Counters : /\ Add(metrics.system, r)[x] = metrics.system[x] + r[x]
                          /\ metrics.system[x] \in Nat /\ r[x] \in Nat /\ n[x] \in Nat
  BY <1>2, <1>6, <1>7 DEF Add, Result
<1>10. metrics' \in [cases : 0..NumCases, atRisk : Nat, baseline1 : Nat, system : Result]
  <2>1. metrics.atRisk + c.amount \in Nat
    BY <1>2, <1>6
  <2>2. metrics.baseline1 + n.recovered \in Nat
    <3>1. n.recovered \in Nat
      BY <1>9 DEF Counters
    <3> QED BY <1>2, <3>1
  <2>3. i \in 0..NumCases
    BY <1>3
  <2> QED BY <1>1, <1>8, <2>1, <2>2, <2>3
<1>11. TypeOK'
  BY <1>1, <1>10 DEF Inv, TypeOK
<1>12. LoopInv'
  BY <1>1, SameExpectations DEF Inv, LoopInv, GoesOn, Current
<1>13. ResultsInv'
  BY <1>1, SameResults DEF Inv
<1>14. TotalsInv'
  <2> DEFINE s == metrics.system
             t == metrics'.system
  <2>1. \A x \in Counters : t[x] = s[x] + r[x] /\ s[x] \in Nat /\ r[x] \in Nat
    BY <1>1, <1>9
  <2>2. /\ s.recovered <= metrics.atRisk /\ s.false <= s.attempted
        /\ s.succeeded <= s.attempted /\ metrics.baseline1 <= metrics.atRisk
        /\ s.succeeded + s.stops + s.escalations = metrics.cases
    BY DEF Inv, TotalsInv
  <2>3. /\ metrics'.cases = metrics.cases + 1
        /\ metrics'.atRisk = metrics.atRisk + c.amount
        /\ metrics'.baseline1 = metrics.baseline1 + n.recovered
    BY <1>1 DEF i
  <2>4. Done'
    BY <1>1 DEF Done
  <2> HIDE DEF s, t
  <2>5. t.recovered <= metrics'.atRisk
    <3>1. /\ t.recovered = s.recovered + r.recovered
          /\ s.recovered \in Nat /\ r.recovered \in Nat
      BY <2>1 DEF Counters
    <3> QED BY <1>2, <1>6, <2>2, <2>3, <3>1
  <2>6. t.false <= t.attempted /\ t.succeeded <= t.attempted
    <3>1. /\ t.false = s.false + r.false /\ s.false \in Nat /\ r.false \in Nat
          /\ t.succeeded = s.succeeded + r.succeeded /\ s.succeeded \in Nat
          /\ r.succeeded \in Nat
          /\ t.attempted = s.attempted + r.attempted /\ s.attempted \in Nat
          /\ r.attempted \in Nat
      BY <2>1 DEF Counters
    <3> QED BY <1>6, <2>2, <3>1
  <2>7. metrics'.baseline1 <= metrics'.atRisk
    <3>1. n.recovered \in Nat
      BY <1>9 DEF Counters
    <3> QED BY <1>2, <1>6, <1>7, <2>2, <2>3, <3>1
  <2>8. t.succeeded + t.stops + t.escalations = metrics'.cases
    <3>1. /\ t.succeeded = s.succeeded + r.succeeded /\ s.succeeded \in Nat
          /\ r.succeeded \in Nat
          /\ t.stops = s.stops + r.stops /\ s.stops \in Nat /\ r.stops \in Nat
          /\ t.escalations = s.escalations + r.escalations
          /\ s.escalations \in Nat /\ r.escalations \in Nat
      BY <2>1 DEF Counters
    <3> QED BY <1>6, <2>2, <2>3, <3>1
  <2> QED BY <2>4, <2>5, <2>6, <2>7, <2>8 DEF TotalsInv, t
<1> QED BY <1>11, <1>12, <1>13, <1>14 DEF Inv

\* Where a turn leads: the case goes on or has the expected result.
Turned ==
    /\ loop' \in Loops
    /\ loop'.pc = "loop"
    /\ \/ GoesOn(Current)'
       \/ /\ loop'.state \in {"RECOVERED", "STOPPED", "ESCALATED"}
          /\ loop'.result = Expected(Current)

\* What holds before a turn, of a case that goes on.
BeforeTurn ==
    /\ loop \in Loops /\ loop.pc = "loop"
    /\ lag \in Nat /\ lag <= 720
    /\ Current \in EvaluationCase /\ Current' = Current
    /\ GoesOn(Current)
    /\ Asked(loop.state, Current, loop.attempts)
    /\ MaxAttempts \in Nat /\ MaxAttempts >= 2

\* A new state and result of the loop.
LEMMA LoopMoves ==
    ASSUME loop \in Loops, loop.pc = "loop", NEW a \in 0..MaxAttempts, NEW r \in Result,
           NEW s \in {"DETECTED", "RETRYABLE", "RECOVERED", "STOPPED", "ESCALATED"},
           \/ loop' = [loop EXCEPT !.attempts = a, !.state = s, !.result = r]
           \/ loop' = [loop EXCEPT !.state = s, !.result = r] /\ a = loop.attempts
    PROVE  /\ loop' \in Loops
           /\ loop'.pc = "loop" /\ loop'.attempts = a /\ loop'.state = s /\ loop'.result = r
BY DEF Loops

\* A timeout or a success of a retry.
LEMMA TimeoutTurn ==
    ASSUME BeforeTurn, Current.scenario = "BANK_TIMEOUT", Attempt(loop.result)
    PROVE  Turned
<1> DEFINE n == Current.amount
<1>1. n \in Nat /\ Current.provider \in {"success", "timeout_once_then_success"}
  BY Cases, Providers DEF BeforeTurn
<1>2. Expected(Current)
        = IF Current.provider = "success"
            THEN [Plus(Nothing, {"attempted", "succeeded"}) EXCEPT !.recovered = n]
            ELSE [Plus(Nothing, {"succeeded", "timeouts", "retries"})
                    EXCEPT !.attempted = 2, !.recovered = n]
  BY DEF BeforeTurn, Expected
<1>3. loop.result \in Result /\ loop.attempts \in Nat /\ loop.attempts + 1 \in 0..MaxAttempts
  BY DEF BeforeTurn, Loops, Asked
<1>4. CASE Current.provider = "success"
  <2> DEFINE r == [Plus(Plus(loop.result, {"attempted"}), {"succeeded"}) EXCEPT !.recovered = n]
  <2>1. loop' = [loop EXCEPT !.attempts = loop.attempts + 1, !.state = "RECOVERED", !.result = r]
    BY <1>3, <1>4 DEF Attempt, BeforeTurn, Loops
  <2>2. loop.result = Nothing
    BY <1>4 DEF BeforeTurn, GoesOn
  <2>3. r = Expected(Current) /\ r \in Result
    <3>1. r = Expected(Current)
      BY <1>1, <1>2, <1>4, <2>2, Sums
    <3>2. Expected(Current) \in Result
      BY ExpectedIsBooked DEF BeforeTurn, Booked
    <3> QED BY <3>1, <3>2
  <2> HIDE DEF r
  <2> QED BY <1>3, <2>1, <2>3, LoopMoves DEF BeforeTurn, Turned
<1>5. CASE Current.provider = "timeout_once_then_success" /\ loop.attempts = 0
  <2>1. loop' = [loop EXCEPT !.attempts = loop.attempts + 1, !.state = "RETRYABLE",
                             !.result = Plus(Plus(loop.result, {"attempted"}),
                                             {"timeouts", "retries"})]
    BY <1>3, <1>5 DEF Attempt, BeforeTurn, Loops
  <2>2. loop.result = Nothing
    BY <1>5 DEF BeforeTurn, GoesOn
  <2>3. TimedOut \in Result
    BY ResultTypes DEF TimedOut
  <2>4. loop' = [loop EXCEPT !.attempts = 1, !.state = "RETRYABLE", !.result = TimedOut]
    BY <1>5, <2>1, <2>2 DEF TimedOut
  <2>5. /\ loop' \in Loops /\ loop'.pc = "loop" /\ loop'.attempts = 1
        /\ loop'.state = "RETRYABLE" /\ loop'.result = TimedOut
    <3>1. 1 \in 0..MaxAttempts
      BY <1>3, <1>5
    <3> QED BY <2>3, <2>4, <3>1, LoopMoves DEF BeforeTurn
  <2>6. GoesOn(Current)'
    BY <1>5, <2>5 DEF BeforeTurn, GoesOn
  <2> QED BY <2>5, <2>6 DEF Turned
<1>6. CASE Current.provider = "timeout_once_then_success" /\ loop.attempts # 0
  <2> DEFINE r == [Plus(Plus(loop.result, {"attempted"}), {"succeeded"}) EXCEPT !.recovered = n]
  <2>1. loop' = [loop EXCEPT !.attempts = loop.attempts + 1, !.state = "RECOVERED", !.result = r]
    BY <1>3, <1>6 DEF Attempt, BeforeTurn, Loops
  <2>2. loop.result = TimedOut
    BY <1>6 DEF BeforeTurn, GoesOn
  <2>3. r = Expected(Current)
    <3>1. Expected(Current) = [Plus(Nothing, {"succeeded", "timeouts", "retries"})
                                 EXCEPT !.attempted = 2, !.recovered = n]
      BY <1>2, <1>6
    <3> QED BY <1>1, <2>2, <3>1, Sums
  <2>4. r \in Result
    BY <2>3, ExpectedIsBooked DEF BeforeTurn, Booked
  <2> HIDE DEF r
  <2> QED BY <1>3, <2>1, <2>3, <2>4, LoopMoves DEF BeforeTurn, Turned
<1> QED BY <1>1, <1>4, <1>5, <1>6

\* A case without money has failed as often as it was attempted.
LEMMA FailedSoFar ==
    ASSUME BeforeTurn, Current.scenario = "INSUFFICIENT_FUNDS"
    PROVE  /\ loop.attempts \in 0..MaxAttempts - 1
           /\ loop.result = Failed(loop.attempts)
           /\ \A j \in 0..loop.attempts - 1 : Open(Current, j)
<1>1. loop.attempts \in 0..MaxAttempts - 1
  BY DEF BeforeTurn, Asked
<1>2. CASE loop.state = "DETECTED"
  <2>1. loop.attempts = 0 /\ loop.result = Nothing
    BY <1>2 DEF BeforeTurn, GoesOn
  <2>2. Failed(0) = Nothing
    BY Sums
  <2>3. 0..loop.attempts - 1 = {}
    BY <2>1
  <2> QED BY <1>1, <2>1, <2>2, <2>3
<1>3. CASE loop.state # "DETECTED"
  BY <1>1, <1>3 DEF BeforeTurn, GoesOn
<1> QED BY <1>2, <1>3

\* A reminder that is not paid.
LEMMA ReminderTurn ==
    ASSUME BeforeTurn, Current.scenario = "INSUFFICIENT_FUNDS",
           Open(Current, loop.attempts), Attempt(Plus(loop.result, {"aiRequests"}))
    PROVE  Turned
<1> DEFINE k == loop.attempts
<1>1. k \in 0..MaxAttempts - 1 /\ loop.result = Failed(k)
      /\ \A j \in 0..k - 1 : Open(Current, j)
  BY FailedSoFar
<1>2. k \in Nat /\ k + 1 \in Nat /\ k + 1 \in 0..MaxAttempts
  BY <1>1 DEF BeforeTurn
<1>3. Current.provider = "permanent_failure"
  BY Providers DEF BeforeTurn
<1>4. loop' = [loop EXCEPT !.attempts = k + 1, !.state = "RETRYABLE", !.result = Failed(k + 1)]
  <2>1. loop' = [loop EXCEPT !.attempts = k + 1, !.state = "RETRYABLE",
                   !.result = Plus(Plus(Plus(loop.result, {"aiRequests"}), {"attempted"}),
                                   {"failures"})]
    BY <1>3 DEF Attempt, BeforeTurn, Loops
  <2>2. Plus(Plus(Plus(loop.result, {"aiRequests"}), {"attempted"}), {"failures"})
          = Failed(k + 1)
    BY <1>1, <1>2, Sums
  <2> QED BY <1>1, <2>1, <2>2
<1>5. Failed(k + 1) \in Result
  BY <1>2, Sums
<1>6. /\ loop' \in Loops /\ loop'.pc = "loop" /\ loop'.attempts = k + 1
      /\ loop'.state = "RETRYABLE" /\ loop'.result = Failed(k + 1)
  BY <1>2, <1>4, <1>5, LoopMoves DEF BeforeTurn
<1>7. \A j \in 0..(k + 1) - 1 : Open(Current, j)
  <2>1. \A j \in 0..(k + 1) - 1 : j \in 0..k - 1 \/ j = k
    BY <1>2
  <2> QED BY <1>1, <2>1
<1>8. GoesOn(Current)'
  <2>1. k + 1 > 0
    BY <1>2
  <2> QED BY <1>6, <1>7, <2>1 DEF BeforeTurn, GoesOn
<1> QED BY <1>6, <1>8 DEF Turned

\* A reminder at night: the case is stopped, for good.
LEMMA NightTurn ==
    ASSUME BeforeTurn, Current.scenario = "INSUFFICIENT_FUNDS",
           ~Open(Current, loop.attempts),
           Block(Later({"ATTEMPT_LIMIT_REACHED"}), Plus(loop.result, {"aiRequests"}))
    PROVE  Turned
<1> DEFINE k == loop.attempts
           r == Plus(Plus(loop.result, {"aiRequests"}), {"blocks", "stops"})
<1>1. k \in 0..MaxAttempts - 1 /\ loop.result = Failed(k)
      /\ \A j \in 0..k - 1 : Open(Current, j)
  BY FailedSoFar
<1>2. k \in Nat /\ k \in 0..MaxAttempts /\ k # MaxAttempts
  BY <1>1 DEF BeforeTurn
<1>3. loop' = [loop EXCEPT !.state = "STOPPED", !.result = r]
  BY DEF Block, Later, Verdict
<1>4. OpenHours(Current) = k
  BY <1>1, <1>2, OpenHoursEnd
<1>5. r = Expected(Current)
  <2>1. Expected(Current) = [Plus(Nothing, {"stops", "blocks"})
                               EXCEPT !.attempted = k, !.failures = k, !.aiRequests = k + 1]
    <3>1. ~(lag > 720) /\ Current.scenario # "BANK_TIMEOUT"
      BY DEF BeforeTurn
    <3> QED BY <1>2, <1>4, <3>1 DEF Expected
  <2> QED BY <1>1, <1>2, <2>1, Sums
<1>6. r \in Result
  BY <1>5, ExpectedIsBooked DEF BeforeTurn, Booked
<1> HIDE DEF r
<1> QED BY <1>2, <1>3, <1>5, <1>6, LoopMoves DEF BeforeTurn, Turned

\* Any other case is escalated at once.
LEMMA EscalationTurn ==
    ASSUME BeforeTurn, Current.scenario \notin {"BANK_TIMEOUT", "INSUFFICIENT_FUNDS"},
           loop' = [loop EXCEPT !.state = "ESCALATED",
                                !.result = Plus(loop.result, {"escalations"})]
    PROVE  Turned
<1>1. loop.result = Nothing
  BY DEF BeforeTurn, GoesOn
<1>2. Expected(Current) = Plus(Nothing, {"escalations"})
  BY DEF BeforeTurn, Expected
<1>3. Plus(Nothing, {"escalations"}) \in Result /\ loop.attempts \in 0..MaxAttempts
  BY ResultTypes DEF BeforeTurn, Loops
<1> QED BY <1>1, <1>2, <1>3, LoopMoves DEF BeforeTurn, Turned

\* Turn: what is proposed is known, whatever the scores, and so is what comes of it.
LEMMA TurnStep == Inv /\ Turn => Inv'
<1> SUFFICES ASSUME Inv, Turn PROVE Inv'
  OBVIOUS
<1>1. /\ loop.pc = "loop" /\ ~Over
      /\ UNCHANGED <<dataset, lag, naive, sut, metrics>>
  BY DEF Turn
<1>2. Len(sut) < NumCases
  BY <1>1 DEF Inv, LoopInv, Idle
<1>3. BeforeTurn
  <2>1. MaxAttempts \in Nat /\ MaxAttempts >= 2
    BY EvaluationConstants
  <2>2. Current \in EvaluationCase /\ Current' = Current
    BY <1>1, <1>2, CurrentCase DEF Inv, Current
  <2>3. /\ loop \in Loops /\ lag \in Nat /\ lag <= 720 /\ GoesOn(Current)
        /\ loop.state \in {"DETECTED", "RETRYABLE"}
    BY <1>1 DEF Inv, TypeOK, LoopInv, Idle, Over, Loops
  <2>4. loop.attempts \in 0..MaxAttempts - 1
    BY <1>1, <2>1, <2>3 DEF Over, Loops
  <2> QED BY <1>1, <2>1, <2>2, <2>3, <2>4 DEF BeforeTurn, Asked
<1> DEFINE minute == (Current.minute + 60 * loop.attempts) % 1440
<1>4. PICK p \in Proposals :
        LET r == IF p.type \in {"SMS_REMINDER", "EMAIL_REMINDER"}
                   THEN Plus(loop.result, {"aiRequests"}) ELSE loop.result
        IN
        \/ ~p.verdict.approved /\ Block(p.verdict, r)
        \/ /\ p.verdict.approved
           /\ p.type = "HUMAN_ESCALATION" \/ p.verdict.human
           /\ loop' = [loop EXCEPT !.state = "ESCALATED", !.result = Plus(r, {"escalations"})]
        \/ /\ p.verdict.approved
           /\ p.type # "HUMAN_ESCALATION" /\ ~p.verdict.human
           /\ Attempt(r)
  BY Zenon DEF Turn
<1>5. PICK answer \in Answers :
        p = Propose(AsCase(loop.state, Current, loop.attempts), SourceEvent(Current),
                    MerchantPolicy, {}, answer, minute)
  BY DEF Proposals, AsCase
<1> HIDE DEF minute
<1>6. Asked(loop.state, Current, loop.attempts)
  BY <1>3 DEF BeforeTurn
<1>7. Turned
  <2>1. CASE Current.scenario = "BANK_TIMEOUT"
    <3>1. p = [type |-> "PAYMENT_RETRY", verdict |-> Verdict(TRUE, FALSE, FALSE, FALSE, {})]
      BY <1>5, <1>6, <2>1, TimeoutIsRetried, Zenon
    <3>2. Attempt(loop.result)
      BY <1>4, <3>1 DEF Verdict
    <3> QED BY <1>3, <2>1, <3>2, TimeoutTurn
  <2>2. CASE Current.scenario = "INSUFFICIENT_FUNDS"
    <3>1. p = [type    |-> "EMAIL_REMINDER",
               verdict |-> IF Open(Current, loop.attempts)
                             THEN Verdict(TRUE, FALSE, FALSE, FALSE, {})
                           ELSE Later({"ATTEMPT_LIMIT_REACHED"})]
      <4>1. IsOutsideTRAIWindow(minute) <=> ~Open(Current, loop.attempts)
        BY DEF Open, minute
      <4> QED BY <1>5, <1>6, <2>2, <4>1, BalanceIsReminded, Zenon
    <3>2. CASE Open(Current, loop.attempts)
      <4>1. Attempt(Plus(loop.result, {"aiRequests"}))
        BY <1>4, <3>1, <3>2 DEF Verdict
      <4> QED BY <1>3, <2>2, <3>2, <4>1, ReminderTurn
    <3>3. CASE ~Open(Current, loop.attempts)
      <4>1. Block(Later({"ATTEMPT_LIMIT_REACHED"}), Plus(loop.result, {"aiRequests"}))
        BY <1>4, <3>1, <3>3 DEF Verdict, Later
      <4> QED BY <1>3, <2>2, <3>3, <4>1, NightTurn
    <3> QED BY <3>2, <3>3
  <2>3. CASE Current.scenario \notin {"BANK_TIMEOUT", "INSUFFICIENT_FUNDS"}
    <3>1. p = [type |-> "HUMAN_ESCALATION", verdict |-> Verdict(TRUE, TRUE, FALSE, TRUE, {})]
      BY <1>5, <1>6, <2>3, OthersAreEscalated, Zenon
    <3>2. loop' = [loop EXCEPT !.state = "ESCALATED",
                               !.result = Plus(loop.result, {"escalations"})]
      BY <1>4, <3>1 DEF Verdict
    <3> QED BY <1>3, <2>3, <3>2, EscalationTurn
  <2> QED BY <2>1, <2>2, <2>3
<1>8. TypeOK'
  BY <1>1, <1>7 DEF Inv, TypeOK, Turned, Loops
<1>9. LoopInv'
  <2>1. Expected(Current)' = Expected(Current)
    BY <1>1, SameExpectations DEF Current, Expected
  <2> QED BY <1>1, <1>2, <1>3, <1>7, <2>1 DEF LoopInv, Turned, BeforeTurn
<1>10. ResultsInv'
  BY <1>1, SameResults DEF Inv
<1>11. TotalsInv'
  BY <1>1, <1>2, SameTotals
<1> QED BY <1>8, <1>9, <1>10, <1>11 DEF Inv

\* The invariant holds in every reachable state.
LEMMA Invariant == Spec => []Inv
<1>1. ASSUME Inv, UNCHANGED vars PROVE Inv'
  <2>1. TypeOK'
    BY <1>1 DEF vars, Inv, TypeOK
  <2>2. LoopInv'
    BY <1>1, SameExpectations DEF vars, Inv, LoopInv, GoesOn, Current
  <2>3. ResultsInv'
    BY <1>1, SameResults DEF vars, Inv
  <2>4. TotalsInv'
    BY <1>1 DEF vars, Inv, TotalsInv, Done
  <2> QED BY <2>1, <2>2, <2>3, <2>4 DEF Inv
<1>2. Inv /\ [Next]_vars => Inv'
  BY <1>1, BeginStep, TurnStep, FinishStep, ComputeStep DEF Next
<1> QED BY Initially, <1>2, PTL DEF Spec

-----------------------------------------------------------------------------
(* The theorems *)

\* Every result is booked, and the totals are those of the results.
LEMMA EveryResultIsBooked ==
    Inv => \A i \in DOMAIN sut : dataset[i] \in EvaluationCase /\ Booked(sut[i], dataset[i])
<1> SUFFICES ASSUME Inv, NEW i \in DOMAIN sut
             PROVE  dataset[i] \in EvaluationCase /\ Booked(sut[i], dataset[i])
  OBVIOUS
<1>1. dataset[i] \in EvaluationCase
  BY EvaluationConstants DEF Inv, TypeOK
<1>2. sut[i] = Expected(dataset[i])
  BY DEF Inv, ResultsInv, ResultsReproducible
<1> QED BY <1>1, <1>2, ExpectedIsBooked

\* The results of the benchmark are the same on every run: each is the result the
\* closed formula gives for the ground truth, the hour and the age of the event,
\* whatever the scoring service answered (SystemUnderTestStrategy.evaluate).
THEOREM ResultsAreReproducible == Spec => []ResultsReproducible
<1>1. Inv => ResultsReproducible
  BY DEF Inv, ResultsInv
<1> QED BY <1>1, Invariant, PTL

\* Every case ends one way, and the totals of the ways a case may end add up to the
\* number of cases (buildResult and MetricsCalculator.compute).
THEOREM CasesEndOneWay == Spec => []EveryCaseEndsOneWay
<1>1. Inv => EveryCaseEndsOneWay
  BY EveryResultIsBooked DEF EveryCaseEndsOneWay, Booked, Inv, TotalsInv
<1> QED BY <1>1, Invariant, PTL

\* No attempt is lost or counted twice, and no request to the LLM is counted for a
\* reminder that was not proposed (the counters of evaluate).
THEOREM AttemptsAccounted == Spec => []AttemptsAreAccounted
<1>1. Inv => AttemptsAreAccounted
  BY EveryResultIsBooked DEF AttemptsAreAccounted, Booked
<1> QED BY <1>1, Invariant, PTL

\* No suspected fraud is ever acted on, so that no chargeback is charged to the
\* system (RoiCalculator.computeNetRoi).
THEOREM FraudNeverAttempted == Spec => []FraudIsNeverAttempted
<1>1. Inv => FraudIsNeverAttempted
  BY EveryResultIsBooked DEF FraudIsNeverAttempted, Chargebacks, Booked
<1> QED BY <1>1, Invariant, PTL

\* The integrity assertions never throw, for the totals and case by case
\* (IntegrityAssertions.assertValid).
THEOREM IntegrityIsKept == Spec => []IntegrityHolds
<1>1. ASSUME Inv PROVE IntegrityHolds
  <2>1. /\ metrics.system.recovered <= metrics.atRisk
        /\ metrics.system.false <= metrics.system.attempted
        /\ metrics.system.succeeded <= metrics.system.attempted
        /\ metrics.baseline1 <= metrics.atRisk
    BY <1>1 DEF Inv, TotalsInv
  <2>2. ASSUME NEW i \in DOMAIN sut
        PROVE  /\ sut[i].recovered <= dataset[i].amount
               /\ sut[i].succeeded <= sut[i].attempted
               /\ sut[i].false <= sut[i].attempted
    BY <1>1, EveryResultIsBooked, BookedIsSound
  <2>3. ASSUME NEW i \in DOMAIN naive
        PROVE  /\ naive[i].recovered <= dataset[i].amount
               /\ naive[i].succeeded <= naive[i].attempted
               /\ naive[i].false <= naive[i].attempted
    <3>1. i \in 1..NumCases
      BY <1>1, EvaluationConstants DEF Inv, TypeOK, LoopInv, Idle
    <3>2. dataset[i] \in EvaluationCase /\ naive[i] = Naive(dataset[i])
      BY <1>1, <3>1 DEF Inv, TypeOK, ResultsInv
    <3> QED BY <3>2, NaiveIsBooked
  <2> QED BY <2>1, <2>2, <2>3 DEF IntegrityHolds
<1> QED BY <1>1, Invariant, PTL
=============================================================================
