---------------------------- MODULE RazorpayClient ----------------------------
(***************************************************************************)
(* RazorpayAdapter: each execute() creates one payment link by a POST that *)
(* axios-retry repeats up to Retries times, inside a circuit breaker that  *)
(* all calls share.  The breaker gives up on a call while its POSTs go on, *)
(* and its fallback replaces every error.                                  *)
(*                                                                         *)
(* axios-retry, the breaker (opossum) and the provider are modelled from   *)
(* how the adapter configures and uses them.  The provider refuses a       *)
(* second link with a reference_id it knows; the adapter draws one for     *)
(* each execute(), from the intervention's id and random digits: one that  *)
(* no other call has drawn.                                                *)
(***************************************************************************)
EXTENDS Naturals, ProviderAdapters

CONSTANTS
    Calls,      \* calls of execute for a payment link
    References, \* values of reference_id
    Retries,    \* "retries: 3"
    MaxFaults   \* bound: requests and responses lost or late

ASSUME ClientConstants == Retries \in Nat /\ MaxFaults \in Nat

VARIABLES
    http,    \* per call: its axios request
    created, \* per call: the references of the links the provider has made for it
    result,  \* per call: what execute returned
    breaker, \* the circuit breaker
    faults   \* faults so far

vars == <<http, created, result, breaker, faults>>

\* Before execute has returned.
NotFired == Failure("notFired")
Pending  == Failure("pending")
Answer  == {"ok", "refused", "denied", "busy", "reset", "timeout"}

\* Not fired, request under way, answered or ended.  late: the breaker has given
\* up on the call; lost: the response that told of the link did not arrive.
Http == [pc : {"idle", "posting", "answered", "ended"},
         reference : References \cup {"none"}, tries : 0..Retries + 1,
         answer : Answer \cup {"none"}, late : BOOLEAN, lost : BOOLEAN]

TypeOK ==
    /\ http \in [Calls -> Http]
    /\ created \in [Calls -> SUBSET References]
    /\ result \in [Calls -> {NotFired, Pending, Success}
                               \cup {Failure(code) : code \in ErrorCode}]
    /\ breaker \in [mode : {"closed", "open", "halfOpen"}, trial : BOOLEAN,
                    fires : Nat, failures : Nat]
    /\ faults \in 0..MaxFaults

Init ==
    /\ http = [c \in Calls |-> [pc |-> "idle", reference |-> "none", tries |-> 0,
                               answer |-> "none", late |-> FALSE, lost |-> FALSE]]
    /\ created = [c \in Calls |-> {}]
    /\ result = [c \in Calls |-> NotFired]
    /\ breaker = [mode |-> "closed", trial |-> FALSE, fires |-> 0, failures |-> 0]
    /\ faults = 0

-----------------------------------------------------------------------------
(* Errors *)

\* mapRazorpayError for an HTTP status: 401 and 403, 429 and 5xx, other ones.
MapRazorpayError(error) ==
    CASE error = "denied" -> "INVALID_CREDENTIALS"
      [] error = "busy"   -> "PROVIDER_UNAVAILABLE"
      [] OTHER            -> "PROVIDER_REJECTED"

\* breaker.fallback
Fallback(error) == "breakerOpen"

\* execute's catch.
ErrorCodeOf(error) ==
    IF error \in {"breakerOpen", "timeout"} THEN "PROVIDER_UNAVAILABLE" ELSE MapRazorpayError(error)

Rejected(error) == Failure(ErrorCodeOf(Fallback(error)))

-----------------------------------------------------------------------------
(* The breaker *)

\* More than half of the calls in the statistics failed, or the trial did.
Fail(b) ==
    LET after == [b EXCEPT !.failures = @ + 1]
    IN IF 100 * after.failures > 50 * after.fires \/ b.mode = "halfOpen"
         THEN [after EXCEPT !.mode = "open", !.trial = FALSE] ELSE after

\* A success closes a half-open circuit, whichever call it comes from.
Succeed(b) == IF b.mode = "halfOpen" THEN [b EXCEPT !.mode = "closed"] ELSE b

\* A reference that no call has drawn.
Unused(r) == \A c \in Calls : http[c].reference # r

\* createPaymentLink draws the reference and calls breaker.fire: an open circuit
\* rejects at once, a half-open one lets a single trial through.
Fire(c) ==
    /\ result[c] = NotFired
    /\ IF breaker.mode = "closed" \/ breaker.trial
         THEN /\ \E r \in References :
                   /\ Unused(r)
                   /\ http' = [http EXCEPT ![c].pc = "posting", ![c].reference = r,
                                           ![c].tries = 1]
              /\ result' = [result EXCEPT ![c] = Pending]
         ELSE /\ result' = [result EXCEPT ![c] = Rejected("reject")]
              /\ UNCHANGED http
    /\ breaker' = [breaker EXCEPT !.fires = @ + 1, !.trial = FALSE]
    /\ UNCHANGED <<created, faults>>

\* "timeout: 15000": the breaker stops waiting, the requests go on.
GiveUp(c) ==
    /\ result[c] = Pending
    /\ result' = [result EXCEPT ![c] = Rejected("breakerTimeout")]
    /\ http' = [http EXCEPT ![c].late = TRUE]
    /\ breaker' = Fail(breaker)
    /\ UNCHANGED <<created, faults>>

\* "resetTimeout: 30000"
HalfOpen ==
    /\ breaker.mode = "open"
    /\ breaker' = [breaker EXCEPT !.mode = "halfOpen", !.trial = TRUE]
    /\ UNCHANGED <<http, created, result, faults>>

\* The statistics cover a rolling window.
WindowRolls ==
    /\ breaker.fires > 0
    /\ breaker' = [breaker EXCEPT !.fires = 0, !.failures = 0]
    /\ UNCHANGED <<http, created, result, faults>>

-----------------------------------------------------------------------------
(* Requests *)

\* The provider makes the link, unless it has one with this reference for any
\* call, or answers with an error status.
Reach(c) ==
    /\ http[c].pc = "posting"
    /\ \/ /\ \A d \in Calls : http[c].reference \notin created[d]
          /\ created' = [created EXCEPT ![c] = @ \cup {http[c].reference}]
          /\ http' = [http EXCEPT ![c].pc = "answered", ![c].answer = "ok"]
       \/ /\ \E answer \in {"refused", "denied", "busy"} :
               http' = [http EXCEPT ![c].pc = "answered", ![c].answer = answer]
          /\ UNCHANGED created
    /\ UNCHANGED <<result, breaker, faults>>

\* A request or its response is lost: the connection is reset, or axios stops
\* waiting after 10 s.
Lose(c) ==
    /\ faults < MaxFaults
    /\ faults' = faults + 1
    /\ http[c].pc = "posting" \/ http[c].answer = "ok"
    /\ \E answer \in {"reset", "timeout"} :
         http' = [http EXCEPT ![c].pc = "answered", ![c].answer = answer,
                              ![c].lost = @ \/ http[c].answer = "ok"]
    /\ UNCHANGED <<created, result, breaker>>

\* retryCondition: network errors other than a timeout, 429 and 5xx.
Retryable(h) == h.answer \in {"busy", "reset"} /\ h.tries <= Retries

\* Mutant: attempts are not counted.
RetryForever(c) ==
    /\ http[c].pc = "answered"
    /\ Retryable(http[c])
    /\ http' = [http EXCEPT ![c].pc = "posting", ![c].answer = "none"]
    /\ UNCHANGED <<created, result, breaker, faults>>

\* Mutant: the reference is drawn for every attempt.
RetryAnew(c) ==
    /\ http[c].pc = "answered"
    /\ Retryable(http[c])
    /\ \E r \in References :
         /\ Unused(r)
         /\ http' = [http EXCEPT ![c].pc = "posting", ![c].reference = r,
                                 ![c].tries = @ + 1, ![c].answer = "none"]
    /\ UNCHANGED <<created, result, breaker, faults>>

\* Up to four attempts in all, of the same request.
Retry(c) ==
    /\ http[c].pc = "answered"
    /\ Retryable(http[c])
    /\ http' = [http EXCEPT ![c].pc = "posting", ![c].tries = @ + 1, ![c].answer = "none"]
    /\ UNCHANGED <<created, result, breaker, faults>>

\* Mutant: an answer is dropped when the circuit has opened meanwhile.
SettleIfClosed(c) ==
    /\ http[c].pc = "answered"
    /\ ~Retryable(http[c])
    /\ http' = [http EXCEPT ![c].pc = "ended", ![c].answer = "none"]
    /\ IF http[c].late THEN UNCHANGED <<result, breaker>>
       ELSE IF http[c].answer = "ok" /\ breaker.mode = "closed"
         THEN /\ result' = [result EXCEPT ![c] = Success]
              /\ breaker' = Succeed(breaker)
         ELSE /\ result' = [result EXCEPT ![c] = Rejected(http[c].answer)]
              /\ breaker' = Fail(breaker)
    /\ UNCHANGED <<created, faults>>

\* Mutant: the answer's status is not looked at.
SettleAnyAnswer(c) ==
    /\ http[c].pc = "answered"
    /\ ~Retryable(http[c])
    /\ http' = [http EXCEPT ![c].pc = "ended", ![c].answer = "none"]
    /\ IF result[c] = Pending THEN result' = [result EXCEPT ![c] = Success] ELSE UNCHANGED result
    /\ UNCHANGED <<created, breaker, faults>>

\* The last answer goes to the breaker, which forgets it if it has given up.
Settle(c) ==
    /\ http[c].pc = "answered"
    /\ ~Retryable(http[c])
    /\ http' = [http EXCEPT ![c].pc = "ended", ![c].answer = "none"]
    /\ IF http[c].late THEN UNCHANGED <<result, breaker>>
       ELSE IF http[c].answer = "ok"
         THEN /\ result' = [result EXCEPT ![c] = Success]
              /\ breaker' = Succeed(breaker)
         ELSE /\ result' = [result EXCEPT ![c] = Rejected(http[c].answer)]
              /\ breaker' = Fail(breaker)
    /\ UNCHANGED <<created, faults>>

-----------------------------------------------------------------------------
Next ==
    \/ \E c \in Calls : Fire(c) \/ GiveUp(c) \/ Reach(c) \/ Lose(c) \/ Retry(c) \/ Settle(c)
    \/ HalfOpen \/ WindowRolls

\* Every request is answered or times out, and answers are dealt with; the
\* breaker need not help.
Fairness ==
    \A c \in Calls : WF_vars(Reach(c) \/ Lose(c)) /\ WF_vars(Retry(c)) /\ WF_vars(Settle(c))

Spec     == Init /\ [][Next]_vars
FairSpec == Spec /\ Fairness

-----------------------------------------------------------------------------
(* Properties *)

Returned(c) == result[c] \notin {NotFired, Pending}

\* A call makes at most one link, however often its POST is repeated after an
\* answer that was an error or was lost, and it succeeds only with that link,
\* whatever the circuit did meanwhile.
OneLinkPerCall ==
    \A c \in Calls : /\ \A r, s \in created[c] : r = s
                     /\ result[c] = Success => created[c] # {}

\* What the execution worker can be told: the adapter answers within the results
\* that RazorpayAdapter lists, so no failure is ever reported as a timeout, and
\* what became of the link is never reconciled.
AnswersAreListed ==
    \A c \in Calls : Returned(c) => result[c] \in RazorpayAdapter([razorpayMode |-> TRUE])

\* A link that exists although a failure was reported goes back to a response
\* that was lost or to an answer the breaker did not wait for; an opening circuit
\* alone does not make one.
OrphanLinkHasCause ==
    \A c \in Calls : Returned(c) /\ result[c] # Success /\ created[c] # {} =>
        http[c].lost \/ http[c].late

\* A call that was sent returns even if the breaker never gives up: the retries
\* come to an end.
CallsReturn == \A c \in Calls : result[c] = Pending ~> Returned(c)
=============================================================================
