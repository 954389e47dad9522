------------------------- MODULE RazorpayClientProofs -------------------------
(***************************************************************************)
(* What RazorpayAdapter promises, for any number of calls, retries and     *)
(* faults.                                                                 *)
(***************************************************************************)
EXTENDS RazorpayClient, TLAPS

\* Where a call stands.  The request runs exactly while the call has been sent
\* and not given up (Sent).  Its attempts carry one reference, and the only link
\* made for it has that reference (Linked).  A link means that the response
\* telling of it is here, was lost, came too late, or has been returned (Known).
Sent(h, r)     == h.pc \in {"posting", "answered"} /\ ~h.late <=> r = Pending
Linked(h, n)   == /\ n \subseteq {h.reference}
                  /\ h.pc # "idle" => h.reference \in References
                  /\ h.answer = "ok" => n # {}
                  /\ h.answer # "none" => h.pc = "answered"
                  /\ h.pc = "idle" => n = {}
Known(h, n, r) == n # {} => h.answer = "ok" \/ h.lost \/ h.late \/ r = Success
Told(n, r)     == /\ r \in {NotFired, Pending, Success, Failure("PROVIDER_UNAVAILABLE")}
                  /\ r = Success => n # {}
Waits(h, r)    == r = NotFired => h.pc = "idle" /\ ~h.late

CallInv(h, n, r) == Sent(h, r) /\ Linked(h, n) /\ Known(h, n, r) /\ Told(n, r) /\ Waits(h, r)

\* The inductive invariant.
Inv == TypeOK /\ \A c \in Calls : CallInv(http[c], created[c], result[c])

\* The results before and after execute has returned are told apart.
LEMMA ResultsDiffer ==
    /\ NotFired # Pending /\ NotFired # Success /\ Pending # Success
    /\ Failure("PROVIDER_UNAVAILABLE") \notin {NotFired, Pending, Success}
    /\ Failure("PROVIDER_UNAVAILABLE") \in {Failure(code) : code \in ErrorCode}
BY DEF NotFired, Pending, Success, Failure, ErrorCode

\* Whatever goes wrong inside the breaker, its fallback makes the same answer.
LEMMA FallbackHidesErrors ==
    ASSUME NEW error
    PROVE  Rejected(error) = Failure("PROVIDER_UNAVAILABLE")
BY DEF Rejected, ErrorCodeOf, Fallback

\* The breaker keeps its shape.
Breaker == [mode : {"closed", "open", "halfOpen"}, trial : BOOLEAN, fires : Nat, failures : Nat]

LEMMA BreakerType ==
    ASSUME NEW b \in Breaker
    PROVE  Fail(b) \in Breaker /\ Succeed(b) \in Breaker
<1>1. Succeed(b) \in Breaker
  BY DEF Breaker, Succeed
<1> DEFINE after == [b EXCEPT !.failures = b.failures + 1]
<1>2. after \in Breaker
  BY DEF Breaker
<1>3. [after EXCEPT !.mode = "open", !.trial = FALSE] \in Breaker
  BY <1>2 DEF Breaker
<1>4. Fail(b) \in {after, [after EXCEPT !.mode = "open", !.trial = FALSE]}
  BY DEF Fail
<1> QED BY <1>1, <1>2, <1>3, <1>4

\* A step of one call that leaves the others alone.
LEMMA OneCall ==
    ASSUME Inv, NEW c \in Calls, NEW h \in Http, NEW n, NEW r,
           http' = [http EXCEPT ![c] = h], created' = [created EXCEPT ![c] = n],
           result' = [result EXCEPT ![c] = r],
           CallInv(h, n, r), breaker' \in Breaker, faults' \in 0..MaxFaults
    PROVE  Inv'
<1>1. n \in SUBSET References /\ r \in {NotFired, Pending, Success} \cup {Failure(code) : code \in ErrorCode}
  BY ResultsDiffer DEF CallInv, Linked, Told
<1>2. TypeOK'
  BY <1>1 DEF Inv, TypeOK, Breaker
<1>3. ASSUME NEW d \in Calls PROVE CallInv(http[d], created[d], result[d])'
  <2>1. CASE d = c
    BY <2>1 DEF Inv, TypeOK, CallInv, Sent, Linked, Known, Told, Waits
  <2>2. CASE d # c
    BY <2>2 DEF Inv, TypeOK, CallInv, Sent, Linked, Known, Told, Waits
  <2> QED BY <2>1, <2>2
<1> QED BY <1>2, <1>3 DEF Inv

LEMMA Initially == Init => Inv
<1> SUFFICES ASSUME Init PROVE Inv
  OBVIOUS
<1>1. TypeOK
  BY ClientConstants DEF Init, TypeOK, Http, Answer, ClientConstants
<1>2. ASSUME NEW c \in Calls PROVE CallInv(http[c], created[c], result[c])
  BY ResultsDiffer DEF Init, CallInv, Sent, Linked, Known, Told, Waits
<1> QED BY <1>1, <1>2 DEF Inv

\* A request keeps its shape when one of its fields changes.
LEMMA HttpType ==
    ASSUME NEW h \in Http
    PROVE  /\ \A pc \in {"idle", "posting", "answered", "ended"} : [h EXCEPT !.pc = pc] \in Http
           /\ \A r \in References : [h EXCEPT !.reference = r] \in Http
           /\ \A tries \in 0..Retries + 1 : [h EXCEPT !.tries = tries] \in Http
           /\ \A answer \in Answer \cup {"none"} : [h EXCEPT !.answer = answer] \in Http
           /\ \A late \in BOOLEAN : [h EXCEPT !.late = late] \in Http
           /\ \A lost \in BOOLEAN : [h EXCEPT !.lost = lost] \in Http
BY DEF Http

\* Changing fields of a call's request is giving it another request.
LEMMA FireFields ==
    ASSUME NEW c \in Calls, http \in [Calls -> Http], NEW r,
           http' = [http EXCEPT ![c].pc = "posting", ![c].reference = r, ![c].tries = 1]
    PROVE  http' = [http EXCEPT ![c] =
                      [http[c] EXCEPT !.pc = "posting", !.reference = r, !.tries = 1]]
OBVIOUS

LEMMA LoseFields ==
    ASSUME NEW c \in Calls, http \in [Calls -> Http], NEW answer, NEW lost,
           http' = [http EXCEPT ![c].pc = "answered", ![c].answer = answer, ![c].lost = lost]
    PROVE  http' = [http EXCEPT ![c] =
                      [http[c] EXCEPT !.pc = "answered", !.answer = answer, !.lost = lost]]
OBVIOUS

\* What the invariant says of one call.
LEMMA OfCall ==
    ASSUME Inv, NEW c \in Calls
    PROVE  /\ http[c] \in Http /\ breaker \in Breaker
           /\ http \in [Calls -> Http] /\ created \in [Calls -> SUBSET References]
           /\ DOMAIN result = Calls /\ result = [result EXCEPT ![c] = result[c]]
           /\ created = [created EXCEPT ![c] = created[c]] /\ http = [http EXCEPT ![c] = http[c]]
           /\ CallInv(http[c], created[c], result[c])
           /\ faults \in 0..MaxFaults
BY DEF Inv, TypeOK, Breaker

LEMMA FireStep ==
    ASSUME Inv, NEW c \in Calls, Fire(c)
    PROVE  Inv'
<1> DEFINE b == [breaker EXCEPT !.fires = breaker.fires + 1]
<1>1. breaker' \in Breaker
  <2>1. b \in Breaker
    BY OfCall DEF Breaker
  <2>2. [b EXCEPT !.trial = FALSE] \in Breaker
    BY <2>1 DEF Breaker
  <2>3. breaker' = [b EXCEPT !.trial = FALSE]
    BY DEF Fire
  <2> QED BY <2>2, <2>3
<1>2. faults' \in 0..MaxFaults /\ created' = [created EXCEPT ![c] = created[c]]
  BY OfCall DEF Fire
<1>3. result[c] = NotFired
  BY DEF Fire
<1>4. ASSUME NEW ref \in References, result' = [result EXCEPT ![c] = Pending],
             http' = [http EXCEPT ![c].pc = "posting", ![c].reference = ref, ![c].tries = 1]
      PROVE  Inv'
  <2> DEFINE g == [http[c] EXCEPT !.pc = "posting"]
             k == [g EXCEPT !.reference = ref]
             h == [http[c] EXCEPT !.pc = "posting", !.reference = ref, !.tries = 1]
  <2>1. k \in Http
    <3>1. g \in Http
      BY OfCall, HttpType
    <3> QED BY <3>1, HttpType
  <2>2. 1 \in 0..Retries + 1
    BY ClientConstants DEF ClientConstants
  <2>3. h \in Http
    <3>1. [k EXCEPT !.tries = 1] \in Http
      BY <2>1, <2>2, HttpType
    <3> QED BY <3>1
  <2>4. http' = [http EXCEPT ![c] = h]
    <3>1. http \in [Calls -> Http]
      BY OfCall
    <3> QED BY <3>1, <1>4, FireFields
  <2>5. /\ h.pc = "posting" /\ h.reference = ref /\ h.answer = http[c].answer
        /\ h.late = http[c].late /\ h.lost = http[c].lost
    BY OfCall DEF Http
  <2> HIDE DEF h
  <2>6. CallInv(h, created[c], Pending)
    BY <1>3, <2>5, OfCall, ResultsDiffer DEF CallInv, Sent, Linked, Known, Told, Waits, Http
  <2> QED BY <1>1, <1>2, <1>4, <2>3, <2>4, <2>6, OneCall
<1>5. ASSUME UNCHANGED http, result' = [result EXCEPT ![c] = Rejected("reject")]
      PROVE  Inv'
  <2>1. CallInv(http[c], created[c], Rejected("reject"))
    BY <1>3, OfCall, ResultsDiffer, FallbackHidesErrors
       DEF CallInv, Sent, Linked, Known, Told, Waits, Http
  <2>2. http' = [http EXCEPT ![c] = http[c]]
    BY <1>5, OfCall
  <2> QED BY <1>1, <1>2, <1>5, <2>1, <2>2, OfCall, OneCall
<1> QED BY <1>4, <1>5 DEF Fire

LEMMA GiveUpStep ==
    ASSUME Inv, NEW c \in Calls, GiveUp(c)
    PROVE  Inv'
<1> DEFINE h == [http[c] EXCEPT !.late = TRUE]
           r == Rejected("breakerTimeout")
<1>1. h \in Http
  BY OfCall, HttpType
<1>2. breaker' \in Breaker /\ faults' \in 0..MaxFaults
  BY OfCall, BreakerType DEF GiveUp
<1>3. http' = [http EXCEPT ![c] = h] /\ result' = [result EXCEPT ![c] = r]
      /\ created' = [created EXCEPT ![c] = created[c]]
  BY OfCall DEF GiveUp
<1>4. result[c] = Pending /\ r = Failure("PROVIDER_UNAVAILABLE")
  BY FallbackHidesErrors DEF GiveUp
<1>5. CallInv(h, created[c], r)
  BY <1>4, OfCall, ResultsDiffer DEF CallInv, Sent, Linked, Known, Told, Waits, Http
<1> HIDE DEF h, r
<1> QED BY <1>1, <1>2, <1>3, <1>5, OneCall

LEMMA ReachStep ==
    ASSUME Inv, NEW c \in Calls, Reach(c)
    PROVE  Inv'
<1>1. breaker' \in Breaker /\ faults' \in 0..MaxFaults /\ result' = [result EXCEPT ![c] = result[c]]
  BY OfCall DEF Reach
<1>2. http[c].pc = "posting"
  BY DEF Reach
<1>3. ASSUME NEW answer \in Answer, NEW n, created' = [created EXCEPT ![c] = n],
             http' = [http EXCEPT ![c].pc = "answered", ![c].answer = answer],
             \/ n = created[c] \cup {http[c].reference} /\ answer = "ok"
             \/ n = created[c] /\ answer # "ok"
      PROVE  Inv'
  <2> DEFINE g == [http[c] EXCEPT !.pc = "answered"]
             h == [http[c] EXCEPT !.pc = "answered", !.answer = answer]
  <2>1. g \in Http
    BY OfCall, HttpType
  <2>2. [g EXCEPT !.answer = answer] \in Http
    BY <2>1, HttpType
  <2>3. h = [g EXCEPT !.answer = answer]
    OBVIOUS
  <2>4. http' = [http EXCEPT ![c] = h]
    BY <1>3
  <2>5. CallInv(h, n, result[c])
    BY <1>2, <1>3, OfCall, ResultsDiffer
       DEF CallInv, Sent, Linked, Known, Told, Waits, Http, Answer
  <2> HIDE DEF h
  <2> QED BY <1>1, <1>3, <2>2, <2>3, <2>4, <2>5, OneCall
<1>4. CASE /\ created' = [created EXCEPT ![c] = created[c] \cup {http[c].reference}]
           /\ http' = [http EXCEPT ![c].pc = "answered", ![c].answer = "ok"]
  BY <1>3, <1>4 DEF Answer
<1>5. CASE /\ \E answer \in {"refused", "denied", "busy"} :
                http' = [http EXCEPT ![c].pc = "answered", ![c].answer = answer]
           /\ UNCHANGED created
  <2>1. PICK answer \in {"refused", "denied", "busy"} :
               http' = [http EXCEPT ![c].pc = "answered", ![c].answer = answer]
    BY <1>5
  <2>2. answer \in Answer /\ answer # "ok" /\ created' = [created EXCEPT ![c] = created[c]]
    BY <1>5, OfCall DEF Answer
  <2> QED BY <1>3, <2>1, <2>2
<1> QED BY <1>4, <1>5 DEF Reach

LEMMA LoseStep ==
    ASSUME Inv, NEW c \in Calls, Lose(c)
    PROVE  Inv'
<1>1. PICK answer \in {"reset", "timeout"} :
        http' = [http EXCEPT ![c].pc = "answered", ![c].answer = answer,
                             ![c].lost = http[c].lost \/ http[c].answer = "ok"]
  BY DEF Lose
<1> DEFINE lost == http[c].lost \/ http[c].answer = "ok"
           g == [http[c] EXCEPT !.pc = "answered"]
           k == [g EXCEPT !.answer = answer]
           h == [http[c] EXCEPT !.pc = "answered", !.answer = answer, !.lost = lost]
<1>2. h \in Http
  <2>1. g \in Http
    BY OfCall, HttpType
  <2>2. k \in Http
    BY <2>1, HttpType DEF Answer
  <2>3. lost \in BOOLEAN
    BY OfCall DEF Http
  <2>4. [k EXCEPT !.lost = lost] \in Http
    BY <2>2, <2>3, HttpType
  <2> QED BY <2>4
<1>3. breaker' \in Breaker /\ result' = [result EXCEPT ![c] = result[c]]
      /\ created' = [created EXCEPT ![c] = created[c]]
  BY OfCall DEF Lose
<1>4. faults' \in 0..MaxFaults
  <2>1. faults \in 0..MaxFaults
    BY OfCall
  <2> QED BY <2>1, ClientConstants DEF Lose, ClientConstants
<1>7. http' = [http EXCEPT ![c] = h]
  <2>1. http \in [Calls -> Http]
    BY OfCall
  <2> HIDE DEF lost
  <2> QED BY <2>1, <1>1, LoseFields DEF lost
<1>5. http[c].pc = "posting" \/ http[c].answer = "ok"
  BY DEF Lose
<1>6. CallInv(h, created[c], result[c])
  <2>1. /\ h.pc = "answered" /\ h.answer \notin {"ok", "none"} /\ h.late = http[c].late
        /\ h.reference = http[c].reference
        /\ http[c].lost \/ http[c].answer = "ok" => h.lost
    BY <1>1, OfCall DEF Http
  <2> HIDE DEF h
  <2> QED BY <1>5, <2>1, OfCall, ResultsDiffer DEF CallInv, Sent, Linked, Known, Told, Waits, Http
<1> HIDE DEF h
<1> QED BY <1>2, <1>3, <1>4, <1>6, <1>7, OneCall

LEMMA RetryStep ==
    ASSUME Inv, NEW c \in Calls, Retry(c)
    PROVE  Inv'
<1> DEFINE tries == http[c].tries + 1
           g == [http[c] EXCEPT !.pc = "posting"]
           k == [g EXCEPT !.tries = tries]
           h == [http[c] EXCEPT !.pc = "posting", !.tries = tries, !.answer = "none"]
<1>1. http[c].pc = "answered" /\ http[c].answer \in {"busy", "reset"} /\ http[c].tries <= Retries
  BY DEF Retry, Retryable
<1>2. h \in Http
  <2>1. g \in Http
    BY OfCall, HttpType
  <2>2. tries \in 0..Retries + 1
    BY <1>1, OfCall, ClientConstants DEF Http, ClientConstants
  <2>3. k \in Http
    BY <2>1, <2>2, HttpType
  <2>4. [k EXCEPT !.answer = "none"] \in Http
    BY <2>3, HttpType
  <2> QED BY <2>4
<1>3. breaker' \in Breaker /\ faults' \in 0..MaxFaults
  BY OfCall DEF Retry
<1>4. http' = [http EXCEPT ![c] = h] /\ result' = [result EXCEPT ![c] = result[c]]
      /\ created' = [created EXCEPT ![c] = created[c]]
  BY OfCall DEF Retry
<1>5. CallInv(h, created[c], result[c])
  BY <1>1, OfCall, ResultsDiffer DEF CallInv, Sent, Linked, Known, Told, Waits, Http
<1> HIDE DEF h
<1> QED BY <1>2, <1>3, <1>4, <1>5, OneCall

LEMMA SettleStep ==
    ASSUME Inv, NEW c \in Calls, Settle(c)
    PROVE  Inv'
<1> DEFINE g == [http[c] EXCEPT !.pc = "ended"]
           h == [http[c] EXCEPT !.pc = "ended", !.answer = "none"]
<1>1. h \in Http
  <2>1. g \in Http
    BY OfCall, HttpType
  <2>2. [g EXCEPT !.answer = "none"] \in Http
    BY <2>1, HttpType
  <2> QED BY <2>2
<1>2. faults' \in 0..MaxFaults /\ http' = [http EXCEPT ![c] = h]
      /\ created' = [created EXCEPT ![c] = created[c]]
  BY OfCall DEF Settle
<1>3. http[c].pc = "answered"
  BY DEF Settle
<1>4. CASE http[c].late
  <2>1. breaker' \in Breaker /\ result' = [result EXCEPT ![c] = result[c]]
    BY <1>4, OfCall DEF Settle
  <2>2. CallInv(h, created[c], result[c])
    BY <1>3, <1>4, OfCall, ResultsDiffer DEF CallInv, Sent, Linked, Known, Told, Waits, Http
  <2> HIDE DEF h
  <2> QED BY <1>1, <1>2, <2>1, <2>2, OneCall
<1>5. CASE ~http[c].late /\ http[c].answer = "ok"
  <2>1. breaker' \in Breaker /\ result' = [result EXCEPT ![c] = Success]
    BY <1>5, OfCall, BreakerType DEF Settle
  <2>2. CallInv(h, created[c], Success)
    BY <1>3, <1>5, OfCall, ResultsDiffer DEF CallInv, Sent, Linked, Known, Told, Waits, Http
  <2> HIDE DEF h
  <2> QED BY <1>1, <1>2, <2>1, <2>2, OneCall
<1>6. CASE ~http[c].late /\ http[c].answer # "ok"
  <2> DEFINE r == Rejected(http[c].answer)
  <2>1. breaker' \in Breaker /\ result' = [result EXCEPT ![c] = r]
    BY <1>6, OfCall, BreakerType DEF Settle
  <2>2. r = Failure("PROVIDER_UNAVAILABLE")
    BY FallbackHidesErrors
  <2>3. CallInv(h, created[c], r)
    BY <1>3, <1>6, <2>2, OfCall, ResultsDiffer DEF CallInv, Sent, Linked, Known, Told, Waits, Http
  <2> HIDE DEF h, r
  <2> QED BY <1>1, <1>2, <2>1, <2>3, OneCall
<1> QED BY <1>4, <1>5, <1>6

\* The breaker's own steps, and steps of nobody.
LEMMA BreakerStep ==
    ASSUME Inv, HalfOpen \/ WindowRolls \/ UNCHANGED vars
    PROVE  Inv'
<1>1. UNCHANGED <<http, created, result, faults>>
  BY DEF HalfOpen, WindowRolls, vars
<1>2. breaker' \in Breaker
  <2>1. breaker \in Breaker
    BY DEF Inv, TypeOK, Breaker
  <2>2. CASE HalfOpen
    <3>1. [breaker EXCEPT !.mode = "halfOpen"] \in Breaker
      BY <2>1 DEF Breaker
    <3>2. [[breaker EXCEPT !.mode = "halfOpen"] EXCEPT !.trial = TRUE] \in Breaker
      BY <3>1 DEF Breaker
    <3> QED BY <2>2, <3>2 DEF HalfOpen
  <2>3. CASE WindowRolls
    BY <2>1, <2>3 DEF WindowRolls, Breaker
  <2>4. CASE UNCHANGED vars
    BY <2>1, <2>4 DEF vars
  <2> QED BY <2>2, <2>3, <2>4
<1>3. TypeOK'
  BY <1>1, <1>2 DEF Inv, TypeOK, Breaker
<1> QED BY <1>1, <1>3 DEF Inv

LEMMA Invariant == Spec => []Inv
<1>1. Inv /\ [Next]_vars => Inv'
  BY FireStep, GiveUpStep, ReachStep, LoseStep, RetryStep, SettleStep, BreakerStep DEF Next
<1> QED BY <1>1, Initially, PTL DEF Spec

-----------------------------------------------------------------------------
\* Every variable of the client keeps its type: no call is tried more often than
\* axios-retry is told to.
THEOREM ClientTypeCorrect == Spec => []TypeOK
<1>1. Inv => TypeOK
  BY DEF Inv
<1> QED BY <1>1, Invariant, PTL

\* No call makes a second link, however often its POST is repeated, because its
\* attempts carry one reference; and a call succeeds only with its link.
THEOREM OneLink == Spec => []OneLinkPerCall
<1>1. Inv => OneLinkPerCall
  BY DEF Inv, CallInv, Linked, Told, OneLinkPerCall
<1> QED BY <1>1, Invariant, PTL

\* A link behind a reported failure goes back to a response that was lost or to
\* an answer the breaker did not wait for.
THEOREM OrphansExplained == Spec => []OrphanLinkHasCause
<1>1. Inv => OrphanLinkHasCause
  <2> SUFFICES ASSUME Inv, NEW c \in Calls, Returned(c), result[c] # Success, created[c] # {}
               PROVE  http[c].lost \/ http[c].late
    BY DEF OrphanLinkHasCause
  <2>1. CallInv(http[c], created[c], result[c]) /\ http[c] \in Http
    BY OfCall
  <2> QED BY <2>1, ResultsDiffer DEF Returned, CallInv, Sent, Linked, Known, Told, Http
<1> QED BY <1>1, Invariant, PTL

\* The execution worker is only ever told a success or that the provider is
\* unavailable: no timeout, nothing to reconcile.
THEOREM AnswersListed == Spec => []AnswersAreListed
<1>1. Inv => AnswersAreListed
  BY ResultsDiffer DEF Inv, CallInv, Told, AnswersAreListed, Returned, RazorpayAdapter
<1> QED BY <1>1, Invariant, PTL
=============================================================================
