--------------------------- MODULE WebhookIngestion ---------------------------
(***************************************************************************)
(* How payment events enter the system: the two HTTP endpoints (the        *)
(* Razorpay webhook, which records the event id in EventIdempotency before *)
(* it queues a job, and events/ingest, which only queues), BullMQ with one *)
(* attempt per job, and the two processors behind the queues.              *)
(*                                                                         *)
(* A transaction of the ingestion repository is several steps under READ   *)
(* COMMITTED: its reads see what others have committed meanwhile, its      *)
(* writes appear with the last step, and the unique key of the event it    *)
(* has inserted makes a second insert wait for the end of the first.       *)
(* Everything else that changes a case row is OtherWrite.                  *)
(***************************************************************************)
EXTENDS Naturals, Sequences, FiniteSets, Qualification

CONSTANTS
    IngestEvents,   \* event ids posted to events/ingest
    WebhookEvents,  \* event ids posted to razorpay/webhook
    IngestInputs,   \* what an ingested event may say
    WebhookInputs,  \* what a webhook may say
    Requests,       \* concurrent calls of the endpoints
    Runners,        \* concurrent executions of queued jobs
    Nobody,         \* no event / no runner
    InitialCases,   \* cases the customer already has
    PlanOutcomes,   \* states createPlan may leave an open case in
    OtherStates,    \* states the rest of the system may write
    MaxStalled,     \* BullMQ maxStalledCount
    MaxWrites,      \* bound: writes of the rest of the system
    MaxFaults       \* bound: crashes, stalls and failed calls

Events == IngestEvents \cup WebhookEvents

CaseState ==
    {"DETECTED", "RETRYABLE", "RECOVERED", "FAILED", "STOPPED"} \cup PlanOutcomes \cup OtherStates

\* The configuration is a constant in the code, whatever configJson says.
Config == [supportedEventTypes |-> Actionable, minimumAmount |-> 100, eventMaxAgeHours |-> 24,
           excludedMerchantSegments |-> {}, supportedCurrencies |-> {"INR", "USD"}]

ASSUME WebhookConstants ==
    /\ IngestEvents \cap WebhookEvents = {}
    /\ Nobody \notin IngestEvents \cup WebhookEvents \cup Runners
    /\ WebhookInputs \subseteq [signed : BOOLEAN, type : {"captured", "failed", "other"}, case : Nat]
    /\ InitialCases \in Nat
    /\ MaxStalled \in Nat
    /\ MaxWrites \in Nat
    /\ MaxFaults \in Nat

VARIABLES
    content,    \* what each event says; never changes
    stale,      \* events that occurred more than 24 hours ago
    \* Postgres
    registered, \* EventIdempotency rows
    stored,     \* RevenueEvent rows
    case,       \* the customer's RevenueCase rows, by createdAt
    audit,      \* AuditLog rows about recoveries
    \* Redis
    job,        \* jobs of the queues razorpay-events and ingestion, by jobId
    \* processes
    request,    \* running calls of the endpoints
    runner,     \* running calls of the processors
    \* observation only
    acked,      \* events some delivery of which was answered 200
    lost,       \* events whose request failed between its two writes
    log,        \* every case row there has been: <<case, version, state>>
    writes,     \* writes of the rest of the system so far
    faults      \* faults so far

tables == <<registered, stored, case, audit>>
vars   == <<content, stale, registered, stored, case, audit, job, request, runner,
            acked, lost, log, writes, faults>>

-----------------------------------------------------------------------------
(* Values *)

Row == [state : CaseState, version : Nat, source : Events \cup {Nobody}]

\* previous is written; version, of the row that the update replaced, is not
\* stored and serves the properties.
AuditRow == [action : {"PAYMENT_CAPTURED_WEBHOOK", "CASE_RECOVERED_BY_EVENT"}, event : Events,
             case : Nat, version : Nat, previous : CaseState]

\* Neither queue sets attempts: a job that fails once stays failed.
Job == [status : {"none", "waiting", "active", "completed", "failed"},
        holder : Runners \cup {Nobody}, stalled : 0..MaxStalled]

Request == [pc : {"idle", "register", "add"}, event : Events \cup {Nobody}]

RunnerPC == {"idle", "find", "capture", "audit", "plan",
             "begin", "insert", "findActive", "commit", "return", "throw"}

\* target is the case to be updated, 0 if there is none; version and state are
\* those of the row that was read, whatever becomes of the case meanwhile.
Runner == [pc : RunnerPC, event : Events \cup {Nobody}, target : Nat,
           version : Nat, state : CaseState]

IdleRequest == [pc |-> "idle", event |-> Nobody]
IdleRunner  == [pc |-> "idle", event |-> Nobody, target |-> 0, version |-> 0, state |-> "DETECTED"]

TypeOK ==
    /\ content \in [Events -> IngestInputs \cup WebhookInputs]
    /\ stale \subseteq Events
    /\ registered \subseteq Events
    /\ stored \subseteq Events
    /\ case \in Seq(Row)
    /\ audit \subseteq AuditRow
    /\ job \in [Events -> Job]
    /\ request \in [Requests -> Request]
    /\ runner \in [Runners -> Runner]
    /\ \A q \in Requests : request[q].pc # "idle" => request[q].event \in Events
    /\ \A n \in Runners : /\ runner[n].pc # "idle" => runner[n].event \in Events
                          /\ runner[n].target <= Len(case)
    /\ acked \subseteq Events
    /\ lost \subseteq Events
    /\ log \subseteq Nat \X Nat \X CaseState
    /\ writes \in 0..MaxWrites
    /\ faults \in 0..MaxFaults

NewCase(e) == [state |-> "DETECTED", version |-> 1, source |-> e]

Init ==
    /\ content \in [Events -> IngestInputs \cup WebhookInputs]
    /\ \A e \in Events : content[e] \in IF e \in IngestEvents THEN IngestInputs ELSE WebhookInputs
    /\ stale = {}
    /\ registered = {}
    /\ stored = {}
    /\ case = [c \in 1..InitialCases |-> NewCase(Nobody)]
    /\ audit = {}
    /\ job = [e \in Events |-> [status |-> "none", holder |-> Nobody, stalled |-> 0]]
    /\ request = [q \in Requests |-> IdleRequest]
    /\ runner = [n \in Runners |-> IdleRunner]
    /\ acked = {}
    /\ lost = {}
    /\ log = {<<c, 1, "DETECTED">> : c \in 1..InitialCases}
    /\ writes = 0
    /\ faults = 0

-----------------------------------------------------------------------------
(* Helpers *)

\* A row is written with the next version, whatever the writer has seen.
WriteCase(c, next) ==
    /\ case' = [case EXCEPT ![c].state = next, ![c].version = case[c].version + 1]
    /\ log' = log \cup {<<c, case[c].version + 1, next>>}

CreateCase(e) ==
    /\ case' = Append(case, NewCase(e))
    /\ log' = log \cup {<<Len(case) + 1, 1, "DETECTED">>}

Goto(n, pc) == runner' = [runner EXCEPT ![n].pc = pc]

\* The catch block logs WEBHOOK_PROCESSING_FAILED, if it can, and rethrows.
Rethrow(n) == Goto(n, "throw")

\* payment.captured and order.paid do nothing in these states.
ClosedToCaptures == {"RECOVERED", "FAILED", "STOPPED"}

\* PAYMENT_RECOVERED looks past these; of the other two there are no cases.
NotRecoverable == {"RECOVERED", "CLOSED", "ABANDONED"}

\* A transaction that has inserted event e and has not ended.
Inserting(e) == \E n \in Runners : runner[n].event = e /\ runner[n].pc \in {"findActive", "commit"}

Qualifies(e) == Eligible(content[e], Config, IF e \in stale THEN 25 ELSE 0)

-----------------------------------------------------------------------------
(* The endpoints *)

\* RazorpayWebhookGuard and the check for the event id header: other requests
\* are refused and leave no trace.
Admitted(e) == content[e].signed

\* The provider delivers an event, again and again until it is answered 200,
\* and now and then once more.
Deliver(q, e) ==
    /\ request[q].pc = "idle"
    /\ Admitted(e)
    /\ request' = [request EXCEPT ![q] =
         [pc |-> IF e \in WebhookEvents THEN "register" ELSE "add", event |-> e]]
    /\ UNCHANGED <<content, stale, tables, job, runner, acked, lost, log, writes, faults>>

\* Mutant: the event is answered as soon as it is registered.
RegisterOnly(q) ==
    LET e == request[q].event IN
    /\ request[q].pc = "register"
    /\ registered' = registered \cup {e}
    /\ request' = [request EXCEPT ![q] = IdleRequest]
    /\ acked' = acked \cup {e}
    /\ UNCHANGED <<content, stale, stored, case, audit, job, runner, lost, log, writes, faults>>

\* The unique eventId tells a duplicate, which is answered 200 IGNORED.
Register(q) ==
    LET e == request[q].event IN
    /\ request[q].pc = "register"
    /\ IF e \in registered
         THEN /\ request' = [request EXCEPT ![q] = IdleRequest]
              /\ acked' = acked \cup {e}
              /\ UNCHANGED registered
         ELSE /\ registered' = registered \cup {e}
              /\ request' = [request EXCEPT ![q].pc = "add"]
              /\ UNCHANGED acked
    /\ UNCHANGED <<content, stale, stored, case, audit, job, runner, lost, log, writes, faults>>

\* queue.add with jobId = the event id: nothing happens if there is such a job,
\* finished or not.
AddJob(q) ==
    LET e == request[q].event IN
    /\ request[q].pc = "add"
    /\ job' = IF job[e].status = "none" THEN [job EXCEPT ![e].status = "waiting"] ELSE job
    /\ request' = [request EXCEPT ![q] = IdleRequest]
    /\ acked' = acked \cup {e}
    /\ UNCHANGED <<content, stale, tables, runner, lost, log, writes, faults>>

Serve(q) == Register(q) \/ AddJob(q)

-----------------------------------------------------------------------------
(* Queue workers *)

Take(n, e) ==
    /\ runner[n].pc = "idle"
    /\ job[e].status = "waiting"
    /\ job' = [job EXCEPT ![e].status = "active", ![e].holder = n]
    /\ runner' = [runner EXCEPT ![n] =
         [IdleRunner EXCEPT !.pc = IF e \in WebhookEvents THEN "find" ELSE "begin", !.event = e]]
    /\ UNCHANGED <<content, stale, tables, request, acked, lost, log, writes, faults>>

\* process() has ended; a runner that has lost the job is not heard.
Settle(n) ==
    LET e == runner[n].event IN
    /\ runner[n].pc \in {"return", "throw"}
    /\ job' = IF job[e].status = "active" /\ job[e].holder = n
                THEN [job EXCEPT ![e].holder = Nobody,
                        ![e].status = IF runner[n].pc = "return" THEN "completed" ELSE "failed"]
                ELSE job
    /\ runner' = [runner EXCEPT ![n] = IdleRunner]
    /\ UNCHANGED <<content, stale, tables, request, acked, lost, log, writes, faults>>

-----------------------------------------------------------------------------
(* RazorpayEventsProcessor.process *)

\* It reads the case named in the notes: none is ignored, and so is a capture
\* for a case that is closed to it.
FindCase(n) ==
    LET e == runner[n].event
        c == content[e].case
    IN
    /\ runner[n].pc = "find"
    /\ runner' = [runner EXCEPT ![n] =
         IF c \notin 1..Len(case) THEN [runner[n] EXCEPT !.pc = "return"]
         ELSE [runner[n] EXCEPT !.target = c, !.version = case[c].version, !.state = case[c].state,
                 !.pc = CASE content[e].type = "captured" ->
                               IF case[c].state \in ClosedToCaptures THEN "return" ELSE "capture"
                          [] content[e].type = "failed" -> "plan"
                          [] OTHER -> "return"]]
    /\ UNCHANGED <<content, stale, tables, job, request, acked, lost, log, writes, faults>>

\* Mutant: the update goes by id.
CaptureById(n) ==
    /\ runner[n].pc = "capture"
    /\ WriteCase(runner[n].target, "RECOVERED")
    /\ Goto(n, "audit")
    /\ UNCHANGED <<content, stale, registered, stored, audit, job, request, acked, lost, writes, faults>>

\* Mutant: an update that matches no row is not an error.
CaptureIgnoresConflict(n) ==
    LET c == runner[n].target IN
    /\ runner[n].pc = "capture"
    /\ IF case[c].version = runner[n].version
         THEN WriteCase(c, "RECOVERED") /\ Goto(n, "audit")
         ELSE UNCHANGED <<case, log>> /\ Goto(n, "return")
    /\ UNCHANGED <<content, stale, registered, stored, audit, job, request, acked, lost, writes, faults>>

\* UPDATE ... WHERE version = <the version read>; no row is a conflict.
Capture(n) ==
    LET c == runner[n].target IN
    /\ runner[n].pc = "capture"
    /\ IF case[c].version = runner[n].version
         THEN WriteCase(c, "RECOVERED") /\ Goto(n, "audit")
         ELSE UNCHANGED <<case, log>> /\ Rethrow(n)
    /\ UNCHANGED <<content, stale, registered, stored, audit, job, request, acked, lost, writes, faults>>

\* The audit row is written by a statement of its own.
AuditCapture(n) ==
    /\ runner[n].pc = "audit"
    /\ audit' = audit \cup {[action |-> "PAYMENT_CAPTURED_WEBHOOK", event |-> runner[n].event,
                             case |-> runner[n].target, version |-> runner[n].version,
                             previous |-> runner[n].state]}
    /\ Goto(n, "return")
    /\ UNCHANGED <<content, stale, registered, stored, case, job, request, acked, lost, log, writes, faults>>

\* payment.failed: createPlan (module CasePlanning) moves an open case, or
\* throws.
Plan(n) ==
    LET c == runner[n].target IN
    /\ runner[n].pc = "plan"
    /\ IF case[c].state \in {"DETECTED", "RETRYABLE"}
         THEN (\E next \in PlanOutcomes : WriteCase(c, next)) /\ Goto(n, "return")
         ELSE UNCHANGED <<case, log>> /\ Rethrow(n)
    /\ UNCHANGED <<content, stale, registered, stored, audit, job, request, acked, lost, writes, faults>>

-----------------------------------------------------------------------------
(* IngestionProcessor and ingestEventAndCreateCaseIfEligible *)

\* A stored event is a replay and writes nothing; an unknown merchant throws.
Begin(n) ==
    LET e == runner[n].event IN
    /\ runner[n].pc = "begin"
    /\ Goto(n, IF e \in stored THEN "return"
               ELSE IF content[e].merchant = "unknown" THEN "throw" ELSE "insert")
    /\ UNCHANGED <<content, stale, tables, job, request, acked, lost, log, writes, faults>>

\* Mutant: nothing makes the idempotency key unique.
InsertEventNoKey(n) ==
    LET e == runner[n].event IN
    /\ runner[n].pc = "insert"
    /\ Goto(n, IF content[e].type = "PAYMENT_RECOVERED" THEN "findActive" ELSE "commit")
    /\ UNCHANGED <<content, stale, tables, job, request, acked, lost, log, writes, faults>>

\* The insert waits for a transaction that has inserted the same key.  If that
\* one has committed, the conflict is answered as a duplicate.
InsertEvent(n) ==
    LET e == runner[n].event IN
    /\ runner[n].pc = "insert"
    /\ ~Inserting(e)
    /\ Goto(n, IF e \in stored THEN "return"
               ELSE IF content[e].type = "PAYMENT_RECOVERED" THEN "findActive" ELSE "commit")
    /\ UNCHANGED <<content, stale, tables, job, request, acked, lost, log, writes, faults>>

\* PAYMENT_RECOVERED: the customer's newest case that is not closed, if any, as
\* it is when it is read.
FindActive(n) ==
    LET active == {c \in 1..Len(case) : case[c].state \notin NotRecoverable} IN
    /\ runner[n].pc = "findActive"
    /\ IF active = {} THEN Goto(n, "commit")
       ELSE \E c \in active :
              /\ \A d \in active : d <= c
              /\ runner' = [runner EXCEPT ![n] =
                   [runner[n] EXCEPT !.target = c, !.version = case[c].version,
                                     !.state = case[c].state, !.pc = "commit"]]
    /\ UNCHANGED <<content, stale, tables, job, request, acked, lost, log, writes, faults>>

\* Mutant: the audit row takes its previous state from the updated row.
CommitAuditsUpdated(n) ==
    LET e == runner[n].event
        c == runner[n].target
    IN
    /\ runner[n].pc = "commit"
    /\ stored' = stored \cup {e}
    /\ IF c # 0
         THEN /\ WriteCase(c, "RECOVERED")
              /\ audit' = audit \cup {[action |-> "CASE_RECOVERED_BY_EVENT", event |-> e, case |-> c,
                                       version |-> case[c].version, previous |-> case'[c].state]}
         ELSE /\ UNCHANGED audit
              /\ IF content[e].type # "PAYMENT_RECOVERED" /\ Qualifies(e)
                   THEN CreateCase(e) ELSE UNCHANGED <<case, log>>
    /\ Goto(n, "return")
    /\ UNCHANGED <<content, stale, registered, job, request, acked, lost, writes, faults>>

\* The rest of the transaction: the case that was found is updated by id, without
\* a look at the version, and the audit row says what was found; or a case is
\* created if the event qualifies.
Commit(n) ==
    LET e == runner[n].event
        c == runner[n].target
    IN
    /\ runner[n].pc = "commit"
    /\ stored' = stored \cup {e}
    /\ IF c # 0
         THEN /\ WriteCase(c, "RECOVERED")
              /\ audit' = audit \cup {[action |-> "CASE_RECOVERED_BY_EVENT", event |-> e, case |-> c,
                                       version |-> case[c].version, previous |-> runner[n].state]}
         ELSE /\ UNCHANGED audit
              /\ IF content[e].type # "PAYMENT_RECOVERED" /\ Qualifies(e)
                   THEN CreateCase(e) ELSE UNCHANGED <<case, log>>
    /\ Goto(n, "return")
    /\ UNCHANGED <<content, stale, registered, job, request, acked, lost, writes, faults>>

Process(n) ==
    \/ FindCase(n) \/ Capture(n) \/ AuditCapture(n) \/ Plan(n)
    \/ Begin(n) \/ InsertEvent(n) \/ FindActive(n) \/ Commit(n)
    \/ Settle(n)

-----------------------------------------------------------------------------
(* The rest of the system, the clock, and faults *)

\* Planning, the execution worker or the scanner moves a case.
OtherWrite(c) ==
    /\ writes < MaxWrites
    /\ writes' = writes + 1
    /\ c \in 1..Len(case)
    /\ \E next \in OtherStates : WriteCase(c, next)
    /\ UNCHANGED <<content, stale, registered, stored, audit, job, request, runner, acked, lost, faults>>

\* 24 hours pass before an event is processed; afterwards nobody asks.
GrowsStale(e) ==
    /\ e \in IngestEvents \ (stale \cup stored)
    /\ stale' = stale \cup {e}
    /\ UNCHANGED <<content, tables, job, request, runner, acked, lost, log, writes, faults>>

Fault == faults < MaxFaults /\ faults' = faults + 1

\* An endpoint fails before its next write: the answer is no 200, if there is one.
RequestFails(q) ==
    /\ request[q].pc # "idle"
    /\ Fault
    /\ lost' = IF request[q].pc = "add" /\ request[q].event \in WebhookEvents
                 THEN lost \cup {request[q].event} ELSE lost
    /\ request' = [request EXCEPT ![q] = IdleRequest]
    /\ UNCHANGED <<content, stale, tables, job, runner, acked, log, writes>>

\* A statement fails, and with it a transaction.
CallFails(n) ==
    /\ runner[n].pc \notin {"idle", "return", "throw"}
    /\ Fault
    /\ Rethrow(n)
    /\ UNCHANGED <<content, stale, tables, job, request, acked, lost, log, writes>>

Crash(n) ==
    /\ runner[n].pc # "idle"
    /\ Fault
    /\ runner' = [runner EXCEPT ![n] = IdleRunner]
    /\ UNCHANGED <<content, stale, tables, job, request, acked, lost, log, writes>>

\* BullMQ's stalled check: again to the queue, but only MaxStalled times.
Stall(e) ==
    /\ job[e].status = "active"
    /\ job' = [job EXCEPT ![e] =
         IF job[e].stalled < MaxStalled
           THEN [status |-> "waiting", holder |-> Nobody, stalled |-> job[e].stalled + 1]
           ELSE [status |-> "failed", holder |-> Nobody, stalled |-> job[e].stalled]]
    /\ UNCHANGED <<content, stale, tables, request, runner, acked, lost, log, writes>>

Orphaned(e) == runner[job[e].holder].event # e

StallOrphan(e) == job[e].status = "active" /\ Orphaned(e) /\ Stall(e) /\ UNCHANGED faults
StallLive(e)   == job[e].status = "active" /\ ~Orphaned(e) /\ Stall(e) /\ Fault

-----------------------------------------------------------------------------
Next ==
    \/ \E q \in Requests : (\E e \in Events : Deliver(q, e)) \/ Serve(q) \/ RequestFails(q)
    \/ \E n \in Runners : (\E e \in Events : Take(n, e)) \/ Process(n) \/ CallFails(n) \/ Crash(n)
    \/ \E e \in Events : GrowsStale(e) \/ StallOrphan(e) \/ StallLive(e)
    \/ \E c \in 1..Len(case) : OtherWrite(c)

\* The provider delivers an event until it is acknowledged (a request slot may
\* be busy now and then: strong fairness); endpoints, workers and the stalled
\* check go on.
Fairness ==
    /\ \A e \in Events :
         /\ SF_vars(e \notin acked /\ \E q \in Requests : Deliver(q, e))
         /\ WF_vars(\E n \in Runners : Take(n, e))
         /\ WF_vars(StallOrphan(e))
    /\ \A q \in Requests : WF_vars(Serve(q))
    /\ \A n \in Runners : WF_vars(Process(n))

Spec     == Init /\ [][Next]_vars
FairSpec == Spec /\ Fairness

-----------------------------------------------------------------------------
(* Properties *)

\* An event answered 200, even as a duplicate, is in the queue or about to be,
\* except when an earlier request for it failed between registering the event
\* and queueing its job: that one gap is all that idempotency costs.
AcknowledgedReachesQueue ==
    \A e \in acked :
        \/ job[e].status # "none"
        \/ \E q \in Requests : request[q] = [pc |-> "add", event |-> e]
        \/ e \in lost

\* However often an event is delivered, and whichever two runs of its stalled
\* job overlap, it opens or recovers at most one case, once, and is stored then.
IngestedOnce ==
    /\ \A a, b \in audit : a.event = b.event /\ a.event \in IngestEvents => a = b
    /\ \A c, d \in 1..Len(case) :
         case[c].source = case[d].source /\ case[c].source # Nobody => c = d
    /\ \A a \in audit : a.event \in IngestEvents => a.event \in stored
    /\ \A c \in 1..Len(case) : case[c].source # Nobody => case[c].source \in stored

\* The audit row of a capture, written after the update and from what was read
\* before it, tells what really happened to the case: the update went through
\* only because nobody had written in between.
CaptureAuditIsTrue ==
    \A a \in audit : a.action = "PAYMENT_CAPTURED_WEBHOOK" =>
        /\ <<a.case, a.version, a.previous>> \in log
        /\ <<a.case, a.version + 1, "RECOVERED">> \in log

\* PAYMENT_RECOVERED updates by id, so its audit row need not name the state that
\* the update replaced.  It names an earlier or that state, one in which the case
\* was not closed: what others wrote after the case had been found, a capture's
\* RECOVERED included, is missing from the trail, and nothing else.
RecoveryAuditIsPast ==
    \A a \in audit : a.action = "CASE_RECOVERED_BY_EVENT" =>
        /\ <<a.case, a.version + 1, "RECOVERED">> \in log
        /\ a.previous \notin NotRecoverable
        /\ \E v \in 1..a.version : <<a.case, v, a.previous>> \in log

\* A capture's job completes only if its case has been closed by a payment or
\* otherwise at some time: a capture that lost a race is never reported as done.
CompletedCaptureIsApplied ==
    \A e \in WebhookEvents :
        /\ job[e].status = "completed"
        /\ content[e].type = "captured"
        /\ content[e].case \in 1..InitialCases
        => \E v \in 1..case[content[e].case].version, s \in ClosedToCaptures :
             <<content[e].case, v, s>> \in log

\* Every admitted event that is not lost between row and job is processed to
\* an end, whatever fails in between.
EventsSettle ==
    \A e \in Events : <>(\/ ~Admitted(e)
                         \/ e \in lost
                         \/ job[e].status \in {"completed", "failed"})

-----------------------------------------------------------------------------
(* What the repository says, and the code does not do *)

\* razorpay-events.processor.ts: throwing the error "ensures BullMQ marks the
\* job as failed and triggers localized retry", so a capture that lost the race
\* for its case gets another chance.
ConflictIsRetried ==
    \A e \in WebhookEvents :
        job[e].status # "none" /\ content[e].type = "captured" /\ content[e].case \in 1..InitialCases
          ~> \E v \in 1..case[content[e].case].version, s \in ClosedToCaptures :
               <<content[e].case, v, s>> \in log
=============================================================================
