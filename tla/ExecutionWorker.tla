--------------------------- MODULE ExecutionWorker ---------------------------
(***************************************************************************)
(* The execution half of the recovery pipeline: the BullMQ worker that     *)
(* runs an approved recovery plan, the repository transactions it makes,   *)
(* the stale-lock scanner, the reconciliation worker, and the payment      *)
(* events that reach the same case row from outside.                       *)
(*                                                                         *)
(* One job is queued per case (jobId = "<planId>-enqueue"), so the plan,   *)
(* its single intervention (key "<planId>-<type>-1") and its outcome row   *)
(* are all indexed by the case.  Every await of the code is a step         *)
(* boundary.  A transaction that reads a case row and later updates it     *)
(* "WHERE version = <the version read>" is two steps, the read and the     *)
(* commit, because the code treats a lost race differently in each place.  *)
(***************************************************************************)
EXTENDS Naturals, Sequences

CONSTANTS
    Cases,            \* revenue cases, each with one queued plan
    Workers,          \* concurrent executions of RecoveryPlanExecutionProcessor
    Scanners,         \* processes that run the stale-lock cron
    Nobody,           \* no worker / no case
    PolicyOutcomes,   \* what re-evaluating the policy may answer
    ProviderOutcomes, \* what a provider adapter may answer
    MaxAttempts,      \* QUEUE_ATTEMPTS: attempts of a job
    MaxStalled,       \* BullMQ maxStalledCount
    MaxFaults,        \* bound: crashes, stalls and failed calls in a behaviour
    MaxPayments,      \* bound: payment events that reach a case from outside
    TimelyWorkers     \* TRUE: no live execution outlasts the 5 minute threshold

ASSUME WorkerConstants ==
    /\ Nobody \notin Cases \cup Workers
    /\ PolicyOutcomes \subseteq {"approved", "stop", "transient"}
    /\ ProviderOutcomes \subseteq {"none", "partial", "full", "rejected", "timeout"}
    /\ MaxAttempts \in Nat \ {0}
    /\ MaxStalled \in Nat
    /\ MaxFaults \in Nat
    /\ MaxPayments \in Nat
    /\ TimelyWorkers \in BOOLEAN

VARIABLES
    \* Postgres
    case,         \* RevenueCase rows: state and version
    plan,         \* what the approved plan's intervention does; never changes
    intervention, \* Intervention rows: status and lockedBy/lockedAt
    outcome,      \* InterventionOutcome rows (interventionId is unique)
    \* Redis
    job,          \* jobs of queue recovery-plan-execution
    recon,        \* jobs of queue reconciliation
    \* processes
    worker,       \* one record per running process() call
    scanner,      \* one record per running escalateStaleLocks() call
    \* observation only
    calls,        \* per case, the lock period each provider call was made in
    releases,     \* per case, how often the scanner has cleared the lock
    faults,       \* faults so far
    payments      \* payment events so far

db    == <<case, plan, intervention, outcome>>
ghost == <<calls, releases>>
vars  == <<case, plan, intervention, outcome, job, recon, worker, scanner,
           calls, releases, faults, payments>>

-----------------------------------------------------------------------------
(* Values *)

CaseState ==
    {"QUEUED", "EXECUTING", "RECOVERED", "FAILED", "STOPPED", "ESCALATED",
     "AWAITING_CUSTOMER_ACTION", "AMBIGUOUS", "DETECTED"}

CaseRow == [state : CaseState, version : Nat]

\* CREATE_PAYMENT_LINK and the SEND_ actions; INITIATE_PAYMENT_RETRY;
\* CREATE_HUMAN_ESCALATION.
ActionType == {"message", "retry", "human"}

ResultStatus == {"SUCCEEDED", "FAILED", "AMBIGUOUS"}

\* "NONE" where there is no row yet.
Intervention == [status : ResultStatus \cup {"NONE", "PENDING"},
                 lock   : {"free", "held", "stale"}]

Job == [status : {"waiting", "active", "completed", "failed"},
        holder : Workers \cup {Nobody},
        attemptsMade : 0..MaxAttempts, stalled : 0..MaxStalled]

ReconJob == [case : Cases, call : Nat, attemptsMade : 0..2,
             step : {"waiting", "persist", "failed"}]

PC == {"idle", "read", "policy", "stop", "stopWrite", "find", "prepare",
       "prepareWrite", "claim", "call", "reconcile", "persist", "persistWrite",
       "catch", "escalate", "escalateWrite", "return", "throw"}

\* What is to be stored for a provider's answer.
Result == [status : ResultStatus, next : CaseState \ {"QUEUED", "EXECUTING"}]

Worker == [pc : PC, case : Cases \cup {Nobody}, attempt : 0..MaxAttempts,
           seen : CaseRow, result : Result, epoch : Nat]

Scanner == [todo : SUBSET Cases, case : Cases \cup {Nobody}, seen : CaseRow]

NoRow       == [state |-> "QUEUED", version |-> 0]
NoResult    == [status |-> "FAILED", next |-> "FAILED"]
IdleWorker  == [pc |-> "idle", case |-> Nobody, attempt |-> 0, seen |-> NoRow,
                result |-> NoResult, epoch |-> 0]
IdleScanner == [todo |-> {}, case |-> Nobody, seen |-> NoRow]

TypeOK ==
    /\ case \in [Cases -> CaseRow]
    /\ plan \in [Cases -> ActionType]
    /\ intervention \in [Cases -> Intervention]
    /\ outcome \in [Cases -> ResultStatus \cup {"NONE"}]
    /\ job \in [Cases -> Job]
    /\ recon \subseteq ReconJob
    /\ worker \in [Workers -> Worker]
    /\ \A w \in Workers : worker[w].pc # "idle" => worker[w].case \in Cases
    /\ scanner \in [Scanners -> Scanner]
    /\ calls \in [Cases -> Seq(Nat)]
    /\ releases \in [Cases -> Nat]
    /\ faults \in 0..MaxFaults
    /\ payments \in 0..MaxPayments

\* enqueuePlanWithOutbox has queued the case (its third version) and the relay
\* has added the job.
Init ==
    /\ case = [c \in Cases |-> [state |-> "QUEUED", version |-> 3]]
    /\ plan \in [Cases -> ActionType]
    /\ intervention = [c \in Cases |-> [status |-> "NONE", lock |-> "free"]]
    /\ outcome = [c \in Cases |-> "NONE"]
    /\ job = [c \in Cases |-> [status |-> "waiting", holder |-> Nobody,
                               attemptsMade |-> 0, stalled |-> 0]]
    /\ recon = {}
    /\ worker = [w \in Workers |-> IdleWorker]
    /\ scanner = [s \in Scanners |-> IdleScanner]
    /\ calls = [c \in Cases |-> <<>>]
    /\ releases = [c \in Cases |-> 0]
    /\ faults = 0
    /\ payments = 0

-----------------------------------------------------------------------------
(* Helpers *)

Goto(w, pc) == worker' = [worker EXCEPT ![w].pc = pc]

\* The same, forgetting what this call has read so far.
Leave(w, pc) == worker' = [worker EXCEPT ![w] = [IdleWorker EXCEPT
                    !.pc = pc, !.case = worker[w].case, !.attempt = worker[w].attempt]]

\* Mutant: UPDATE ... WHERE id.
UpdateWhereId(c, seen, next) ==
    case' = [case EXCEPT ![c] = [state |-> next, version |-> case[c].version + 1]]

\* UPDATE RevenueCase SET state, version = seen + 1 WHERE version = seen.
UpdateWhereVersion(c, seen, next) ==
    case' = IF case[c].version = seen.version
              THEN [case EXCEPT ![c] = [state |-> next, version |-> seen.version + 1]]
              ELSE case

\* The states the "mark case" transactions and the scanner leave alone.
Closed == {"ESCALATED", "STOPPED"}

\* A transaction that has updated the intervention row and not yet committed
\* holds its row lock: other updates of the row wait for it.
RowLocked(c) ==
    \/ \E w \in Workers : worker[w].pc = "persistWrite" /\ worker[w].case = c
    \/ \E s \in Scanners : scanner[s].case = c

\* A live process() call that took the lock of the present period.
Executing(c) ==
    \E w \in Workers : /\ worker[w].pc \in {"call", "reconcile", "persist", "persistWrite"}
                       /\ worker[w].case = c
                       /\ worker[w].epoch = releases[c]

\* The status recorded for a provider's answer.
StatusOf(answer) ==
    IF answer \in {"none", "partial", "full"} THEN "SUCCEEDED"
    ELSE IF answer = "timeout" THEN "AMBIGUOUS" ELSE "FAILED"

\* The case state a provider's answer leads to.
NextCaseState(action, answer) ==
    IF StatusOf(answer) = "SUCCEEDED"
      THEN CASE action = "message" -> "AWAITING_CUSTOMER_ACTION"
             [] action = "human"   -> "RECOVERED"
             [] action = "retry"   -> CASE answer = "full"    -> "RECOVERED"
                                        [] answer = "partial" -> "DETECTED"
                                        [] answer = "none"    -> "FAILED"
      ELSE StatusOf(answer)

-----------------------------------------------------------------------------
(* RecoveryPlanExecutionProcessor.process *)

\* BullMQ hands a waiting job to a free worker.
Take(w, c) ==
    /\ worker[w].pc = "idle"
    /\ job[c].status = "waiting"
    /\ job' = [job EXCEPT ![c].status = "active", ![c].holder = w]
    /\ worker' = [worker EXCEPT ![w] = [IdleWorker EXCEPT
                     !.pc = "read", !.case = c, !.attempt = job[c].attemptsMade]]
    /\ UNCHANGED <<db, recon, scanner, ghost, faults, payments>>

\* Mutant: wait for a runnable state instead of discarding the job.
ReadCaseWaits(w) ==
    LET c == worker[w].case IN
    /\ worker[w].pc = "read"
    /\ case[c].state \in {"QUEUED", "EXECUTING"}
    /\ Goto(w, "policy")
    /\ UNCHANGED <<db, job, recon, scanner, ghost, faults, payments>>

\* A and B: re-read the case and discard the job unless it is still to be run.
ReadCase(w) ==
    LET c == worker[w].case IN
    /\ worker[w].pc = "read"
    /\ Goto(w, IF case[c].state \in {"QUEUED", "EXECUTING"} THEN "policy" ELSE "return")
    /\ UNCHANGED <<db, job, recon, scanner, ghost, faults, payments>>

\* The policy is evaluated again for the plan's intervention.
ReevaluatePolicy(w) ==
    /\ worker[w].pc = "policy"
    /\ \E decision \in PolicyOutcomes :
         Goto(w, CASE decision = "approved"  -> "find"
                   [] decision = "stop"      -> "stop"
                   [] decision = "transient" -> "return")
    /\ UNCHANGED <<db, job, recon, scanner, ghost, faults, payments>>

\* The read of a "mark case" transaction: nothing more to do on a closed case.
MarkRead(w, from, write, done) ==
    LET c == worker[w].case IN
    /\ worker[w].pc = from
    /\ IF case[c].state \in Closed
         THEN Leave(w, done)
         ELSE worker' = [worker EXCEPT ![w].pc = write, ![w].seen = case[c]]
    /\ UNCHANGED <<db, job, recon, scanner, ghost, faults, payments>>

\* Its commit: a lost race is silently ignored.
MarkWrite(w, from, next, done) ==
    LET c == worker[w].case IN
    /\ worker[w].pc = from
    /\ UpdateWhereVersion(c, worker[w].seen, next)
    /\ Leave(w, done)
    /\ UNCHANGED <<plan, intervention, outcome, job, recon, scanner, ghost, faults, payments>>

\* markCaseForStopAfterWorkflowFailure
MarkForStop(w) ==
    \/ MarkRead(w, "stop", "stopWrite", "return")
    \/ MarkWrite(w, "stopWrite", "STOPPED", "return")

\* C and D: look the intervention up by its idempotency key.
FindIntervention(w) ==
    LET status == intervention[worker[w].case].status IN
    /\ worker[w].pc = "find"
    /\ Goto(w, CASE status = "NONE"                    -> "prepare"
                 [] status \in {"SUCCEEDED", "FAILED"} -> "return"
                 [] OTHER                              -> "claim")
    /\ UNCHANGED <<db, job, recon, scanner, ghost, faults, payments>>

\* prepareInterventionForExecution, its reads: a row created meanwhile is
\* returned whatever its status.
PrepareRead(w) ==
    LET c == worker[w].case IN
    /\ worker[w].pc = "prepare"
    /\ IF intervention[c].status = "NONE"
         THEN worker' = [worker EXCEPT ![w].pc = "prepareWrite", ![w].seen = case[c]]
         ELSE Goto(w, "claim")
    /\ UNCHANGED <<db, job, recon, scanner, ghost, faults, payments>>

\* Mutant: the case is moved to EXECUTING whatever state was read.
PrepareWriteAnyState(w) ==
    LET c == worker[w].case IN
    /\ worker[w].pc = "prepareWrite"
    /\ IF intervention[c].status # "NONE" \/ case[c].version # worker[w].seen.version
         THEN Leave(w, "catch") /\ UNCHANGED <<case, intervention>>
         ELSE /\ Leave(w, "claim")
              /\ intervention' = [intervention EXCEPT ![c].status = "PENDING"]
              /\ UpdateWhereVersion(c, worker[w].seen, "EXECUTING")
    /\ UNCHANGED <<plan, outcome, job, recon, scanner, ghost, faults, payments>>

\* Its writes: the insert fails on a duplicate key, and only a case that was
\* read as QUEUED is moved to EXECUTING, failing on a stale version.
PrepareWrite(w) ==
    LET c == worker[w].case
        queued == worker[w].seen.state = "QUEUED"
        conflict == \/ intervention[c].status # "NONE"
                    \/ queued /\ case[c].version # worker[w].seen.version
    IN
    /\ worker[w].pc = "prepareWrite"
    /\ IF conflict
         THEN Leave(w, "catch") /\ UNCHANGED <<case, intervention>>
         ELSE /\ Leave(w, "claim")
              /\ intervention' = [intervention EXCEPT ![c].status = "PENDING"]
              /\ IF queued THEN UpdateWhereVersion(c, worker[w].seen, "EXECUTING")
                           ELSE UNCHANGED case
    /\ UNCHANGED <<plan, outcome, job, recon, scanner, ghost, faults, payments>>

\* Mutant: the update does not require lockedBy to be null.
ClaimLockUnguarded(w) ==
    LET c == worker[w].case IN
    /\ worker[w].pc = "claim"
    /\ ~RowLocked(c)
    /\ intervention' = [intervention EXCEPT ![c].lock = "held"]
    /\ worker' = [worker EXCEPT ![w].pc = "call", ![w].epoch = releases[c]]
    /\ UNCHANGED <<case, plan, outcome, job, recon, scanner, ghost, faults, payments>>

\* E1: claimExecutionLock, UPDATE ... WHERE lockedBy IS NULL.
ClaimLock(w) ==
    LET c == worker[w].case IN
    /\ worker[w].pc = "claim"
    /\ ~RowLocked(c)
    /\ IF intervention[c].lock = "free"
         THEN /\ intervention' = [intervention EXCEPT ![c].lock = "held"]
              /\ worker' = [worker EXCEPT ![w].pc = "call", ![w].epoch = releases[c]]
         ELSE Goto(w, "return") /\ UNCHANGED intervention
    /\ UNCHANGED <<case, plan, outcome, job, recon, scanner, ghost, faults, payments>>

\* E2 to E5: the provider acts and answers.
CallProvider(w) ==
    LET c == worker[w].case IN
    /\ worker[w].pc = "call"
    /\ calls' = [calls EXCEPT ![c] = Append(@, worker[w].epoch)]
    /\ \E answer \in ProviderOutcomes :
         worker' = [worker EXCEPT
                      ![w].pc = IF StatusOf(answer) = "AMBIGUOUS" THEN "reconcile" ELSE "persist",
                      ![w].result = [status |-> StatusOf(answer),
                                     next   |-> NextCaseState(plan[c], answer)]]
    /\ UNCHANGED <<db, job, recon, scanner, releases, faults, payments>>

\* The reconciliation job is added before the ambiguous result is stored.
EnqueueReconciliation(w) ==
    LET c == worker[w].case IN
    /\ worker[w].pc = "reconcile"
    /\ recon' = recon \cup {[case |-> c, call |-> Len(calls[c]),
                             attemptsMade |-> 0, step |-> "waiting"]}
    /\ Goto(w, "persist")
    /\ UNCHANGED <<db, job, scanner, ghost, faults, payments>>

\* Mutant: the outcome is upserted.
PersistReadUpsert(w) ==
    LET c == worker[w].case IN
    /\ worker[w].pc = "persist"
    /\ ~RowLocked(c)
    /\ worker' = [worker EXCEPT ![w].pc = "persistWrite", ![w].seen = case[c]]
    /\ UNCHANGED <<db, job, recon, scanner, ghost, faults, payments>>

\* E6: persistExecutionResult up to its read of the case.  A second outcome
\* row for the intervention violates its unique key.
PersistRead(w) ==
    LET c == worker[w].case IN
    /\ worker[w].pc = "persist"
    /\ ~RowLocked(c)
    /\ IF outcome[c] = "NONE"
         THEN worker' = [worker EXCEPT ![w].pc = "persistWrite", ![w].seen = case[c]]
         ELSE Leave(w, "catch")
    /\ UNCHANGED <<db, job, recon, scanner, ghost, faults, payments>>

\* Mutant: an ambiguous result moves the case without an outcome row.
PersistWriteNoOutcome(w) ==
    LET c == worker[w].case
        result == worker[w].result
    IN
    /\ worker[w].pc = "persistWrite"
    /\ outcome' = IF result.status = "AMBIGUOUS" THEN outcome
                    ELSE [outcome EXCEPT ![c] = result.status]
    /\ intervention' = [intervention EXCEPT ![c].status = result.status]
    /\ UpdateWhereVersion(c, worker[w].seen, result.next)
    /\ Leave(w, "return")
    /\ UNCHANGED <<plan, job, recon, scanner, ghost, faults, payments>>

\* Its commit: the result is stored in any case, the lock is not touched, and
\* nobody looks at how many case rows the update matched.
PersistWrite(w) ==
    LET c == worker[w].case
        result == worker[w].result
    IN
    /\ worker[w].pc = "persistWrite"
    /\ outcome' = [outcome EXCEPT ![c] = result.status]
    /\ intervention' = [intervention EXCEPT ![c].status = result.status]
    /\ IF worker[w].seen.state # result.next
         THEN UpdateWhereVersion(c, worker[w].seen, result.next)
         ELSE UNCHANGED case
    /\ Leave(w, "return")
    /\ UNCHANGED <<plan, job, recon, scanner, ghost, faults, payments>>

\* F: the last attempt escalates the case before the error is rethrown.
Catch(w) ==
    /\ worker[w].pc = "catch"
    /\ Goto(w, IF worker[w].attempt >= MaxAttempts - 1 THEN "escalate" ELSE "throw")
    /\ UNCHANGED <<db, job, recon, scanner, ghost, faults, payments>>

\* markCaseForEscalationAfterWorkflowFailure
MarkForEscalation(w) ==
    \/ MarkRead(w, "escalate", "escalateWrite", "throw")
    \/ MarkWrite(w, "escalateWrite", "ESCALATED", "throw")

\* process() has ended and the worker reports it to Redis, which ignores the
\* report of a worker that has lost the job.
Settle(w) ==
    LET c == worker[w].case
        tried == job[c].attemptsMade + 1
    IN
    /\ worker[w].pc \in {"return", "throw"}
    /\ IF job[c].status # "active" \/ job[c].holder # w
         THEN UNCHANGED job
         ELSE job' = [job EXCEPT ![c] = IF worker[w].pc = "return"
                THEN [job[c] EXCEPT !.status = "completed", !.holder = Nobody]
                ELSE [job[c] EXCEPT !.status = IF tried < MaxAttempts THEN "waiting" ELSE "failed",
                                    !.holder = Nobody, !.attemptsMade = tried]]
    /\ worker' = [worker EXCEPT ![w] = IdleWorker]
    /\ UNCHANGED <<db, recon, scanner, ghost, faults, payments>>

Process(w) ==
    \/ ReadCase(w) \/ ReevaluatePolicy(w) \/ MarkForStop(w)
    \/ FindIntervention(w) \/ PrepareRead(w) \/ PrepareWrite(w)
    \/ ClaimLock(w) \/ CallProvider(w) \/ EnqueueReconciliation(w)
    \/ PersistRead(w) \/ PersistWrite(w)
    \/ Catch(w) \/ MarkForEscalation(w) \/ Settle(w)

-----------------------------------------------------------------------------
(* Faults *)

Fault == faults < MaxFaults /\ faults' = faults + 1

\* The process dies; BullMQ still believes it holds the job.
Crash(w) ==
    /\ worker[w].pc # "idle"
    /\ Fault
    /\ worker' = [worker EXCEPT ![w] = IdleWorker]
    /\ UNCHANGED <<db, job, recon, scanner, ghost, payments>>

\* A database, Redis or provider call of process() fails.  claimExecutionLock
\* swallows its error, and an error inside the catch block ends it.
CallFails(w) ==
    /\ worker[w].pc \notin {"idle", "catch", "return", "throw"}
    /\ Fault
    /\ Leave(w, CASE worker[w].pc = "claim"                       -> "return"
                 [] worker[w].pc \in {"escalate", "escalateWrite"} -> "throw"
                 [] OTHER                                         -> "catch")
    /\ UNCHANGED <<db, job, recon, scanner, ghost, payments>>

\* BullMQ's stalled check takes a job from a worker that stopped renewing it.
Stall(c) ==
    /\ job[c].status = "active"
    /\ job' = [job EXCEPT ![c] = IF job[c].stalled < MaxStalled
                 THEN [job[c] EXCEPT !.status = "waiting", !.holder = Nobody,
                                     !.stalled = job[c].stalled + 1]
                 ELSE [job[c] EXCEPT !.status = "failed", !.holder = Nobody]]
    /\ UNCHANGED <<db, recon, worker, scanner, ghost, payments>>

\* Its holder is gone, ...
Orphaned(c) == worker[job[c].holder].case # c

StallOrphan(c) ==
    /\ job[c].status = "active" /\ Orphaned(c)
    /\ Stall(c)
    /\ UNCHANGED faults

\* ... or alive and too late, in which case both go on.
StallLive(c) ==
    /\ job[c].status = "active" /\ ~Orphaned(c)
    /\ Fault
    /\ Stall(c)

-----------------------------------------------------------------------------
(* StaleLockScannerProcessor.handleCron and escalateStaleLocks *)

\* Five minutes pass since the lock was taken.  Only the scanner clears a
\* lock, so the lock of a finished execution ages like any other.
LockAges(c) ==
    /\ intervention[c].lock = "held"
    /\ TimelyWorkers => ~Executing(c)
    /\ intervention' = [intervention EXCEPT ![c].lock = "stale"]
    /\ UNCHANGED <<case, plan, outcome, job, recon, worker, scanner, ghost, faults, payments>>

StaleInterventions == {c \in Cases : intervention[c].lock = "stale"}

\* findMany: old locks, whatever the intervention's status.
ScanFind(s) ==
    /\ scanner[s] = IdleScanner
    /\ StaleInterventions # {}
    /\ scanner' = [scanner EXCEPT ![s].todo = StaleInterventions]
    /\ UNCHANGED <<db, job, recon, worker, ghost, faults, payments>>

\* The transaction of one of them, up to its read of the case.
ScanRead(s) ==
    /\ scanner[s].case = Nobody
    /\ \E c \in scanner[s].todo :
         /\ ~RowLocked(c)
         /\ scanner' = [scanner EXCEPT ![s].case = c, ![s].seen = case[c]]
    /\ UNCHANGED <<db, job, recon, worker, ghost, faults, payments>>

\* Mutant: stale locks are only released, the case is not escalated.
ScanWriteReleaseOnly(s) ==
    LET c == scanner[s].case IN
    /\ c \in Cases
    /\ intervention' = [intervention EXCEPT ![c].lock = "free"]
    /\ releases' = [releases EXCEPT ![c] = @ + 1]
    /\ scanner' = [scanner EXCEPT ![s] = [IdleScanner EXCEPT !.todo = scanner[s].todo \ {c}]]
    /\ UNCHANGED <<case, plan, outcome, job, recon, worker, calls, faults, payments>>

\* Its commit: the lock is cleared and the intervention failed even if the
\* lock is a new one by now, and the case escalated unless the race is lost.
ScanWrite(s) ==
    LET c == scanner[s].case IN
    /\ c \in Cases
    /\ intervention' = [intervention EXCEPT ![c] = [status |-> "FAILED", lock |-> "free"]]
    /\ releases' = [releases EXCEPT ![c] = @ + 1]
    /\ IF scanner[s].seen.state \notin Closed
         THEN UpdateWhereVersion(c, scanner[s].seen, "ESCALATED")
         ELSE UNCHANGED case
    /\ scanner' = [scanner EXCEPT ![s] = [IdleScanner EXCEPT !.todo = scanner[s].todo \ {c}]]
    /\ UNCHANGED <<plan, outcome, job, recon, worker, calls, faults, payments>>

\* A failed query or a restart abandons the rest of the pass.
ScanFails(s) ==
    /\ scanner[s] # IdleScanner
    /\ Fault
    /\ scanner' = [scanner EXCEPT ![s] = IdleScanner]
    /\ UNCHANGED <<db, job, recon, worker, ghost, payments>>

Scan(s) == ScanFind(s) \/ ScanRead(s) \/ ScanWrite(s)

-----------------------------------------------------------------------------
(* ReconciliationProcessor.process *)

\* Replace reconciliation job j by the jobs in new.
ReconBecomes(j, new) == recon' = (recon \ {j}) \cup new

\* Discard the job unless the case is still ambiguous.
ReconRead(j) ==
    /\ j.step = "waiting"
    /\ ReconBecomes(j, IF case[j.case].state = "AMBIGUOUS"
                         THEN {[j EXCEPT !.step = "persist"]} ELSE {})
    /\ UNCHANGED <<db, job, worker, scanner, ghost, faults, payments>>

\* Mutant: one attempt too many.
ReconPersistOffByOne(j) ==
    LET c == j.case IN
    /\ j.step = "persist"
    /\ ReconBecomes(j, {IF j.attemptsMade < 3
                          THEN [j EXCEPT !.step = "waiting", !.attemptsMade = @ + 1]
                          ELSE [j EXCEPT !.step = "failed"]})
    /\ UNCHANGED <<db, job, worker, scanner, ghost, faults, payments>>

\* persistExecutionResult(FAILED): a stored outcome makes it throw, and after
\* three attempts the job stays failed.
ReconPersist(j) ==
    LET c == j.case IN
    /\ j.step = "persist"
    /\ ~RowLocked(c)
    /\ IF outcome[c] = "NONE"
         THEN /\ outcome' = [outcome EXCEPT ![c] = "FAILED"]
              /\ intervention' = [intervention EXCEPT ![c].status = "FAILED"]
              /\ IF case[c].state # "FAILED"
                   THEN UpdateWhereVersion(c, case[c], "FAILED")
                   ELSE UNCHANGED case
              /\ ReconBecomes(j, {})
         ELSE /\ ReconBecomes(j, {IF j.attemptsMade < 2
                                    THEN [j EXCEPT !.step = "waiting", !.attemptsMade = @ + 1]
                                    ELSE [j EXCEPT !.step = "failed"]})
              /\ UNCHANGED <<case, intervention, outcome>>
    /\ UNCHANGED <<plan, job, worker, scanner, ghost, faults, payments>>

Reconcile == \E j \in recon : ReconRead(j) \/ ReconPersist(j)

-----------------------------------------------------------------------------
(* Payments that arrive while the workflow runs *)

Recover(c) ==
    /\ payments < MaxPayments
    /\ payments' = payments + 1
    /\ UpdateWhereVersion(c, case[c], "RECOVERED")
    /\ UNCHANGED <<plan, intervention, outcome, job, recon, worker, scanner, ghost, faults>>

\* RazorpayEventsProcessor on payment.captured / order.paid.
PaymentCaptured(c) ==
    /\ case[c].state \notin {"RECOVERED", "FAILED", "STOPPED"}
    /\ Recover(c)

\* Ingestion of a PAYMENT_RECOVERED event: any case not yet recovered.
PaymentRecovered(c) ==
    /\ case[c].state # "RECOVERED"
    /\ Recover(c)

-----------------------------------------------------------------------------
Next ==
    \/ \E w \in Workers, c \in Cases : Take(w, c)
    \/ \E w \in Workers : Process(w) \/ Crash(w) \/ CallFails(w)
    \/ \E c \in Cases : StallOrphan(c) \/ StallLive(c) \/ LockAges(c)
    \/ \E s \in Scanners : Scan(s) \/ ScanFails(s)
    \/ Reconcile
    \/ \E c \in Cases : PaymentCaptured(c) \/ PaymentRecovered(c)

\* Worker processes, BullMQ's delivery and stalled check, the clock and the
\* cron keep running; payments and faults may or may not come.
Fairness ==
    /\ \A w \in Workers : WF_vars(Process(w))
    /\ \A c \in Cases : /\ WF_vars(\E w \in Workers : Take(w, c))
                        /\ WF_vars(StallOrphan(c))
                        /\ WF_vars(LockAges(c))
    /\ \A s \in Scanners : WF_vars(Scan(s))
    /\ WF_vars(Reconcile)

Spec     == Init /\ [][Next]_vars
FairSpec == Spec /\ Fairness

-----------------------------------------------------------------------------
(* Properties *)

\* Two provider calls for one intervention never happen in the same lock
\* period: whatever crashes, stalls and redeliveries there are, only a lock the
\* scanner has cleared in between lets a second call through.
CallsSeparatedByRelease ==
    \A c \in Cases : \A i, j \in 1..Len(calls[c]) :
        /\ calls[c][i] <= releases[c]
        /\ i # j => calls[c][i] # calls[c][j]

\* While a case is EXECUTING after its provider was called, the intervention's
\* lock is still set, so the scanner can find the case: nobody forgets an
\* execution that died half way.
UnfinishedCallIsLocked ==
    \A c \in Cases : case[c].state = "EXECUTING" /\ calls[c] # <<>>
                        => intervention[c].lock # "free"

\* The states only a stored result leads to are backed by the outcome row the
\* same transaction wrote, also when the write was late, repeated or raced.
CaseBackedByOutcome ==
    \A c \in Cases :
        /\ case[c].state \in {"AWAITING_CUSTOMER_ACTION", "DETECTED"} => outcome[c] = "SUCCEEDED"
        /\ case[c].state = "AMBIGUOUS" => outcome[c] = "AMBIGUOUS"
        /\ case[c].state = "FAILED" => outcome[c] # "NONE"

\* A case row changes only together with its version, by one, and EXECUTING is
\* entered from QUEUED only, once: a case that left the workflow never
\* re-enters it through this worker.
VersionedWrites ==
    \A c \in Cases : case'[c] # case[c] =>
        /\ case'[c].version = case[c].version + 1
        /\ case'[c].state # "QUEUED"
        /\ case'[c].state = "EXECUTING" => case[c].state = "QUEUED"

CaseWritesAreVersioned == [][VersionedWrites]_vars

\* What has been achieved is never overwritten blindly.  A stored success is only
\* failed by the scanner, which clears a lock that persistExecutionResult has left
\* behind; and a payment that set the case to RECOVERED is only overwritten by a
\* transaction that has read the case as RECOVERED, never by one that read it
\* before the payment came.
GivesWayKnowingly(c) ==
    /\ intervention[c].status = "SUCCEEDED" /\ intervention'[c].status # "SUCCEEDED" =>
         releases'[c] > releases[c]
    /\ case[c].state = "RECOVERED" /\ case'[c] # case[c] =>
         \/ \E w \in Workers : worker[w].case = c /\ worker[w].seen = case[c]
         \/ \E s \in Scanners : scanner[s].case = c /\ scanner[s].seen = case[c]

NoBlindOverwrite == [][\A c \in Cases : GivesWayKnowingly(c)]_vars

\* The execution implements LeasedExecution: the provider is called only by who has
\* taken a free lock, once for each time it was taken, and a result is stored only
\* after a call and never replaced, although worker and reconciliation both store
\* results and the scanner frees locks under live workers.
Lease == INSTANCE LeasedExecution WITH
    lease  <- [c \in Cases |-> IF intervention[c].lock = "free" THEN "free" ELSE "taken"],
    permit <- [w \in Workers |-> IF worker[w].pc = "call" THEN worker[w].case ELSE Nobody],
    calls  <- [c \in Cases |-> Len(calls[c])],
    result <- outcome

LeaseImplemented == Lease!Spec

\* Every job ends, and every claimed execution leaves the workflow states: its
\* worker stores a result or the scanner escalates the case.
JobSettles == \A c \in Cases : <>[](job[c].status \in {"completed", "failed"})

ClaimedExecutionSettles ==
    \A c \in Cases : intervention[c].lock # "free"
                        ~> case[c].state \notin {"QUEUED", "EXECUTING"}

-----------------------------------------------------------------------------
(* What the repository's documents and tests say, and the code does not do *)

\* docs/failures/FAILURES.md: "The external payment gateway or messaging
\* endpoint is never hit twice for the same logical intervention attempt."
AtMostOnceExecution == \A c \in Cases : Len(calls[c]) <= 1
=============================================================================
