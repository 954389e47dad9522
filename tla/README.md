# Formal models of the payment-recovery pipeline

The repository recovers failed payments: webhooks become revenue cases, a planning service proposes an
intervention for each open case and has the merchant's policy approve it, a transactional outbox hands
approved plans to a BullMQ queue, and a worker executes them against payment, messaging and escalation
providers. A stale-lock scanner and a reconciliation worker clean up behind it.

Everything interesting happens between processes that share a Postgres database and a Redis: several API
processes run the cron, the webhooks and the outbox relay; several workers run jobs; every `await` is a
point at which somebody else may act, and every process may die there. The first group of modules models
that, the second what the decisions made in between amount to, the third the offline benchmark of both.

## 1. Inventory

Paths are relative to the repository's root. `P/` stands for `libs/persistence/src/repositories/prisma/`.

| Component | State it keeps | Operations | Hard behaviours | What makes it correct |
|---|---|---|---|---|
| **Execution worker** `apps/worker/src/processors/recovery-plan-execution.processor.ts`, `P/execution.ts` | `RevenueCase` (state, version), `Intervention` (status, lock), `InterventionOutcome`, its BullMQ job | `process()`: read case, re-evaluate the policy, prepare, claim the lock, call the provider, enqueue reconciliation, persist, escalate on the last attempt | a job redelivered to a second worker while the first is alive; a crash between the provider call and its record; a payment arriving meanwhile; a retry of an attempt half done | calls to a provider never happen twice in one lock period; a half-finished execution stays findable; case state and outcome row agree; every case write is versioned; every job ends |
| **Stale-lock scanner** `apps/worker/src/processors/stale-lock-scanner.processor.ts`, `P/execution.ts` | none of its own; clears locks, fails interventions, escalates cases | `escalateStaleLocks` every minute | finds by age in one query, clears by id in later transactions | every claimed execution leaves the workflow |
| **Reconciliation worker** `apps/worker/src/processors/reconciliation.processor.ts` | its BullMQ job, the outcome row | check the provider, persist the result | starts before the ambiguous result is stored; writes under the same unique key | an ambiguous case is resolved |
| **Outbox relay** `apps/api/src/modules/outbox-publisher/outbox-publisher.service.ts`, `P/outbox.ts` | `OutboxEvent` rows (status, attempts, lock, availableAt), `isProcessing`, a `LISTEN` connection | `poll()`: claim a batch, add a job, mark; reschedule or give up | two relays, an expired lock, a crash in a batch, a dropped notification, a failed mark after a successful add | at-least-once delivery; exclusive claims; published is final; nothing waits for ever |
| **Planning service** `apps/api/src/modules/planning/`, `P/planning.ts`, `libs/domain/src/planning.ts` | `RecoveryPlan` rows, `RevenueCase`, `OutboxEvent` | `createPlan`, `enqueuePlan` | a proposal made from a case read earlier; two planners of one case; replay of an existing plan; a policy update in between | only approved plans are enqueued, once; a case is queued from `POLICY_CHECKED` only; no insert collides |
| **Case orchestrator** `apps/api/src/modules/cases/case-orchestrator.service.ts` | `isProcessing` | a cron pass over the 20 oldest open cases | races webhooks and operators; dies between the two calls it makes per case | every detected case is planned |
| **Razorpay webhook controller** `apps/api/src/modules/events/razorpay.controller.ts`, its guard | `EventIdempotency` rows, jobs of the queue `razorpay-events` | verify the signature, record the event id, add a job | the row is written before the job is added; a redelivery meets the first request half way | an acknowledged event reaches the queue |
| **Razorpay event processor** `apps/api/src/modules/events/razorpay-events.processor.ts` | `RevenueCase`, audit rows | payment captured, payment failed | reaches the case from outside while planning or execution runs; its job has one attempt; the audit row is a statement of its own | a payment that is reported as done has closed its case; the audit is true |
| **Event ingestion** `apps/api/src/modules/events/`, `P/ingestion.ts` | `RevenueEvent`, `RevenueCase`, customers | deduplicate, qualify, create or recover a case | two runs of one stalled job; a case updated by id | every event takes effect once |
| **Qualification** `libs/domain/src/qualification.ts` | none | which events become cases, with reasons | an event grows old in the queue | |
| **Merchant policies** `apps/api/src/modules/policies/` | `configJson` of the merchant | replace the configuration | changes under a running planning or a queued job | a plan is made under the version asked for |
| **Policy engine, diagnosis, candidate selection, dunning workflow, propensity** `libs/domain/src/` | none | decisions from case, event, policy, scores and time | evaluated twice, at planning and at execution, under different policies at different hours; order of the rules, quiet hours, limits; consents that travel in another field than they are stored in | nothing is executed against a rule; scores do not decide |
| **Provider adapters** `apps/worker/src/providers/` | a circuit breaker per process | one call each | HTTP retries inside a breaker that gives up earlier; a response lost after the provider has acted | a call makes one link at most; success means a link; a call returns |
| **Evaluation harness** `libs/evaluation/`, `scripts/generate_evaluation_dataset.ts` | counters | data set, two baselines and the system under test, metrics | counters booked on different exits of one loop; the clock; an online scoring service | every case is booked once; results do not depend on the scores |
| LLM client and message safety, dashboards, ML pipeline, frontend | none of the above | | | not modelled, see section 7 |

How they interact: the endpoints queue events; ingestion and the event processor write case rows and call
planning, which calls the workflow and the policy engine; the orchestrator and operators call planning; planning writes an outbox row and a `NOTIFY` in one transaction; the relay
turns rows into jobs with a fixed `jobId`; the worker re-reads everything, because what it was queued for
may be over, evaluates the policy again and calls an adapter. All of them synchronise through row versions (`UPDATE ... WHERE version = <read>`), unique
keys, and one lock column.

## 2. Modules

| Module | What it is |
|---|---|
| `ExecutionWorker` | worker, scanner, reconciliation, BullMQ delivery and the payments that reach the same case |
| `ExecutionWorkerProofs`, `ExecutionOutcomeProofs` | theorems about it |
| `LeasedExecution` | abstract: what the lock and the unique outcome promise; `ExecutionWorker` implements it |
| `AtLeastOnce` | abstract: what an outbox promises |
| `OutboxRelay` | the relay; implements `AtLeastOnce` |
| `OutboxRelayProofs` | theorems about it, the refinement included |
| `CasePlanning` | planning, the orchestrator's cron, webhooks and operators that plan |
| `AtomicPlanning` | abstract: what the two transactions of planning promise; `CasePlanning` implements it |
| `CasePlanningProofs` | theorems about `CasePlanning` |
| `Qualification` | operators: which events become cases, and why not |
| `WebhookIngestion` | endpoints, event queues and both processors behind them; extends `Qualification` |
| `WebhookIngestionProofs` | theorems about it |
| `RecoveryDecision` | operators: diagnosis, scores, candidates, recommendation, policy evaluation, outcome |
| `ProviderAdapters` | operators: which adapter is chosen, what it may answer, what the worker makes of it |
| `DecisionPipeline` | one case from its event to the end of its execution; extends the two before |
| `DecisionPipelineProofs` | theorems about it |
| `RazorpayClient` | `RazorpayAdapter`: axios-retry inside a circuit breaker; extends `ProviderAdapters` |
| `RazorpayClientProofs` | theorems about it |
| `EvaluationHarness` | the benchmark; extends `Qualification` and `RecoveryDecision` |
| `EvaluationHarnessProofs` | theorems about it |
| `MC...` | instances for TLC |

In the modules about processes each has a record with a `pc`, the place of the `await` it is at, and what it has
read so far; the database is a function from ids to rows. A step is the code from one `await` to the next.
Definitions that start with a comment "Mutant:" are plausible wrong versions of the definition after
them and no part of the specification; every property is violated by one of them.

### ExecutionWorker

| State | In the code |
|---|---|
| `case` | `RevenueCase.state`, `.version` |
| `plan` | the action type of the plan's one intervention: a message or link, a payment retry, a human task |
| `intervention` | `Intervention.status`; `lock` stands for `lockedBy`/`lockedAt`: free, held, or held for over five minutes |
| `outcome` | the `InterventionOutcome` row, at most one per intervention |
| `job`, `recon` | BullMQ jobs of the queues `recovery-plan-execution` and `reconciliation`, with attempts and stalled counts |
| `worker`, `scanner` | running calls of `process()` and of `escalateStaleLocks()` |
| `calls`, `releases` | observation only: in which lock period each provider call was made, and how many there were |

`Take` and `Settle` are BullMQ's delivery and completion. The steps of `process()` are `ReadCase`,
`ReevaluatePolicy`, `MarkForStop`, `FindIntervention`, `PrepareRead`/`PrepareWrite`, `ClaimLock`,
`CallProvider`, `EnqueueReconciliation`, `PersistRead`/`PersistWrite`, `Catch` and `MarkForEscalation`.
A transaction that reads a case row and then updates it by version is two steps, because the code treats a
lost race differently each time: `prepareIntervention` throws, `persistExecutionResult` and the "mark
case" transactions ignore it. A transaction that has updated the intervention row holds its row lock, so
`RowLocked` blocks the other writers of that row until it commits. `ScanFind`, `ScanRead` and `ScanWrite`
are the scanner's unlocked search and its transactions; `ReconRead` and `ReconPersist` the reconciliation.

Faults: `Crash` of a worker anywhere, `CallFails` at any call of `process()`, `StallLive` (BullMQ gives a
live worker's job to another one, which is what happens after an event-loop block or a network
partition), `ScanFails`. `StallOrphan`, the same for a dead worker, is not a fault but BullMQ's recovery.

`LeasedExecution` knows neither jobs nor attempts nor case states: taking the free lease of a case gives a permit for one call,
the lease is ended from outside only, and a result is stored once, after a call. `LeaseImplemented` maps the
lease to the lock, a permit to a worker at the provider's call, and the result to the outcome row. A permit
outlives its lease, as it does in the code: a slow worker calls after the scanner has freed its lock.

### OutboxRelay and AtLeastOnce

`event` holds the `OutboxEvent` rows (`lock` is held until the 30 seconds in `lockedAt` are over, then
expired; `available` compares `availableAt` with the clock), `created` their order, `queue` which job ids
exist in Redis, `relay` where `poll()` of each API process is and which batch it holds, `notice` whether a
notification is under way to it. `Claim` is `claimPendingOutboxEvents`, one statement with `FOR UPDATE
SKIP LOCKED`; `Add` is `queue.add`, which BullMQ ignores while a job with that id exists; `Mark` is
`markOutboxPublished`; `Fix` is the catch block. `WakeBusy` drops a notification that finds
`isProcessing` set, as the code does.

`AtLeastOnce` knows neither relays nor locks nor notifications: an event is recorded, delivered any number
of times, and marked as published only after a delivery. `DeliveryImplemented` maps `delivered` to the
events whose job has really been added. `timely` is chosen at the start: with it, no lock expires under a
relay that still holds the event. The properties that need it say so; delivery does not need it.

### CasePlanning

`planner` has a record for each cron (one per API process) and each concurrent request (a webhook job or an
operator). `Load`, `LoadPolicy` and `Propose` are `createPlan` before its transaction; `Read`, `Check` and
`Write` are the transaction `createPlanWithPlanningOutcome`; `Enqueue`, `EnqueueRead`, `EnqueueCheck` and
`EnqueueWrite` are `enqueuePlan`. A plan is identified by its idempotency key `case_policyVersion_type_1`,
whose last part is always 1 since nothing increments `attemptCount`. `Propose` chooses an intervention
type and a decision freely, in place of the dunning workflow and the policy rules. `Execute` stands for
the outbox, the queue and the worker in one step: a queued case becomes anything `ExecutionWorker` may
leave it in, `DETECTED` after a partial recovery included. `PaymentCaptured` and `UpdatePolicy` come from outside.

`AtomicPlanning` knows no versions, callers, policies or reads: a plan is stored once, in one step with the state its case
moves to; an approved plan is enqueued once, in one step with `QUEUED`, while its case is `POLICY_CHECKED`. `PlanningImplemented`
forgets the versions and maps the rest to itself. `AtomicPlanning!Plan` asks for no state of the case, since
`createPlanWithPlanningOutcome` does not: a proposal may still be stored for a case that was paid after it was loaded.

### WebhookIngestion

`request` has a record for each running call of an endpoint, `runner` for each running job of the two queues,
`content` says what each event id stands for. `Register` is the insert into `EventIdempotency`, `AddJob` is
`queue.add`, `Take` and `Settle` BullMQ. `FindCase`, `Capture`, `AuditCapture` and `Plan` are the steps of
`RazorpayEventsProcessor.process`; `Begin`, `InsertEvent`, `FindActive` and `Commit` the ingestion
transaction, whose reads see what others have committed meanwhile and whose writes appear with `Commit`. `FindActive`
keeps the version and the state of the row it found; `Commit` writes the case whatever its version has become and the audit
row with the state that was found. The
unique key makes a second `InsertEvent` of the same event wait for the end of the first. `OtherWrite` is what
planning, the worker and the scanner do to a case; `GrowsStale` lets an event pass the 24 hours of
qualification before it is processed. `acked`, `lost` and `log` are observation only.

Faults: `RequestFails` (an endpoint dies or its database or Redis does), `CallFails` (a statement of a processor
fails), `Crash`, and `StallLive`. `StallOrphan` is BullMQ's recovery of a dead runner's job.

### RecoveryDecision, ProviderAdapters and DecisionPipeline

`RecoveryDecision` has one operator for each node of the dunning workflow: `Diagnose`, `ScorePropensity`,
`SelectCandidates`, `Recommend` with `Override`, `EvaluateRecoveryPolicy`; `Propose` puts them together. `PrefersLink` and
`PropensityPrefersLink` are the two rules of `recommendIntervention` for a payment link, the second of which reads the scores. A
verdict is the record the code returns, its reason codes a set. Confidences and scores are percentages, times
minutes of a UTC day, amounts minor units, so that the thresholds are those of the code.

`DecisionPipeline` follows one case: `CreatePlan`, `EnqueuePlan`, `Reevaluate` (the worker's second
evaluation, which is given neither consents nor contact limits) and `Execute`. `TimePasses` and `UpdatePolicy`
may happen between any two of them. `job` remembers under which policy version and at which minute it was
checked. Races and crashes belong to the other modules; here each call is one step.

`ProviderAdapters!Outcomes` gives the answers of the adapter the factory chooses in a given process configuration,
`NextCaseState` the worker's mapping of them. Two things can be read off it: no adapter ever answers
`PROVIDER_TIMEOUT`, so `AMBIGUOUS` and with it reconciliation are reached by no adapter there is; and outside
the test mode a payment retry always fails, since the worker passes no `mandateId`.

### RazorpayClient

`http` is the axios request of each call with the `reference_id` it carries, `breaker` the circuit they share, `created`
the references of the links the provider has made for a call. `Fire` is `createPaymentLink`, which draws a reference, up to
`breaker.fire`; `GiveUp` its timeout (the requests go on), `HalfOpen` and `WindowRolls` its
timers; `Reach` is the provider, which refuses a second link with a reference, `Retry` axios-retry, `Settle` the answer on its way back through the breaker
to `execute`. `Lose` is a lost request or response. The fallback replaces every error, so `mapRazorpayError`
is never asked.

### EvaluationHarness

`Init` chooses a data set the generator may produce; `Begin`, `Turn` and `Finish` are the loop of
`SystemUnderTestStrategy.evaluate` with its counters; `Naive` is the baseline that reminds everybody, `Nothing`
the one that does nothing. The production code is called as in the repository: `Qualification` and
`RecoveryDecision!Propose`. `Answers` makes the scoring service arbitrary. `Compute` is
`MetricsCalculator.compute`, which adds one case after the other to the totals in `metrics`; taking one case per step lets the
assertions be stated of every prefix of the data set, and saves the proofs a recursive sum.

## 3. Runs

`tlc -config <cfg> <module>`; the full list with mutants is in `PROJECT.json`.

| Run | cfg | Shows |
|---|---|---|
| `execution` | `MCExecutionWorker.cfg` | types; calls separated by lock releases; unfinished executions stay locked; case backed by its outcome; versioned writes; nothing overwritten by a writer that has not seen it; refinement of `LeasedExecution` |
| `execution_live` | `MCExecutionWorkerLive.cfg` | every job ends; every claimed execution leaves `QUEUED`/`EXECUTING` |
| `outbox` | `MCOutboxRelay.cfg` | exclusive claims; published is final; refinement of `AtLeastOnce`; every pending event is published or given up while there is traffic |
| `planning` | `MCCasePlanning.cfg` | no insert collides; only approved plans enqueued; a checked case can be enqueued; queued from `POLICY_CHECKED` only; refinement of `AtomicPlanning`; every detected case is planned |
| `webhook` | `MCWebhookIngestion.cfg` | an acknowledged event is queued, except across one gap; ingested once; the audit row of a capture is true, that of a `PAYMENT_RECOVERED` names a state the case was in when found or before; a completed capture has been applied; every event settles |
| `decision` | `MCDecisionPipeline.cfg` | what is executed is permitted under both policies, in quiet hours, of the kinds a customer can act on; scores do not decide, although a branch reads them; which cases are stranded; every other queued case is resolved. Deadlock is checked: the clock never stops |
| `providers` | `MCRazorpayClient.cfg` | a call makes one link at most, by the one reference of its repeated requests, and succeeds only with it; a link nobody knows of has a lost or late answer as its cause; calls return |
| `evaluation` | `MCEvaluationHarness.cfg` | each case ends one way; attempts add up; fraud is never attempted; the integrity assertions hold; results equal a closed formula |
| `execution_at_most_once`, `planning_retryable`, `webhook_conflict`, `decision_consent` | | where a document and the code disagree, see section 5 |

### Bounds

* `execution`: one case, because the rows, jobs and locks of different cases share nothing (the scanner's
  list is a set; the proofs are for any number). Two concurrent executions are what a stalled or redelivered
  job produces; a third repeats the second. `MaxAttempts = 2` is the least for which "a retry" and "the
  last attempt" differ (the code reads `QUEUE_ATTEMPTS`), `MaxStalled = 1` is BullMQ's default. One fault
  and one payment, each at any place, in any order; reconciliation has its real three attempts. The
  liveness run drops the outside payment and the provider answers that take the same paths.
* `outbox`: two events and two relays, so that batches overlap, an expired lock is taken over, and marking
  by id meets another relay's work; one fault, and `MaxRetries = 1`, so that an event is rescheduled once and
  then given up (the code has 3, and batches of 10).
* `planning`: one case, one cron and one request, which is a race at every statement; two policy versions,
  which makes two different plan keys; all five decisions; two external events and one fault. A case
  may come back by `Execute`, so that plans are replayed. `Take` is 1, as many as there are cases.

* `webhook`: one event of each endpoint, two requests and two runners, so that two deliveries of an event and two
  runs of its stalled job overlap; each event is any of its inputs. One write from elsewhere is what a capture
  can lose its race to, and one fault strikes anywhere. A second write or fault repeats the first.
* `decision`: four policies whose thresholds put the amounts and confidences below, at and above, one that
  restricts channels and currencies, one that is off; the minutes on both sides of both ends of the contact
  window; one event for each root cause, one of them with the day's messages used up; a scoring service that
  favours the retry, the link, or does not answer.
* `providers`: two calls, so that one trips the breaker for the other; one reference for each; the real three repetitions;
  two faults, so that a repetition can fail as well.
* `evaluation`: two cases, so that something could leak from one into the next; minutes from which none, two and
  three of the hours asked about are in the contact window; ages at, below and above the 720 hours of qualification.

### Fairness

* Processes are fair (weak fairness on each one's steps): a Node process that is not dead goes on, and
  the process manager restarts it. BullMQ delivers waiting jobs and checks for stalled ones by timer; locks age
  with the clock; the scanner's cron fires. Payments, requests, policy updates and faults are never fair. Neither is `JobCompletes`.
* `WebhookIngestion`: the provider repeats a delivery until it is acknowledged, and a request slot may be busy now and then:
  strong fairness of `Deliver`, as Razorpay's own retries justify it for webhooks and the merchants' clients for
  `events/ingest`. The rest is weak.
* `DecisionPipeline`: the queue delivers and the worker runs. The clock and the merchant are free.
* `RazorpayClient`: a request is answered or times out, and answers are dealt with. The breaker's timers are not
  fair: `CallsReturn` holds although it never gives up.
* `OutboxRelay` needs more for `PendingSettles`, since only a notification starts a poll. `SteadyTraffic` says
  that other plans keep being enqueued (weak fairness of `OtherTraffic`) and that not every one of their
  notifications falls into a running poll (strong fairness of `WakeIdle`). This is an assumption on the
  workload, not on the code; without it the property is false: a notification that falls into a running poll is
  dropped, and nothing else starts one.
* `VaryingSpec` of `CasePlanning` adds that approval is proposed again and again; it is used only to
  show that a `RETRYABLE` case stays where it is even then.

All runs but the two of `DecisionPipeline` have `CHECK_DEADLOCK FALSE`: a system with every case settled and no
fault left may stop, and so may a benchmark that is done. The breaker's rolling window in `RazorpayClient` moves on only while there is something in it.

## 4. Proofs

The theorems hold for every value of the constants; TLC checks the same properties on the instances above.

`ExecutionWorkerProofs` proves for every set of cases, workers and scanners and all bounds, assuming only
`WorkerConstants` (`Nobody` is none of them, the outcomes are among those named, bounds are naturals):

* `TypeCorrect`: `Spec => []TypeOK`. The type is not inductive as it stands: `Settle` increments
  `attemptsMade`, which is bounded by `MaxAttempts` only because a job that is waiting or active has an attempt
  left. `TypeInv == TypeOK /\ JobInv` adds that and is inductive; `TypeStep` has one step per action.
* `CallsSeparated`: `Spec => []CallsSeparatedByRelease`. Needs to know where a second call could come from.
  `EpochInv` says that a recorded call's lock period is never later than the present one, that a
  call in the present period implies that the lock is not free (`CallsUsed`), and that at most one
  worker is about to call with the present period, and then none has (`CallersApart`). Taking the lock
  starts from a free one, hence from an unused period; the scanner's release starts a new one.
* `WritesAreVersioned`: `Spec => CaseWritesAreVersioned`. The one write whose new state depends on a state read
  earlier is `PrepareWrite`; `PrepareInv` says that a worker before it still holds the row it
  read, or the row's version has moved on.

`CasePlanningProofs` proves for any number of cases, crons and requests, assuming only `PlanningConstants`,
the invariants of the run `planning`, its action property and its refinement, all from one inductive invariant:

* `PlanInv` is the type invariant, `OnlyApprovedPlansEnqueued`, `PolicyCheckedIsEnqueueable` and
  `PlannersSound`. The last says what a planner's record means for the database of the moment: the
  version it has read is not ahead of the row's, and *as long as it is the row's version*, what was
  found after reading it is still so (the plan or event is absent, the state is `POLICY_CHECKED`); a
  plan on its way into the outbox is approved, whatever the version. None of the properties is inductive
  without it, since each of them is decided in one statement and relied on in a later one.
* A step either moves one planner (`LocalStep`, `GotoStep`, `DoneStep`) or writes one case row with
  the next version (`CaseStep`), after which nobody else's version of that case is current. There is a
  lemma per action on top of these, and `StepInv` joins them.
* `PlanningTypeCorrect`, `InsertsApart`, `ApprovedOnly` and `NoDeadEnd` follow; `QueuedInOrder` looks at
  the steps that write a case once more. `PlanningIsAtomic` is the refinement `Spec => Atomic!Spec`: by `PlannersSound` a `Write`
  whose version is still current is `Plan`, an `EnqueueWrite` whose version is still current is `Enqueue` (the plan is still
  approved, the case still `POLICY_CHECKED`), and every other step of a planner changes no row. The type
  invariant of this model and of `OutboxRelay` is proved only, no run repeats it.

`OutboxRelayProofs` proves for any number of events and relays and any batch size, assuming only
`RelayConstants`, the safety properties of the run `outbox`:

* `RelayInv` is the type invariant; `RelaysSound`, by which a relay's batch has existing rows, each once, and a
  relay about to mark an event has seen its job added; `QueuedWasAdded`; and, with timely batches,
  `HeldIsLocked` and `HeldOnce`: what a relay holds is pending and locked, and held by it alone. The
  property `ExclusiveClaim` needs the lock to be inductive, since it is the lock that keeps the next claim off.
* `RelayStep`, `RowStep` and `SettleStep` cover the steps that move a relay, change a row from outside, and end
  an event; `ClaimStep` is the one that gives a relay new rows.
* `RelayTypeCorrect` and `ClaimsExclusive` follow. `PublishedStays` adds what each step does to a row (`EventSteps`).
* `RelayDelivers` is the refinement `Spec => Delivery!Spec`: initial states map to initial states; enqueueing
  records, adding delivers, marking publishes and the catch block gives up; every other step stutters. It does
  not need timely batches.

`ExecutionOutcomeProofs` builds on `ExecutionWorkerProofs` and proves what worker, scanner, reconciliation and
payments make of a case together. `Effects` reduces every step to its effect on the rows and on the workers that have
something in hand (a worker reads a case, finds or creates the intervention, locks it, calls, asks for
reconciliation, stores; somebody closes a case; a payment comes), so that each invariant is shown for
ten kinds of steps instead of thirty actions.

* `BackedInv`: each row is backed; a worker about to store a result is alone with its case and finds no result there
  (`StoresFirst`, which is what the unique key and the row lock of the transaction amount to); a reconciliation
  that has gone past its check finds a stored result (`ReconBacked`). `ConclusionsBacked` follows, and so does that the branch of
  reconciliation that stores FAILED is never reached.
* `LockInv`: a worker past the preparation works on a case that has been started, one about to call for an EXECUTING case holds the
  lock; a scanner that is about to release the lock of an EXECUTING case has read that very row, so its
  versioned update succeeds and moves the case. `DeadExecutionsFound` follows.
* `SeenInv`: what a writer has read is the row or an older version of it. `OverwritesAreInformed` follows.
* `LeasesKept` is the refinement `Spec => Lease!Spec`. Besides `BackedInv` it needs that whoever has an answer in hand has called
  (`CalledInv`), and that a step moves one worker (`OneMoves`), since the abstract steps are steps of one.

`WebhookIngestionProofs` proves for any number of events, requests, runners and cases and any inputs, assuming only
`WebhookConstants`. `Typed` adds to `TypeOK` that a runner about to write a case has one. Then each property has an
invariant of its own on top:

* `AckInv`: a registered event has its job, or a request is about to add it, or it is lost.
* `LogInv`: what a capture has read is a row there has been, and what it is about to report it has written
  (`AuditTellsTheTruth`).
* `FoundInv`: what a `PAYMENT_RECOVERED` has found is a row there has been, not closed, of a version that is not ahead of the
  case. That is all that is left of a row that is read without a lock and updated by id, and `RecoveryAuditNamesThePast`
  follows; that its audit row tells the transition the case makes does not, see section 5.
* `OnceInv`: an open transaction is the only one with its event, which is not stored yet.
* `AppliedInv`: versions only grow, a runner that has nothing more to write for a capture has found or made its case closed.

`DecisionPipelineProofs` proves for any policies, events, amounts, hours and answers, assuming only
`DecisionConstants`. Lemmas about the operators come first: an approval clears every rule (`ApprovedClears`,
`ApprovedAutomatically`), a rejection that does not stop has one of three reasons (`RejectedForNow`), scores do not change the
recommendation (`ScoresDoNotMatter`), because the branch that reads them comes after a rule that knows all its causes
(`ScoresComeTooLate`). `PlanInv` says of each plan what was true when it was made, `JobInv` what the
second evaluation adds; since case and event never change but for the state, the first stays true.

`RazorpayClientProofs` proves for any number of calls, repetitions and faults. `CallInv` relates request, link and
result of one call: the request runs exactly while the call is pending and not given up, the only link made for it has the
reference its attempts carry (`OneLink`), a link means
that the answer telling of it is here, lost, late or returned. `AnswersListed` shows that the client answers as
`ProviderAdapters` says, so the two modules agree.

`EvaluationHarnessProofs` proves for any number of cases, any data set, ages and answers, and every limit of attempts from
two on (a case needs the second to survive a timeout; the generator gives three). `EvaluationConstants` also bounds the amounts
as the generator does, below every limit of its policy, and the minutes to a day.

* What the pipeline proposes comes first, for any scores at any hour: `TimeoutIsRetried`, `BalanceIsReminded`, `OthersAreEscalated`.
* `LoopInv` says what the case under way looks like after so many attempts (`GoesOn`), or that it has ended as `Expected`;
  `ResultsInv` that each finished result is `Expected`, which is how `ResultsAreReproducible` goes. Without `GoesOn` nothing
  tells a loop in its second attempt from one that has lost the count. `OpenHoursEnd` relates the closed formula, a
  cardinality, to the attempt at which the contact window closes.
* `ExpectedIsBooked` and `NaiveIsBooked` say what every expected result satisfies, so that the other three properties of single
  results follow; `TotalsInv` carries it to the totals, one case at a time.

Only model-checked: liveness under fairness (`JobSettles`, `ClaimedExecutionSettles`,
`PendingSettles`, `DetectedIsPlanned`, `EventsSettle`, `QueuedIsResolved`, `CallsReturn`), which is out of the
prover's reach.

## 5. Where documents and code disagree

Each of these has a run that TLC ends with a counterexample; `PROJECT.json` quotes the lines.

| Run | Statement | What the code does |
|---|---|---|
| `execution_at_most_once` | the endpoint "is never hit twice for the same logical intervention attempt" | `claimExecutionLock` looks only at the lock: after the scanner has failed an intervention and cleared its lock, a worker that had read it as `PENDING` calls again |
| `planning_retryable` | a `RETRYABLE` case is planned anew | its next proposal has the old plan's key, and the rejected plan is replayed |
| `webhook_conflict` | throwing a version conflict "triggers localized retry" | the queue's jobs have one attempt; the payment is never recorded |
| `decision_consent` | missing consent blocks an intervention | consents are stored with the customer and looked for in the event's metadata; their absence there means consent |

`execution_at_most_once` has `TimelyWorkers = TRUE`: the finding needs no execution that outlasts the five minutes.

Met while reading and modelling, and part of the models' behaviour, but without a run of their own:

* `docs` say that the worker "releases the lock" with its result (`WORKER.md:52`). `persistExecutionResult` does not, so after five
  minutes the scanner fails the succeeded intervention and escalates its case (`P/execution.ts:303`, `:228`).
  `NoBlindOverwrite` allows exactly this overwrite of a success.
* A capture that preempts a worker is said to make its update stale (`ASYNC_WORKFLOW.md:21`); the worker reads the version
  anew when it stores its result, and may overwrite `RECOVERED`, knowing it.
* `AMBIGUOUS` is said to resolve through reconciliation (`resilience_flow.test.ts:177`); the outcome row is unique and the
  ambiguous result already has it.
* A job dropped for a transient rejection is left for "the reconciliation/cron" to pick up
  (`recovery-plan-execution.processor.ts:94`); neither looks at `QUEUED` cases. `StrandedByNightOrPolicyChange` says which are left.
* The relay is said to poll continuously (`OUTBOX_PATTERN.md:18`); it polls at start and on notifications, and drops
  those that come while it is polling.
* `RECOVERED` is said not to be left any more (`CASES.md:105`); the transaction of `createPlan` does not look at the state again and may reopen a case
  that a payment has closed since it was read.
* "Every case update checks the current version" (`README.md:330`): the update of `PAYMENT_RECOVERED` goes by id (`P/ingestion.ts:199`).
* The audit log is said to record the previous and the next state "for every mutation" (`DATA_MODEL.md:81`). The row of a
  `PAYMENT_RECOVERED` names the state of the case when it was found (`P/ingestion.ts:189`, `:216`); a write between the two
  statements makes it untrue. `RecoveryAuditIsPast` says what is left.
* After a crash the scanner is said to restore the case to a retryable state (`WORKER.md:94`); it fails the intervention and
  escalates the case (`P/execution.ts:250`). `ClaimedExecutionSettles` and `UnfinishedCallIsLocked` allow either.
* The scores are said to select the intervention: "The highest NEIV arm wins" (`INTERVENTIONS.md:75`), "The system selects
  `argmax_t(NEIV_t)`" (`README.md:364`), "utilize causal uplift predictions to guide treatment selection" (`intervention.ts:131`). But
  the branch that compares them comes after a rule for the same causes that chooses the payment link whatever they are
  (`intervention.ts:120`), and the location that chooses the channel is always "Urban". `propensity.ts:25` says that scores "do NOT override
  deterministic domain rules"; that is what holds (`PropensityIsAdvisory`).
* The contact window is said to be "strictly" enforced (`README.md:339`). A plan is checked against it when it is made; the worker
  checks again for SMS and voice only (`policy.ts:183`), so an email planned before 20:00 may be sent at night (`QuietHours`).
* The evaluated system is said to refuse the cases of insufficient funds "before any external API is called" (`EVALUATION.md:214`);
  it approves an email reminder for them as long as the window is open, and books every one as an attempt (`BalanceIsReminded`, `Expected`).
* "Identical numbers on every run" (`README.md:459`) ends when the events are older than 720 hours: from then on every case is stopped
  (`Expected`). The published 35 + 38 + 97 do add up to the 170 held-out cases; the summary prints 500.
* The benchmark's fraud cases are said to be "blocked from retry by policy" (`README.md:515`); the generator's reason is not the one
  the diagnosis knows, so no fraud rule applies and they are escalated as unknown. None is attempted all the same (`FraudIsNeverAttempted`).
* Deciding on the override of a recommendation the workflow looks neither at an active retry nor at the amount
  (`dunning-graph.ts:79`), as the recommendation itself does (`intervention.ts:103`); the policy's own limit on amounts still applies.

## 6. Abstractions

* `ExecutionWorker` has one job per case: a case queued a second time has another plan key, hence another
  job and intervention, while the first one is done or failed. What crosses from one to the other is the
  case row only. To be composed, see the plan.
* `PaymentRecovered` (ingestion) finds a case and updates it by id in two statements of one transaction; these are two
  steps in `WebhookIngestion`, one in `ExecutionWorker`, and absent from `CasePlanning`.
* `WebhookIngestion` has one customer with one merchant, so that the case `PAYMENT_RECOVERED` looks for is the newest open one of
  all. The upserts of merchant and customer are left out; the latter keeps the consents of the first event for ever.
  The signature is a Boolean; an event without a case reference is one that names no case.
* In `DecisionPipeline` no earlier intervention of the case is active and its `attemptCount` is 0, as it is in the
  code, where nothing increments it.
* `RazorpayClient`: that the provider refuses a second link with the same `reference_id` is a promise of the provider, and
  `opossum` and `axios-retry` are modelled from how the adapter configures them. Durations are not modelled: a timeout may come at any time.
* `EvaluationHarness` models the counters that are sums. Rates and averages are quotients of them.
* In `ExecutionWorker` a provider adapter's answer is one of five: success without, with part, or with all of the amount; a
  rejection; a timeout. The first three differ only for a payment retry.
  More than `ProviderAdapters` lists, which is what today's adapters answer: the worker is written for all of them.
* A commit that succeeds while its caller sees an error is not modelled; a crash after the commit, which
  leaves the same database, is.
* Only `INTERVENTION_ENQUEUED` events exist, so the relay's branch for unknown types is left out.
* The scanner also clears outbox locks that are long over; an expired lock is claimable anyway.
* `releaseStaleLocks`, `scheduleRetry`, `blockExecution` and `transitionWithVersion` exist but nothing calls
  them.
* `DetectedIsPlanned` is checked with `Take` at least the number of cases. With more stuck cases (the
  `RETRYABLE` ones of section 5) than places in a pass it is false.

## 7. Not modelled

* **LLM client and message safety** (`libs/llm`, `apps/api/src/modules/ai`). A draft is one request and one reply that touches no
  case, plan or intervention. Its sanitizer and validators are schemas and regular expressions on text, and nothing
  calls them, although `README.md:400` and `docs/security/SECURITY.md:79` describe such a gate: there is no behaviour of the
  system to model.
* **Dashboards, read models, frontend**: they only read.
* **ML pipeline**: offline training and a stateless prediction, numerical code. Its answer is an arbitrary input of `RecoveryDecision`.
* Of the **evaluation harness** (partly modelled): rates, report files, and the online mode with an LLM.
* Logging and metrics everywhere; audit rows except those about payments.

## 8. Plan

Done: `ExecutionWorker`, `OutboxRelay` with `AtLeastOnce`, `CasePlanning`, `Qualification` and `WebhookIngestion`, `RecoveryDecision`,
`ProviderAdapters` and `DecisionPipeline`, `RazorpayClient`, `EvaluationHarness`, `LeasedExecution`, `AtomicPlanning`, and the proofs of all their safety properties.

Next, in this order:

1. A composition of planning, outbox and execution over several plans of one case, for what crosses them: a case queued a second
   time while the scanner still finds the first intervention's lock.
2. `AtLeastOnce` for the webhook: the endpoint and its queue implement it but for the gap that `AcknowledgedReachesQueue` names.

New questions join an existing run where they use the same instance; new runs use the bounds of the run they resemble
(two deliveries, two workers, one fault).
