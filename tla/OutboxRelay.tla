----------------------------- MODULE OutboxRelay -----------------------------
(***************************************************************************)
(* The transactional outbox between planning and execution: enqueueing a   *)
(* plan writes an OutboxEvent row and a NOTIFY in one transaction, and     *)
(* OutboxPublisherService, one per API process, claims rows in batches,    *)
(* adds a job for each to queue recovery-plan-execution and marks the row. *)
(*                                                                         *)
(* A relay polls when it starts and when a notification reaches it while   *)
(* it is not polling; there is no timer.  Each await is a step boundary.   *)
(***************************************************************************)
EXTENDS Naturals, Sequences, FiniteSets

CONSTANTS
    Events,     \* outbox events, one per enqueued plan
    Relays,     \* OutboxPublisherService instances
    BatchSize,  \* rows claimed by one poll
    MaxRetries, \* attempts after which an event is given up
    MaxFaults   \* bound: crashes, lost connections and failed calls in a behaviour

ASSUME RelayConstants ==
    /\ BatchSize \in Nat \ {0}
    /\ MaxRetries \in Nat
    /\ MaxFaults \in Nat

VARIABLES
    event,   \* Postgres: OutboxEvent rows
    created, \* Postgres: the rows ordered by createdAt
    queue,   \* Redis: whether a job with the event's jobId exists
    relay,   \* per instance: where its poll() is
    notice,  \* per instance: whether a notification is on its way
    added,   \* observation only: how often a job was really added
    timely,  \* whether a batch is always finished before its locks expire
    faults   \* faults so far

vars == <<event, created, queue, relay, notice, added, timely, faults>>

-----------------------------------------------------------------------------
(* Values *)

\* lockedAt holds the time the lock ends: "held" until then, "expired" after.
Row == [status : {"NONE", "PENDING", "PUBLISHED", "FAILED"}, attempts : Nat,
        lock : {"free", "held", "expired"}, available : BOOLEAN]

\* A claimed row as the relay remembers it.
Claimed == [event : Events, attempts : Nat]

\* "down", or the await poll() is at; "idle" is isProcessing = false.
Relay == [pc : {"down", "idle", "claim", "add", "mark", "fix"},
          batch : SUBSET Claimed, current : Claimed \cup {<<>>}, listening : BOOLEAN]

TypeOK ==
    /\ event \in [Events -> Row]
    /\ created \in Seq(Events)
    /\ queue \in [Events -> {"absent", "present"}]
    /\ relay \in [Relays -> Relay]
    /\ \A r \in Relays :
         /\ relay[r].batch # {} <=> relay[r].pc \in {"add", "mark", "fix"}
         /\ relay[r].pc \in {"mark", "fix"} => relay[r].current \in relay[r].batch
    /\ notice \in [Relays -> BOOLEAN]
    /\ added \in [Events -> Nat]
    /\ timely \in BOOLEAN
    /\ faults \in 0..MaxFaults

NewRow  == [status |-> "NONE", attempts |-> 0, lock |-> "free", available |-> TRUE]
Stopped == [pc |-> "down", batch |-> {}, current |-> <<>>, listening |-> FALSE]

Init ==
    /\ event = [e \in Events |-> NewRow]
    /\ created = <<>>
    /\ queue = [e \in Events |-> "absent"]
    /\ relay = [r \in Relays |-> Stopped]
    /\ notice = [r \in Relays |-> FALSE]
    /\ added = [e \in Events |-> 0]
    /\ timely \in BOOLEAN
    /\ faults = 0

-----------------------------------------------------------------------------
(* Helpers *)

Holds(r, e) == \E b \in relay[r].batch : b.event = e

\* The relay is done with its current event: on to the next, or poll() ends.
NextEvent(r) ==
    LET rest == relay[r].batch \ {relay[r].current} IN
    relay' = [relay EXCEPT ![r].batch = rest, ![r].current = <<>>,
                           ![r].pc = IF rest = {} THEN "idle" ELSE "add"]

\* One NOTIFY reaches every instance that listens.  Notifications under way at
\* the same time count as one: OtherTraffic can send the next.
Notify ==
    notice' = [r \in Relays |-> notice[r] \/ relay[r].listening]

Fault == faults < MaxFaults /\ faults' = faults + 1

-----------------------------------------------------------------------------
(* The writing side *)

\* enqueuePlanWithOutbox inserts the row and notifies when it commits.
Enqueue(e) ==
    /\ event[e].status = "NONE"
    /\ event' = [event EXCEPT ![e].status = "PENDING"]
    /\ created' = Append(created, e)
    /\ Notify
    /\ UNCHANGED <<queue, relay, added, timely, faults>>

\* Another case's plan is enqueued.
OtherTraffic ==
    /\ \E r \in Relays : relay[r].listening /\ ~notice[r]
    /\ Notify
    /\ UNCHANGED <<event, created, queue, relay, added, timely, faults>>

-----------------------------------------------------------------------------
(* OutboxPublisherService *)

\* onModuleInit: listen, then poll once for the backlog.
Start(r) ==
    /\ relay[r].pc = "down"
    /\ relay' = [relay EXCEPT ![r].pc = "claim", ![r].listening = TRUE]
    /\ UNCHANGED <<event, created, queue, notice, added, timely, faults>>

\* A notification starts poll() ...
WakeIdle(r) ==
    /\ relay[r].pc = "idle" /\ notice[r]
    /\ notice' = [notice EXCEPT ![r] = FALSE]
    /\ relay' = [relay EXCEPT ![r].pc = "claim"]
    /\ UNCHANGED <<event, created, queue, added, timely, faults>>

\* ... or is dropped, because isProcessing is set.
WakeBusy(r) ==
    /\ relay[r].pc \in {"claim", "add", "mark", "fix"} /\ notice[r]
    /\ notice' = [notice EXCEPT ![r] = FALSE]
    /\ UNCHANGED <<event, created, queue, relay, added, timely, faults>>

\* Mutant: a lock that has expired still counts.
ClaimableUnlocked(e) ==
    event[e].status = "PENDING" /\ event[e].available /\ event[e].lock = "free"

\* Mutant: locks do not count.
ClaimableLocked(e) ==
    event[e].status = "PENDING" /\ event[e].available

\* Mutant: rows already published are claimed again.
ClaimablePublished(e) ==
    /\ event[e].status \in {"PENDING", "PUBLISHED"}
    /\ event[e].available /\ event[e].lock # "held"

\* The WHERE clause of the claim.
Claimable(e) ==
    event[e].status = "PENDING" /\ event[e].available /\ event[e].lock # "held"

\* ORDER BY createdAt
Older(d, e) ==
    \E i, j \in 1..Len(created) : i < j /\ created[i] = d /\ created[j] = e

\* claimPendingOutboxEvents: lock the oldest claimable rows, in one statement.
Claim(r) ==
    LET claimable == {e \in Events : Claimable(e)}
        rows == {e \in claimable : Cardinality({d \in claimable : Older(d, e)}) < BatchSize}
    IN
    /\ relay[r].pc = "claim"
    /\ event' = [e \in Events |->
                   IF e \in rows THEN [event[e] EXCEPT !.lock = "held"] ELSE event[e]]
    /\ relay' = [relay EXCEPT
                   ![r].batch = {[event |-> e, attempts |-> event[e].attempts] : e \in rows},
                   ![r].pc = IF rows = {} THEN "idle" ELSE "add"]
    /\ UNCHANGED <<created, queue, notice, added, timely, faults>>

\* queue.add: BullMQ ignores it while a job with the same jobId exists.
Add(r) ==
    \E b \in relay[r].batch :
        /\ relay[r].pc = "add"
        /\ relay' = [relay EXCEPT ![r].pc = "mark", ![r].current = b]
        /\ IF queue[b.event] = "absent"
             THEN /\ queue' = [queue EXCEPT ![b.event] = "present"]
                  /\ added' = [added EXCEPT ![b.event] = @ + 1]
             ELSE UNCHANGED <<queue, added>>
        /\ UNCHANGED <<event, created, notice, timely, faults>>

\* markOutboxPublished: by id only, whoever holds the lock by now.
Mark(r) ==
    LET e == relay[r].current.event IN
    /\ relay[r].pc = "mark"
    /\ event' = [event EXCEPT ![e].status = "PUBLISHED", ![e].lock = "free"]
    /\ NextEvent(r)
    /\ UNCHANGED <<created, queue, notice, added, timely, faults>>

\* The catch block: give the event up or reschedule it, again by id only.
Fix(r) ==
    LET b == relay[r].current
        e == b.event
    IN
    /\ relay[r].pc = "fix"
    /\ event' = [event EXCEPT ![e].attempts = @ + 1, ![e].lock = "free",
                   ![e].status    = IF b.attempts >= MaxRetries THEN "FAILED" ELSE @,
                   ![e].available = IF b.attempts >= MaxRetries THEN @ ELSE FALSE]
    /\ NextEvent(r)
    /\ UNCHANGED <<created, queue, notice, added, timely, faults>>

Poll(r) == Claim(r) \/ Add(r) \/ Mark(r) \/ Fix(r)

-----------------------------------------------------------------------------
(* Faults *)

\* Mutant: a failed add is taken for a successful one.
AddFailsSilently(r) ==
    \E b \in relay[r].batch :
        /\ relay[r].pc = "add"
        /\ Fault
        /\ relay' = [relay EXCEPT ![r].pc = "mark", ![r].current = b]
        /\ UNCHANGED <<event, created, queue, notice, added, timely>>

\* queue.add or markOutboxPublished fails.
AddFails(r) ==
    \E b \in relay[r].batch :
        /\ relay[r].pc = "add"
        /\ Fault
        /\ relay' = [relay EXCEPT ![r].pc = "fix", ![r].current = b]
        /\ UNCHANGED <<event, created, queue, notice, added, timely>>

MarkFails(r) ==
    /\ relay[r].pc = "mark"
    /\ Fault
    /\ relay' = [relay EXCEPT ![r].pc = "fix"]
    /\ UNCHANGED <<event, created, queue, notice, added, timely>>

\* The claim or the catch block fails: poll() ends and forgets its batch.
PollFails(r) ==
    /\ relay[r].pc \in {"claim", "fix"}
    /\ Fault
    /\ relay' = [relay EXCEPT ![r].pc = "idle", ![r].batch = {}, ![r].current = <<>>]
    /\ UNCHANGED <<event, created, queue, notice, added, timely>>

Crash(r) ==
    /\ relay[r].pc # "down"
    /\ Fault
    /\ relay' = [relay EXCEPT ![r] = Stopped]
    /\ notice' = [notice EXCEPT ![r] = FALSE]
    /\ UNCHANGED <<event, created, queue, added, timely>>

\* The pg client loses its connection: the error is logged, nobody reconnects.
ListenerLost(r) ==
    /\ relay[r].listening
    /\ Fault
    /\ relay' = [relay EXCEPT ![r].listening = FALSE]
    /\ notice' = [notice EXCEPT ![r] = FALSE]
    /\ UNCHANGED <<event, created, queue, added, timely>>

-----------------------------------------------------------------------------
(* Time and the queue's consumer *)

\* Thirty seconds pass since the claim.
LockExpires(e) ==
    /\ event[e].lock = "held"
    /\ timely => ~\E r \in Relays : Holds(r, e)
    /\ event' = [event EXCEPT ![e].lock = "expired"]
    /\ UNCHANGED <<created, queue, relay, notice, added, timely, faults>>

BecomesAvailable(e) ==
    /\ ~event[e].available
    /\ event' = [event EXCEPT ![e].available = TRUE]
    /\ UNCHANGED <<created, queue, relay, notice, added, timely, faults>>

\* A worker completes the job: removeOnComplete.  A failed job stays.
JobCompletes(e) ==
    /\ queue[e] = "present"
    /\ queue' = [queue EXCEPT ![e] = "absent"]
    /\ UNCHANGED <<event, created, relay, notice, added, timely, faults>>

-----------------------------------------------------------------------------
Next ==
    \/ \E e \in Events : Enqueue(e) \/ LockExpires(e) \/ BecomesAvailable(e) \/ JobCompletes(e)
    \/ OtherTraffic
    \/ \E r \in Relays :
         \/ Start(r) \/ WakeIdle(r) \/ WakeBusy(r) \/ Poll(r)
         \/ AddFails(r) \/ MarkFails(r) \/ PollFails(r) \/ Crash(r) \/ ListenerLost(r)

\* Processes run and are restarted, notifications arrive, time passes.
Fairness ==
    /\ \A r \in Relays : /\ WF_vars(Start(r))
                         /\ WF_vars(Poll(r))
                         /\ WF_vars(WakeIdle(r) \/ WakeBusy(r))
    /\ \A e \in Events : /\ WF_vars(LockExpires(e))
                         /\ WF_vars(BecomesAvailable(e))

\* Other plans keep being enqueued, and not always while a relay is polling.
SteadyTraffic ==
    /\ WF_vars(OtherTraffic)
    /\ \A r \in Relays : SF_vars(WakeIdle(r))

Spec     == Init /\ [][Next]_vars
FairSpec == Spec /\ Fairness
BusySpec == FairSpec /\ SteadyTraffic

-----------------------------------------------------------------------------
(* Properties *)

\* FOR UPDATE SKIP LOCKED and the 30 s lock keep relays apart: as long as
\* batches are finished in time, no two relays work on the same event, in spite
\* of crashes, abandoned batches and reschedulings.
ExclusiveClaim ==
    timely => \A e \in Events : \A r, q \in Relays :
        Holds(r, e) /\ Holds(q, e) => r = q

\* As long as batches are finished in time, a published event stays published
\* and its job is not added again, although marking and rescheduling go by id
\* without looking at the status or the lock.
PublishedIsFinal ==
    [][timely => \A e \in Events : event[e].status = "PUBLISHED" =>
            /\ event'[e].status = "PUBLISHED"
            /\ added'[e] = added[e]]_vars

\* The relay implements at-least-once delivery, timely or not: whatever relays
\* crash or overtake each other, an event is only marked as published when its
\* job has been added.
Delivery == INSTANCE AtLeastOnce WITH
    status    <- [e \in Events |-> event[e].status],
    delivered <- {e \in Events : added[e] > 0}

DeliveryImplemented == Delivery!Spec

\* With steady traffic every pending event is published or given up: a dropped
\* notification, an abandoned batch or a rescheduling is made up for by a later
\* notification.  Only a deployment in which every relay has lost its listening
\* connection leaves events behind.
Deaf == \A r \in Relays : relay[r].pc # "down" /\ ~relay[r].listening

PendingSettles ==
    \A e \in Events : event[e].status = "PENDING" ~>
        event[e].status \in {"PUBLISHED", "FAILED"} \/ Deaf
=============================================================================
