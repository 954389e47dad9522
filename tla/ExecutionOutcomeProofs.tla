------------------------ MODULE ExecutionOutcomeProofs ------------------------
(***************************************************************************)
(* Theorems about what the execution worker, the scanner and the payment   *)
(* events make of a case together: nothing that was begun is forgotten,    *)
(* nothing is concluded without a stored result, nothing is overwritten    *)
(* blindly.  Every step is first reduced to its effect on the rows and on  *)
(* the workers that have work in hand.                                     *)
(***************************************************************************)
EXTENDS ExecutionWorkerProofs

-----------------------------------------------------------------------------
(* Steps and their effects *)

\* Program points at which a worker has something in hand.
Writing == {"prepareWrite", "stopWrite", "escalateWrite", "persistWrite"}
Calling == {"claim", "call", "reconcile", "persist"}
Watched == Writing \cup Calling

Others(w) == \A v \in Workers : v # w => worker'[v] = worker[v]

\* Whoever moves has nothing in hand afterwards.
NobodyArrives == \A w \in Workers : worker'[w] = worker[w] \/ worker'[w].pc \notin Watched

Rows  == <<case, outcome, intervention>>
Ghost == <<calls, releases>>

Quiet == NobodyArrives /\ UNCHANGED <<Rows, Ghost, recon, scanner>>

\* A worker reads the case it is going to update.
Reads(w) ==
    LET c == worker[w].case IN
    /\ c \in Cases
    /\ worker'[w].pc \in Writing /\ worker'[w].case = c /\ worker'[w].seen = case[c]
    /\ worker'[w].pc = "persistWrite" =>
         /\ worker[w].pc = "persist" /\ worker'[w].result = worker[w].result
         /\ outcome[c] = "NONE" /\ ~RowLocked(c)
    /\ Others(w)
    /\ UNCHANGED <<Rows, Ghost, recon, scanner>>

\* A worker has found an intervention row.
Finds(w) ==
    LET c == worker[w].case IN
    /\ c \in Cases
    /\ worker'[w].pc = "claim" /\ worker'[w].case = c
    /\ intervention[c].status # "NONE"
    /\ Others(w)
    /\ UNCHANGED <<Rows, Ghost, recon, scanner>>

\* A worker creates the intervention row.
Prepares(w) ==
    LET c == worker[w].case IN
    /\ c \in Cases
    /\ worker[w].pc = "prepareWrite"
    /\ worker'[w].pc = "claim" /\ worker'[w].case = c
    /\ intervention[c].status = "NONE"
    /\ intervention' = [intervention EXCEPT ![c].status = "PENDING"]
    /\ UNCHANGED case \/ UpdateWhereVersion(c, worker[w].seen, "EXECUTING")
    /\ Others(w)
    /\ UNCHANGED <<outcome, Ghost, recon, scanner>>

\* A worker closes the case, or finds that it has lost the race for it.
Closes(w) ==
    LET c == worker[w].case IN
    /\ c \in Cases
    /\ worker[w].pc \in Writing
    /\ \E next \in {"STOPPED", "ESCALATED"} : UpdateWhereVersion(c, worker[w].seen, next)
    /\ NobodyArrives
    /\ UNCHANGED <<outcome, intervention, Ghost, recon, scanner>>

\* A worker takes the lock.
Locks(w) ==
    LET c == worker[w].case IN
    /\ c \in Cases
    /\ worker[w].pc = "claim"
    /\ worker'[w].pc = "call" /\ worker'[w].case = c
    /\ intervention[c].lock = "free"
    /\ intervention' = [intervention EXCEPT ![c].lock = "held"]
    /\ Others(w)
    /\ UNCHANGED <<case, outcome, Ghost, recon, scanner>>

\* A result that leads to the states it is entitled to.
Sound(result) ==
    /\ result.next \in {"AWAITING_CUSTOMER_ACTION", "DETECTED"} => result.status = "SUCCEEDED"
    /\ result.next = "AMBIGUOUS" => result.status = "AMBIGUOUS"
    /\ result.status # "NONE"
    /\ result.next \notin {"QUEUED", "EXECUTING"}

\* A worker gets the provider's answer.
Calls(w) ==
    LET c == worker[w].case IN
    /\ c \in Cases
    /\ worker[w].pc = "call"
    /\ worker'[w].pc \in {"reconcile", "persist"} /\ worker'[w].case = c
    /\ Sound(worker'[w].result)
    /\ calls' = [calls EXCEPT ![c] = Append(@, worker[w].epoch)]
    /\ \A d \in Cases : d # c => calls'[d] = calls[d]
    /\ Others(w)
    /\ UNCHANGED <<Rows, releases, recon, scanner>>

\* A worker asks for reconciliation.
Asks(w) ==
    LET c == worker[w].case IN
    /\ c \in Cases
    /\ worker[w].pc = "reconcile"
    /\ worker'[w].pc = "persist" /\ worker'[w].case = c /\ worker'[w].result = worker[w].result
    /\ \A j \in recon' : j \in recon \/ j.step = "waiting"
    /\ Others(w)
    /\ UNCHANGED <<Rows, Ghost, scanner>>

\* A worker stores the provider's answer.
Stores(w) ==
    LET c == worker[w].case
        result == worker[w].result
    IN
    /\ c \in Cases
    /\ worker[w].pc = "persistWrite"
    /\ outcome' = [outcome EXCEPT ![c] = result.status]
    /\ intervention' = [intervention EXCEPT ![c].status = result.status]
    /\ UNCHANGED case \/ UpdateWhereVersion(c, worker[w].seen, result.next)
    /\ NobodyArrives
    /\ worker'[w].pc = "return"
    /\ UNCHANGED <<Ghost, recon, scanner>>

\* A step of one of the other processes.
Outside ==
    /\ UNCHANGED worker
    /\ \/ \E c \in Cases : LockAges(c) \/ PaymentCaptured(c) \/ PaymentRecovered(c)
       \/ \E s \in Scanners : Scan(s) \/ ScanFails(s)
       \/ Reconcile

LEMMA PlainMove ==
    ASSUME TypeOK, NEW w \in Workers, NEW p, p \notin Watched, Goto(w, p) \/ Leave(w, p)
    PROVE  NobodyArrives /\ worker'[w].pc = p
<1>1. worker \in [Workers -> Worker]
  BY DEF TypeOK
<1>2. CASE Goto(w, p)
  BY <1>1, <1>2 DEF Goto, Worker, NobodyArrives
<1>3. CASE Leave(w, p)
  BY <1>1, <1>3 DEF Leave, IdleWorker, NobodyArrives
<1> QED BY <1>2, <1>3

LEMMA MoveEffect ==
    ASSUME TypeOK, NEW w \in Workers, NEW p, Goto(w, p) \/ Leave(w, p)
    PROVE  worker'[w].pc = p /\ worker'[w].case = worker[w].case /\ Others(w)
<1>1. worker \in [Workers -> Worker]
  BY DEF TypeOK
<1>2. CASE Goto(w, p)
  BY <1>1, <1>2 DEF Goto, Worker, Others
<1>3. CASE Leave(w, p)
  BY <1>1, <1>3 DEF Leave, IdleWorker, Others
<1> QED BY <1>2, <1>3

LEMMA ReadEffect ==
    ASSUME TypeOK, NEW w \in Workers, NEW p, NEW row,
           worker' = [worker EXCEPT ![w].pc = p, ![w].seen = row]
    PROVE  /\ worker'[w].pc = p /\ worker'[w].seen = row
           /\ worker'[w].case = worker[w].case /\ worker'[w].result = worker[w].result
           /\ Others(w)
BY DEF TypeOK, Worker, Others

LEMMA QuietSteps ==
    ASSUME TypeOK,
           \/ \E w \in Workers : \/ ReadCase(w) \/ ReevaluatePolicy(w) \/ Catch(w) \/ Settle(w)
                                \/ Crash(w) \/ CallFails(w) \/ \E c \in Cases : Take(w, c)
           \/ \E c \in Cases : StallOrphan(c) \/ StallLive(c)
           \/ UNCHANGED vars
    PROVE  Quiet
<1> USE DEF db, ghost, Rows, Ghost
<1>1. ASSUME NEW w \in Workers, ReadCase(w) \/ Catch(w) PROVE Quiet
  <2>1. \E p \in {"policy", "return", "escalate", "throw"} : Goto(w, p)
    BY <1>1 DEF ReadCase, Catch
  <2>2. NobodyArrives
    BY <2>1, PlainMove DEF Watched, Writing, Calling
  <2> QED BY <1>1, <2>2 DEF Quiet, ReadCase, Catch
<1>2. ASSUME NEW w \in Workers, ReevaluatePolicy(w) PROVE Quiet
  <2>1. \E p \in {"find", "stop", "return"} : Goto(w, p)
    BY <1>2, WorkerConstants DEF ReevaluatePolicy
  <2>2. NobodyArrives
    BY <2>1, PlainMove DEF Watched, Writing, Calling
  <2> QED BY <1>2, <2>2 DEF Quiet, ReevaluatePolicy
<1>3. ASSUME NEW w \in Workers, Settle(w) \/ Crash(w) PROVE Quiet
  <2>1. NobodyArrives
    <3>1. worker \in [Workers -> Worker] /\ worker' = [worker EXCEPT ![w] = IdleWorker]
      BY <1>3 DEF Settle, Crash, TypeOK
    <3>2. IdleWorker.pc = "idle"
      BY DEF IdleWorker
    <3> QED BY <3>1, <3>2 DEF NobodyArrives, Watched, Writing, Calling
  <2> QED BY <1>3, <2>1 DEF Quiet, Settle, Crash
<1>4. ASSUME NEW w \in Workers, CallFails(w) PROVE Quiet
  <2>1. \E p \in {"return", "throw", "catch"} : Leave(w, p)
    BY <1>4 DEF CallFails
  <2>2. NobodyArrives
    BY <2>1, PlainMove DEF Watched, Writing, Calling
  <2> QED BY <1>4, <2>2 DEF Quiet, CallFails
<1>5. ASSUME NEW w \in Workers, NEW c \in Cases, Take(w, c) PROVE Quiet
  <2>1. NobodyArrives
    BY <1>5 DEF Take, IdleWorker, NobodyArrives, Watched, Writing, Calling, TypeOK
  <2> QED BY <1>5, <2>1 DEF Quiet, Take
<1>6. ASSUME NEW c \in Cases, StallOrphan(c) \/ StallLive(c) PROVE Quiet
  BY <1>6 DEF StallOrphan, StallLive, Stall, Quiet, NobodyArrives
<1>7. CASE UNCHANGED vars
  BY <1>7 DEF vars, Quiet, NobodyArrives
<1> QED BY <1>1, <1>2, <1>3, <1>4, <1>5, <1>6, <1>7

\* Every step has one of these effects.
Effect ==
    \/ Quiet \/ Outside
    \/ \E w \in Workers : \/ Reads(w) \/ Finds(w) \/ Prepares(w) \/ Closes(w) \/ Locks(w)
                         \/ Calls(w) \/ Asks(w) \/ Stores(w)

LEMMA Effects == TypeOK /\ [Next]_vars => Effect
<1> SUFFICES ASSUME TypeOK, [Next]_vars PROVE Effect
  OBVIOUS
<1> USE DEF db, ghost, Rows, Ghost
<1>w. \A w \in Workers : worker[w].pc # "idle" => worker[w].case \in Cases
  BY DEF TypeOK
<1>1. ASSUME NEW w \in Workers, NEW from \in PC \ {"idle"}, NEW write \in Writing \ {"persistWrite"},
             NEW done \in {"return", "throw"}, MarkRead(w, from, write, done)
      PROVE  Effect
  <2>1. CASE Leave(w, done)
    <3>1. NobodyArrives
      BY <2>1, PlainMove DEF Watched, Writing, Calling
    <3> QED BY <1>1, <3>1 DEF Effect, Quiet, MarkRead
  <2>2. CASE worker' = [worker EXCEPT ![w].pc = write, ![w].seen = case[worker[w].case]]
    <3> DEFINE row == case[worker[w].case]
    <3>1. worker' = [worker EXCEPT ![w].pc = write, ![w].seen = row]
      BY <2>2
    <3> HIDE DEF row
    <3>2. /\ worker'[w].pc = write /\ worker'[w].seen = row
          /\ worker'[w].case = worker[w].case /\ worker'[w].result = worker[w].result
          /\ Others(w)
      BY <3>1, ReadEffect
    <3>3. Reads(w)
      BY <1>1, <1>w, <3>2 DEF Reads, MarkRead, row
    <3> QED BY <3>3 DEF Effect
  <2> QED BY <1>1, <2>1, <2>2 DEF MarkRead
<1>2. ASSUME NEW w \in Workers, NEW from \in Writing, NEW next \in {"STOPPED", "ESCALATED"},
             NEW done \in {"return", "throw"}, MarkWrite(w, from, next, done)
      PROVE  Effect
  <2>1. NobodyArrives
    BY <1>2, PlainMove DEF MarkWrite, Watched, Writing, Calling
  <2>2. worker[w].pc \in Writing /\ worker[w].case \in Cases
    BY <1>2, <1>w DEF MarkWrite, Writing
  <2>3. Closes(w)
    BY <1>2, <2>1, <2>2 DEF Closes, MarkWrite
  <2> QED BY <2>3 DEF Effect
<1>3. ASSUME NEW w \in Workers, MarkForStop(w) \/ MarkForEscalation(w)
      PROVE  Effect
  <2>1. {"stopWrite", "escalateWrite"} \subseteq Writing \ {"persistWrite"}
        /\ {"stop", "escalate"} \subseteq PC \ {"idle"}
    BY DEF Writing, PC
  <2> QED BY <1>1, <1>2, <1>3, <2>1 DEF MarkForStop, MarkForEscalation
<1>4. ASSUME NEW w \in Workers, FindIntervention(w)
      PROVE  Effect
  <2>1. CASE intervention[worker[w].case].status \in {"NONE", "SUCCEEDED", "FAILED"}
    <3>1. \E p \in {"prepare", "return"} : Goto(w, p)
      BY <1>4, <2>1 DEF FindIntervention
    <3>2. NobodyArrives
      BY <3>1, PlainMove DEF Watched, Writing, Calling
    <3> QED BY <1>4, <3>2 DEF Effect, Quiet, FindIntervention
  <2>2. CASE intervention[worker[w].case].status \notin {"NONE", "SUCCEEDED", "FAILED"}
    <3>1. Goto(w, "claim")
      BY <1>4, <2>2 DEF FindIntervention
    <3>2. Finds(w)
      BY <1>4, <1>w, <2>2, <3>1, MoveEffect DEF Finds, FindIntervention
    <3> QED BY <3>2 DEF Effect
  <2> QED BY <2>1, <2>2
<1>5. ASSUME NEW w \in Workers, PrepareRead(w)
      PROVE  Effect
  <2>1. CASE intervention[worker[w].case].status = "NONE"
    <3> DEFINE row == case[worker[w].case]
    <3>1. worker' = [worker EXCEPT ![w].pc = "prepareWrite", ![w].seen = row]
      BY <1>5, <2>1 DEF PrepareRead
    <3> HIDE DEF row
    <3>2. /\ worker'[w].pc = "prepareWrite" /\ worker'[w].seen = row
          /\ worker'[w].case = worker[w].case /\ worker'[w].result = worker[w].result
          /\ Others(w)
      BY <3>1, ReadEffect
    <3>3. Reads(w)
      BY <1>5, <1>w, <3>2 DEF Reads, PrepareRead, Writing, row
    <3> QED BY <3>3 DEF Effect
  <2>2. CASE intervention[worker[w].case].status # "NONE"
    <3>1. Goto(w, "claim")
      BY <1>5, <2>2 DEF PrepareRead
    <3>2. Finds(w)
      BY <1>5, <1>w, <2>2, <3>1, MoveEffect DEF Finds, PrepareRead
    <3> QED BY <3>2 DEF Effect
  <2> QED BY <2>1, <2>2
<1>6. ASSUME NEW w \in Workers, PrepareWrite(w)
      PROVE  Effect
  <2>1. CASE Leave(w, "catch") /\ UNCHANGED <<case, intervention>>
    <3>1. NobodyArrives
      BY <2>1, PlainMove DEF Watched, Writing, Calling
    <3> QED BY <1>6, <2>1, <3>1 DEF Effect, Quiet, PrepareWrite
  <2>2. CASE ~(Leave(w, "catch") /\ UNCHANGED <<case, intervention>>)
    <3>1. /\ Leave(w, "claim") /\ intervention[worker[w].case].status = "NONE"
          /\ intervention' = [intervention EXCEPT ![worker[w].case].status = "PENDING"]
          /\ UNCHANGED case \/ UpdateWhereVersion(worker[w].case, worker[w].seen, "EXECUTING")
      BY <1>6, <2>2 DEF PrepareWrite
    <3>2. Prepares(w)
      BY <1>6, <1>w, <3>1, MoveEffect DEF Prepares, PrepareWrite
    <3> QED BY <3>2 DEF Effect
  <2> QED BY <2>1, <2>2
<1>7. ASSUME NEW w \in Workers, ClaimLock(w)
      PROVE  Effect
  <2>1. CASE intervention[worker[w].case].lock # "free"
    <3>1. Goto(w, "return") /\ UNCHANGED intervention
      BY <1>7, <2>1 DEF ClaimLock
    <3>2. NobodyArrives
      BY <3>1, PlainMove DEF Watched, Writing, Calling
    <3> QED BY <1>7, <3>1, <3>2 DEF Effect, Quiet, ClaimLock
  <2>2. CASE intervention[worker[w].case].lock = "free"
    <3> DEFINE e == releases[worker[w].case]
    <3>1. worker' = [worker EXCEPT ![w].pc = "call", ![w].epoch = e]
      BY <1>7, <2>2 DEF ClaimLock
    <3> HIDE DEF e
    <3>2. worker'[w].pc = "call" /\ worker'[w].case = worker[w].case /\ Others(w)
      BY <3>1 DEF TypeOK, Worker, Others
    <3>3. Locks(w)
      BY <1>7, <1>w, <2>2, <3>2 DEF Locks, ClaimLock
    <3> QED BY <3>3 DEF Effect
  <2> QED BY <2>1, <2>2
<1>8. ASSUME NEW w \in Workers, CallProvider(w)
      PROVE  Effect
  <2>1. PICK answer \in ProviderOutcomes :
           worker' = [worker EXCEPT
              ![w].pc = IF StatusOf(answer) = "AMBIGUOUS" THEN "reconcile" ELSE "persist",
              ![w].result = [status |-> StatusOf(answer),
                             next   |-> NextCaseState(plan[worker[w].case], answer)]]
    BY <1>8 DEF CallProvider
  <2> DEFINE p == IF StatusOf(answer) = "AMBIGUOUS" THEN "reconcile" ELSE "persist"
             r == [status |-> StatusOf(answer),
                   next   |-> NextCaseState(plan[worker[w].case], answer)]
  <2>2. p \in {"reconcile", "persist"} /\ worker' = [worker EXCEPT ![w].pc = p, ![w].result = r]
    BY <2>1
  <2>3. Sound(r)
    <3>1. answer \in {"none", "partial", "full", "rejected", "timeout"}
      BY WorkerConstants
    <3>2. worker[w].case \in Cases
      BY <1>8, <1>w DEF CallProvider
    <3>3. plan[worker[w].case] \in {"message", "retry", "human"}
      BY <3>2 DEF TypeOK, ActionType
    <3> QED BY <3>1, <3>3 DEF Sound, StatusOf, NextCaseState
  <2> HIDE DEF p, r
  <2>4. worker'[w].pc = p /\ worker'[w].case = worker[w].case /\ worker'[w].result = r /\ Others(w)
    BY <2>2 DEF TypeOK, Worker, Others
  <2>5. \A d \in Cases : d # worker[w].case => calls'[d] = calls[d]
    BY <1>8 DEF CallProvider, TypeOK
  <2>6. Calls(w)
    BY <1>8, <1>w, <2>2, <2>3, <2>4, <2>5 DEF Calls, CallProvider
  <2> QED BY <2>6 DEF Effect
<1>9. ASSUME NEW w \in Workers, EnqueueReconciliation(w)
      PROVE  Effect
  <2>1. worker'[w].result = worker[w].result
    BY <1>9 DEF EnqueueReconciliation, Goto, TypeOK, Worker
  <2>2. Goto(w, "persist")
    BY <1>9 DEF EnqueueReconciliation
  <2>3. \A j \in recon' : j \in recon \/ j.step = "waiting"
    BY <1>9 DEF EnqueueReconciliation
  <2>4. Asks(w)
    BY <1>9, <1>w, <2>1, <2>2, <2>3, MoveEffect DEF Asks, EnqueueReconciliation
  <2> QED BY <2>4 DEF Effect
<1>10. ASSUME NEW w \in Workers, PersistRead(w)
       PROVE  Effect
  <2>1. CASE Leave(w, "catch")
    <3>1. NobodyArrives
      BY <2>1, PlainMove DEF Watched, Writing, Calling
    <3> QED BY <1>10, <3>1 DEF Effect, Quiet, PersistRead
  <2>2. CASE /\ outcome[worker[w].case] = "NONE"
             /\ worker' = [worker EXCEPT ![w].pc = "persistWrite", ![w].seen = case[worker[w].case]]
    <3> DEFINE row == case[worker[w].case]
    <3>1. worker' = [worker EXCEPT ![w].pc = "persistWrite", ![w].seen = row]
      BY <2>2
    <3> HIDE DEF row
    <3>2. /\ worker'[w].pc = "persistWrite" /\ worker'[w].seen = row
          /\ worker'[w].case = worker[w].case /\ worker'[w].result = worker[w].result
          /\ Others(w)
      BY <3>1, ReadEffect
    <3>3. Reads(w)
      BY <1>10, <1>w, <2>2, <3>2 DEF Reads, PersistRead, Writing, row
    <3> QED BY <3>3 DEF Effect
  <2> QED BY <1>10, <2>1, <2>2 DEF PersistRead
<1>11. ASSUME NEW w \in Workers, PersistWrite(w)
       PROVE  Effect
  <2>1. NobodyArrives /\ worker'[w].pc = "return"
    BY <1>11, PlainMove DEF PersistWrite, Watched, Writing, Calling
  <2>2. Stores(w)
    BY <1>11, <1>w, <2>1 DEF Stores, PersistWrite
  <2> QED BY <2>2 DEF Effect
<1>12. CASE \/ \E c \in Cases : LockAges(c) \/ PaymentCaptured(c) \/ PaymentRecovered(c)
            \/ \E s \in Scanners : Scan(s) \/ ScanFails(s)
            \/ Reconcile
  <2>1. UNCHANGED worker
    BY <1>12 DEF LockAges, PaymentCaptured, PaymentRecovered, Recover, Scan, ScanFind, ScanRead,
       ScanWrite, ScanFails, Reconcile, ReconRead, ReconPersist
  <2> QED BY <1>12, <2>1 DEF Effect, Outside
<1>13. CASE \/ \E w \in Workers : \/ ReadCase(w) \/ ReevaluatePolicy(w) \/ Catch(w) \/ Settle(w)
                                 \/ Crash(w) \/ CallFails(w) \/ \E c \in Cases : Take(w, c)
            \/ \E c \in Cases : StallOrphan(c) \/ StallLive(c)
            \/ UNCHANGED vars
  BY <1>13, QuietSteps DEF Effect
<1> QED
  BY <1>3, <1>4, <1>5, <1>6, <1>7, <1>8, <1>9, <1>10, <1>11, <1>12, <1>13 DEF Next, Process

-----------------------------------------------------------------------------
(* CaseBackedByOutcome *)

\* What a versioned update does to the rows.
LEMMA UpdateEffect ==
    ASSUME TypeOK, NEW c \in Cases, NEW seen \in CaseRow, NEW next \in CaseState,
           UpdateWhereVersion(c, seen, next)
    PROVE  \A d \in Cases :
             \/ case'[d] = case[d]
             \/ /\ d = c /\ case[c].version = seen.version
                /\ case'[c].state = next /\ case'[c].version = seen.version + 1
<1>1. case \in [Cases -> CaseRow]
  BY DEF TypeOK
<1> QED BY <1>1 DEF UpdateWhereVersion

\* The states only a result leads to.
BackedRow(c) ==
    /\ case[c].state \in {"AWAITING_CUSTOMER_ACTION", "DETECTED"} => outcome[c] = "SUCCEEDED"
    /\ case[c].state = "AMBIGUOUS" => outcome[c] = "AMBIGUOUS"
    /\ case[c].state = "FAILED" => outcome[c] # "NONE"
    /\ intervention[c].status = "SUCCEEDED" => outcome[c] # "NONE"

\* A worker that stores a result does so alone and for the first time.
StoresFirst(w) ==
    /\ worker[w].pc \in {"reconcile", "persist", "persistWrite"} => Sound(worker[w].result)
    /\ worker[w].pc = "persistWrite" =>
         /\ outcome[worker[w].case] = "NONE"
         /\ \A v \in Workers : worker[v].pc = "persistWrite" /\ worker[v].case = worker[w].case => v = w

\* Reconciliation goes on only where a result is stored.
ReconBacked == \A j \in recon : j.step # "waiting" => outcome[j.case] # "NONE"

BackedInv ==
    /\ \A c \in Cases : BackedRow(c)
    /\ \A w \in Workers : StoresFirst(w)
    /\ ReconBacked

LEMMA BackedInit == Init => BackedInv
BY DEF Init, BackedInv, BackedRow, StoresFirst, ReconBacked, IdleWorker

\* An update to a state of the workflow or to one that needs no result.
LEMMA BackedUpdate ==
    ASSUME TypeOK, NEW c \in Cases, BackedRow(c), UNCHANGED outcome,
           case'[c] = case[c] \/ case'[c].state \in {"EXECUTING", "STOPPED", "ESCALATED", "RECOVERED"},
           intervention'[c].status = intervention[c].status \/ intervention'[c].status # "SUCCEEDED"
    PROVE  BackedRow(c)'
BY DEF BackedRow

LEMMA BackedStep == TypeInv /\ BackedInv /\ [Next]_vars => BackedInv'
<1> SUFFICES ASSUME TypeInv, BackedInv, [Next]_vars PROVE BackedInv'
  OBVIOUS
<1> USE DEF Rows, Ghost, db, ghost
<1>a. TypeOK
  BY DEF TypeInv
<1>t. /\ intervention \in [Cases -> Intervention] /\ outcome \in [Cases -> ResultStatus \cup {"NONE"}]
      /\ recon \subseteq ReconJob /\ case \in [Cases -> CaseRow]
  BY <1>a DEF TypeOK
<1>s. /\ {"EXECUTING", "STOPPED", "ESCALATED", "RECOVERED"} \subseteq CaseState
      /\ \A w \in Workers : worker[w].seen \in CaseRow /\ worker[w].result.next \in CaseState
      /\ \A s \in Scanners : scanner[s].seen \in CaseRow
  BY <1>a DEF TypeOK, CaseState, Worker, Result, Scanner
<1>i. \A c \in Cases : BackedRow(c)
  BY DEF BackedInv
<1>q. ASSUME UNCHANGED outcome, NobodyArrives PROVE \A w \in Workers : StoresFirst(w)'
  BY <1>q DEF BackedInv, StoresFirst, NobodyArrives, Watched, Writing, Calling
<1>u. ASSUME UNCHANGED <<outcome, recon>> PROVE ReconBacked'
  BY <1>u DEF BackedInv, ReconBacked
<1>r. ASSUME UNCHANGED Rows PROVE \A c \in Cases : BackedRow(c)'
  BY <1>r DEF BackedInv, BackedRow
<1>1. CASE Quiet
  BY <1>1, <1>q, <1>u, <1>r DEF Quiet, BackedInv
<1>2. ASSUME NEW w \in Workers, Reads(w) PROVE BackedInv'
  <2>1. UNCHANGED outcome /\ worker'[w].pc \in Writing /\ worker'[w].case = worker[w].case /\ Others(w)
    BY <1>2 DEF Reads
  <2>2. worker'[w].pc = "persistWrite" =>
          /\ Sound(worker'[w].result) /\ outcome[worker[w].case] = "NONE"
          /\ \A v \in Workers : ~(worker[v].pc = "persistWrite" /\ worker[v].case = worker[w].case)
    BY <1>2 DEF Reads, BackedInv, StoresFirst, RowLocked
  <2>3. \A v \in Workers : StoresFirst(v)'
    BY <2>1, <2>2 DEF Writing, Others, BackedInv, StoresFirst
  <2> QED BY <1>2, <1>u, <1>r, <2>3 DEF Reads, BackedInv
<1>3. ASSUME NEW w \in Workers, Finds(w) \/ Locks(w) PROVE BackedInv'
  <2>1. worker'[w].pc \in {"claim", "call"} /\ Others(w) /\ UNCHANGED <<outcome, case, recon>>
    BY <1>3 DEF Finds, Locks
  <2>2. \A v \in Workers : StoresFirst(v)'
    BY <2>1 DEF Others, BackedInv, StoresFirst
  <2>3. \A c \in Cases : intervention'[c].status = intervention[c].status
    BY <1>3, <1>t DEF Finds, Locks, Intervention
  <2>4. \A c \in Cases : BackedRow(c)'
    BY <2>1, <2>3 DEF BackedInv, BackedRow
  <2> QED BY <1>u, <2>1, <2>2, <2>4 DEF BackedInv
<1>4. ASSUME NEW w \in Workers, Prepares(w) PROVE BackedInv'
  <2>1. worker'[w].pc = "claim" /\ Others(w) /\ UNCHANGED <<outcome, recon>>
    BY <1>4 DEF Prepares
  <2>2. \A v \in Workers : StoresFirst(v)'
    BY <2>1 DEF Others, BackedInv, StoresFirst
  <2>3. \A c \in Cases : intervention'[c].status = intervention[c].status \/ intervention'[c].status # "SUCCEEDED"
    BY <1>4, <1>t DEF Prepares, Intervention
  <2>4. \A c \in Cases : case'[c] = case[c] \/ case'[c].state = "EXECUTING"
    <3>1. CASE UNCHANGED case
      BY <3>1
    <3>2. CASE UpdateWhereVersion(worker[w].case, worker[w].seen, "EXECUTING")
      BY <1>4, <1>a, <1>s, <3>2, UpdateEffect DEF Prepares
    <3> QED BY <1>4, <3>1, <3>2 DEF Prepares
  <2>5. \A c \in Cases : BackedRow(c)'
    BY <1>a, <1>i, <2>1, <2>3, <2>4, BackedUpdate
  <2> QED BY <1>u, <2>1, <2>2, <2>5 DEF BackedInv
<1>5. ASSUME NEW w \in Workers, Closes(w) PROVE BackedInv'
  <2>1. \A c \in Cases : case'[c] = case[c] \/ case'[c].state \in {"STOPPED", "ESCALATED"}
    <3>1. PICK next \in {"STOPPED", "ESCALATED"} : UpdateWhereVersion(worker[w].case, worker[w].seen, next)
      BY <1>5 DEF Closes
    <3> QED BY <1>5, <1>a, <1>s, <3>1, UpdateEffect DEF Closes
  <2>2. \A c \in Cases : BackedRow(c)'
    BY <1>5, <1>a, <1>i, <2>1, BackedUpdate DEF Closes
  <2> QED BY <1>5, <1>q, <1>u, <2>2 DEF Closes, BackedInv
<1>6. ASSUME NEW w \in Workers, Calls(w) PROVE BackedInv'
  <2>1. \A v \in Workers : StoresFirst(v)'
    BY <1>6 DEF Calls, Others, BackedInv, StoresFirst
  <2> QED BY <1>6, <1>u, <1>r, <2>1 DEF Calls, BackedInv
<1>7. ASSUME NEW w \in Workers, Asks(w) PROVE BackedInv'
  <2>1. \A v \in Workers : StoresFirst(v)'
    BY <1>7 DEF Asks, Others, BackedInv, StoresFirst
  <2>2. ReconBacked'
    BY <1>7 DEF Asks, BackedInv, ReconBacked
  <2> QED BY <1>7, <1>r, <2>1, <2>2 DEF Asks, BackedInv
<1>8. ASSUME NEW w \in Workers, Stores(w) PROVE BackedInv'
  <2> PICK c \in Cases : c = worker[w].case
    BY <1>8 DEF Stores
  <2> PICK r : r = worker[w].result
    OBVIOUS
  <2>1. Sound(r) /\ outcome[c] = "NONE"
        /\ \A v \in Workers : worker[v].pc = "persistWrite" /\ worker[v].case = c => v = w
    BY <1>8 DEF Stores, BackedInv, StoresFirst
  <2>2. /\ outcome'[c] = r.status /\ \A d \in Cases : d # c => outcome'[d] = outcome[d]
        /\ \A d \in Cases : d # c => intervention'[d] = intervention[d]
    BY <1>8, <1>t DEF Stores
  <2>3. \A d \in Cases : case'[d] = case[d] \/ (d = c /\ case'[d].state = r.next)
    <3>1. CASE UNCHANGED case
      BY <3>1
    <3>2. CASE UpdateWhereVersion(c, worker[w].seen, r.next)
      BY <1>a, <1>s, <3>2, UpdateEffect
    <3> QED BY <1>8, <3>1, <3>2 DEF Stores
  <2>4. \A d \in Cases : BackedRow(d)'
    BY <1>i, <2>1, <2>2, <2>3 DEF BackedRow, Sound
  <2>5. \A v \in Workers : StoresFirst(v)'
    <3> SUFFICES ASSUME NEW v \in Workers PROVE StoresFirst(v)'
      OBVIOUS
    <3>1. CASE worker'[v].pc \notin Watched
      BY <3>1 DEF StoresFirst, Watched, Writing, Calling
    <3>2. CASE worker'[v] = worker[v] /\ worker[v].pc \in Watched
      <4>1. v # w
        BY <1>8, <3>2 DEF Stores, Watched, Writing, Calling
      <4>2. worker[v].pc = "persistWrite" => worker[v].case # c /\ worker[v].case \in Cases
        BY <1>a, <2>1, <4>1 DEF TypeOK
      <4>3. \A u \in Workers : worker'[u].pc = "persistWrite" => worker'[u] = worker[u]
        BY <1>8 DEF Stores, NobodyArrives, Watched, Writing
      <4> QED BY <2>2, <3>2, <4>2, <4>3 DEF BackedInv, StoresFirst
    <3> QED BY <1>8, <3>1, <3>2 DEF Stores, NobodyArrives
  <2>6. ReconBacked'
    <3>1. UNCHANGED recon /\ \A d \in Cases : outcome[d] # "NONE" => outcome'[d] # "NONE"
      BY <1>8, <2>1, <2>2 DEF Stores, Sound
    <3>2. \A j \in recon : j.case \in Cases
      BY <1>t DEF ReconJob
    <3> QED BY <3>1, <3>2 DEF BackedInv, ReconBacked
  <2> QED BY <2>4, <2>5, <2>6 DEF BackedInv
<1>9. ASSUME NEW c \in Cases, LockAges(c) PROVE BackedInv'
  <2>1. \A d \in Cases : intervention'[d].status = intervention[d].status
    BY <1>9, <1>t DEF LockAges, Intervention
  <2>2. \A d \in Cases : BackedRow(d)'
    BY <1>9, <1>i, <2>1 DEF LockAges, BackedRow
  <2>3. NobodyArrives
    BY <1>9 DEF LockAges, NobodyArrives
  <2> QED BY <1>9, <1>q, <1>u, <2>2, <2>3 DEF LockAges, BackedInv
<1>10. ASSUME NEW c \in Cases, PaymentCaptured(c) \/ PaymentRecovered(c) PROVE BackedInv'
  <2>1. \A d \in Cases : case'[d] = case[d] \/ case'[d].state = "RECOVERED"
    <3>1. UpdateWhereVersion(c, case[c], "RECOVERED")
      BY <1>10 DEF PaymentCaptured, PaymentRecovered, Recover
    <3> QED BY <1>a, <1>s, <1>t, <3>1, UpdateEffect
  <2>2. \A d \in Cases : BackedRow(d)'
    BY <1>10, <1>a, <1>i, <2>1, BackedUpdate DEF PaymentCaptured, PaymentRecovered, Recover
  <2>3. NobodyArrives
    BY <1>10 DEF PaymentCaptured, PaymentRecovered, Recover, NobodyArrives
  <2> QED BY <1>10, <1>q, <1>u, <2>2, <2>3 DEF PaymentCaptured, PaymentRecovered, Recover, BackedInv
<1>11. ASSUME NEW s \in Scanners, ScanWrite(s) PROVE BackedInv'
  <2>1. \A d \in Cases : case'[d] = case[d] \/ case'[d].state = "ESCALATED"
    <3>1. CASE UNCHANGED case
      BY <3>1
    <3>2. CASE UpdateWhereVersion(scanner[s].case, scanner[s].seen, "ESCALATED")
      BY <1>11, <1>a, <1>s, <3>2, UpdateEffect DEF ScanWrite
    <3> QED BY <1>11, <3>1, <3>2 DEF ScanWrite
  <2>2. \A d \in Cases : intervention'[d] = intervention[d] \/ intervention'[d].status = "FAILED"
    BY <1>11, <1>t DEF ScanWrite
  <2>3. \A d \in Cases : BackedRow(d)'
    BY <1>11, <1>a, <1>i, <2>1, <2>2, BackedUpdate DEF ScanWrite
  <2>4. NobodyArrives
    BY <1>11 DEF ScanWrite, NobodyArrives
  <2> QED BY <1>11, <1>q, <1>u, <2>3, <2>4 DEF ScanWrite, BackedInv
<1>12. ASSUME NEW s \in Scanners, ScanFind(s) \/ ScanRead(s) \/ ScanFails(s) PROVE BackedInv'
  <2>1. NobodyArrives /\ UNCHANGED <<case, outcome, intervention, recon>>
    BY <1>12 DEF ScanFind, ScanRead, ScanFails, NobodyArrives
  <2> QED BY <1>q, <1>u, <1>r, <2>1 DEF BackedInv
<1>13. ASSUME NEW j \in recon, ReconRead(j) PROVE BackedInv'
  <2>1. NobodyArrives /\ UNCHANGED <<case, outcome, intervention>>
    BY <1>13 DEF ReconRead, NobodyArrives
  <2>2. \A k \in recon' : k \in recon \/ (k.case = j.case /\ case[j.case].state = "AMBIGUOUS")
    BY <1>13, <1>t DEF ReconRead, ReconBecomes, ReconJob
  <2>3. j.case \in Cases
    BY <1>t DEF ReconJob
  <2>4. ReconBacked'
    BY <1>i, <2>1, <2>2, <2>3 DEF BackedInv, ReconBacked, BackedRow
  <2> QED BY <1>q, <1>r, <2>1, <2>4 DEF BackedInv
<1>14. ASSUME NEW j \in recon, ReconPersist(j) PROVE BackedInv'
  <2>1. outcome[j.case] # "NONE"
    BY <1>14 DEF ReconPersist, BackedInv, ReconBacked
  <2>2. NobodyArrives /\ UNCHANGED <<case, outcome, intervention>>
    BY <1>14, <2>1 DEF ReconPersist, NobodyArrives
  <2>3. \A k \in recon' : k \in recon \/ k.case = j.case
    <3>1. \/ ReconBecomes(j, {[j EXCEPT !.step = "waiting", !.attemptsMade = @ + 1]})
          \/ ReconBecomes(j, {[j EXCEPT !.step = "failed"]})
      BY <1>14, <2>1 DEF ReconPersist
    <3>2. /\ [j EXCEPT !.step = "waiting", !.attemptsMade = @ + 1].case = j.case
          /\ [j EXCEPT !.step = "failed"].case = j.case
      BY <1>t DEF ReconJob
    <3> QED BY <3>1, <3>2 DEF ReconBecomes
  <2>4. ReconBacked'
    BY <2>1, <2>2, <2>3 DEF BackedInv, ReconBacked
  <2> QED BY <1>q, <1>r, <2>2, <2>4 DEF BackedInv
<1>15. CASE Outside
  BY <1>9, <1>10, <1>11, <1>12, <1>13, <1>14, <1>15 DEF Outside, Scan, Reconcile
<1> QED
  BY <1>a, <1>1, <1>2, <1>3, <1>4, <1>5, <1>6, <1>7, <1>8, <1>15, Effects DEF Effect

LEMMA AlwaysBacked == Spec => []BackedInv
BY BackedInit, BackedStep, TypeInvariant, PTL DEF Spec

\* A case is concluded as awaiting the customer, detected again, ambiguous or
\* failed only with the outcome row that says so, however late, repeated or raced
\* the write was.
THEOREM ConclusionsBacked == Spec => []CaseBackedByOutcome
<1>1. BackedInv => CaseBackedByOutcome
  BY DEF BackedInv, BackedRow, CaseBackedByOutcome
<1> QED BY <1>1, AlwaysBacked, PTL

-----------------------------------------------------------------------------
(* UnfinishedCallIsLocked *)

Started(c) == intervention[c].status # "NONE"

\* An intervention row stays, and a case that has one does not become EXECUTING
\* any more.
LEMMA StartedStep ==
    ASSUME TypeInv, BackedInv, [Next]_vars
    PROVE  \A c \in Cases : Started(c) =>
             Started(c)' /\ (case'[c].state = "EXECUTING" => case'[c] = case[c])
<1> USE DEF Rows, Ghost, db, ghost
<1>a. TypeOK
  BY DEF TypeInv
<1>t. intervention \in [Cases -> Intervention] /\ case \in [Cases -> CaseRow]
  BY <1>a DEF TypeOK
<1>s. /\ {"EXECUTING", "STOPPED", "ESCALATED", "RECOVERED"} \subseteq CaseState
      /\ \A w \in Workers : worker[w].seen \in CaseRow /\ worker[w].result.next \in CaseState
      /\ \A s \in Scanners : scanner[s].seen \in CaseRow
  BY <1>a DEF TypeOK, CaseState, Worker, Result, Scanner
<1>k. ASSUME \A c \in Cases : case'[c] = case[c] \/ case'[c].state # "EXECUTING",
             \A c \in Cases : intervention'[c].status = intervention[c].status
                              \/ intervention'[c].status # "NONE"
      PROVE  \A c \in Cases : Started(c) =>
               Started(c)' /\ (case'[c].state = "EXECUTING" => case'[c] = case[c])
  BY <1>k DEF Started
<1>1. CASE UNCHANGED Rows
  BY <1>1, <1>k
<1>2. ASSUME NEW w \in Workers, Prepares(w)
      PROVE  \A c \in Cases : Started(c) =>
               Started(c)' /\ (case'[c].state = "EXECUTING" => case'[c] = case[c])
  <2>1. \A c \in Cases : c # worker[w].case => case'[c] = case[c] /\ intervention'[c] = intervention[c]
    <3>1. CASE UNCHANGED case
      BY <1>2, <1>t, <3>1 DEF Prepares
    <3>2. CASE UpdateWhereVersion(worker[w].case, worker[w].seen, "EXECUTING")
      BY <1>2, <1>a, <1>s, <1>t, <3>2, UpdateEffect DEF Prepares
    <3> QED BY <1>2, <3>1, <3>2 DEF Prepares
  <2>2. ~Started(worker[w].case)
    BY <1>2 DEF Prepares, Started
  <2> QED BY <2>1, <2>2 DEF Started
<1>3. ASSUME NEW w \in Workers, Closes(w)
      PROVE  \A c \in Cases : case'[c] = case[c] \/ case'[c].state # "EXECUTING"
  <2>1. PICK next \in {"STOPPED", "ESCALATED"} : UpdateWhereVersion(worker[w].case, worker[w].seen, next)
    BY <1>3 DEF Closes
  <2>2. \A c \in Cases : case'[c] = case[c] \/ case'[c].state = next
    BY <1>3, <1>a, <1>s, <2>1, UpdateEffect DEF Closes
  <2> QED BY <2>2
<1>4. ASSUME NEW w \in Workers, Locks(w) \/ Closes(w)
      PROVE  \A c \in Cases : Started(c) =>
               Started(c)' /\ (case'[c].state = "EXECUTING" => case'[c] = case[c])
  <2>1. \A c \in Cases : intervention'[c].status = intervention[c].status
    BY <1>4, <1>t DEF Locks, Closes, Intervention
  <2>2. \A c \in Cases : case'[c] = case[c] \/ case'[c].state # "EXECUTING"
    BY <1>3, <1>4 DEF Locks
  <2> QED BY <1>k, <2>1, <2>2
<1>5. ASSUME NEW w \in Workers, Stores(w)
      PROVE  \A c \in Cases : Started(c) =>
               Started(c)' /\ (case'[c].state = "EXECUTING" => case'[c] = case[c])
  <2>1. Sound(worker[w].result)
    BY <1>5 DEF Stores, BackedInv, StoresFirst
  <2>2. \A c \in Cases : case'[c] = case[c] \/ case'[c].state = worker[w].result.next
    <3>1. CASE UNCHANGED case
      BY <3>1
    <3>2. CASE UpdateWhereVersion(worker[w].case, worker[w].seen, worker[w].result.next)
      BY <1>5, <1>a, <1>s, <3>2, UpdateEffect DEF Stores
    <3> QED BY <1>5, <3>1, <3>2 DEF Stores
  <2>3. \A c \in Cases : intervention'[c].status = intervention[c].status
                         \/ intervention'[c].status = worker[w].result.status
    BY <1>5, <1>t DEF Stores, Intervention
  <2> QED BY <1>k, <2>1, <2>2, <2>3 DEF Sound
<1>6. ASSUME NEW c \in Cases, LockAges(c)
      PROVE  \A d \in Cases : Started(d) =>
               Started(d)' /\ (case'[d].state = "EXECUTING" => case'[d] = case[d])
  <2>1. \A d \in Cases : intervention'[d].status = intervention[d].status
    BY <1>6, <1>t DEF LockAges, Intervention
  <2> QED BY <1>6, <1>k, <2>1 DEF LockAges
<1>7. ASSUME NEW c \in Cases, PaymentCaptured(c) \/ PaymentRecovered(c)
      PROVE  \A d \in Cases : Started(d) =>
               Started(d)' /\ (case'[d].state = "EXECUTING" => case'[d] = case[d])
  <2>1. UpdateWhereVersion(c, case[c], "RECOVERED") /\ UNCHANGED intervention
    BY <1>7 DEF PaymentCaptured, PaymentRecovered, Recover
  <2>2. \A d \in Cases : case'[d] = case[d] \/ case'[d].state = "RECOVERED"
    BY <1>a, <1>s, <1>t, <2>1, UpdateEffect
  <2> QED BY <1>k, <2>1, <2>2
<1>8. ASSUME NEW s \in Scanners, ScanWrite(s)
      PROVE  \A d \in Cases : Started(d) =>
               Started(d)' /\ (case'[d].state = "EXECUTING" => case'[d] = case[d])
  <2>1. \A d \in Cases : case'[d] = case[d] \/ case'[d].state = "ESCALATED"
    <3>1. CASE UNCHANGED case
      BY <3>1
    <3>2. CASE UpdateWhereVersion(scanner[s].case, scanner[s].seen, "ESCALATED")
      BY <1>8, <1>a, <1>s, <3>2, UpdateEffect DEF ScanWrite
    <3> QED BY <1>8, <3>1, <3>2 DEF ScanWrite
  <2>2. \A d \in Cases : intervention'[d] = intervention[d] \/ intervention'[d].status = "FAILED"
    BY <1>8, <1>t DEF ScanWrite
  <2> QED BY <1>k, <2>1, <2>2
<1>9. CASE Outside
  <2>1. ASSUME NEW s \in Scanners, ScanFind(s) \/ ScanRead(s) \/ ScanFails(s)
        PROVE  UNCHANGED Rows
    BY <2>1 DEF ScanFind, ScanRead, ScanFails
  <2>2. ASSUME NEW j \in recon, ReconRead(j) \/ ReconPersist(j)
        PROVE  UNCHANGED Rows
    BY <2>2 DEF ReconRead, ReconPersist, BackedInv, ReconBacked
  <2> QED BY <1>1, <1>6, <1>7, <1>8, <1>9, <2>1, <2>2 DEF Outside, Scan, Reconcile
<1> QED
  BY <1>a, <1>1, <1>2, <1>4, <1>5, <1>9, Effects
     DEF Effect, Quiet, Reads, Finds, Calls, Asks

\* A worker past the preparation works on a case with an intervention, and one
\* about to call the provider for an EXECUTING case holds its lock.
WorkerHolds(w) ==
    LET c == worker[w].case IN
    /\ worker[w].pc \in Calling \cup {"persistWrite"} => Started(c)
    /\ worker[w].pc = "call" /\ case[c].state = "EXECUTING" => intervention[c].lock # "free"

\* The scanner deals with cases that have an intervention, and nobody has moved
\* the case it is about to release if that is EXECUTING still.
ScannerHolds(s) ==
    LET c == scanner[s].case IN
    /\ \A d \in scanner[s].todo : Started(d)
    /\ c \in Cases => Started(c) /\ (case[c].state = "EXECUTING" => scanner[s].seen = case[c])

CaseHolds(c) ==
    /\ calls[c] # <<>> \/ intervention[c].lock # "free" => Started(c)
    /\ calls[c] # <<>> /\ case[c].state = "EXECUTING" => intervention[c].lock # "free"

LockInv ==
    /\ \A w \in Workers : WorkerHolds(w)
    /\ \A s \in Scanners : ScannerHolds(s)
    /\ \A c \in Cases : CaseHolds(c)

LEMMA LockInit == Init => LockInv
BY WorkerConstants
   DEF Init, LockInv, WorkerHolds, ScannerHolds, CaseHolds, IdleWorker, IdleScanner, Calling

LEMMA LockStep == TypeInv /\ BackedInv /\ LockInv /\ [Next]_vars => LockInv'
<1> SUFFICES ASSUME TypeInv, BackedInv, LockInv, [Next]_vars PROVE LockInv'
  OBVIOUS
<1> USE DEF Rows, Ghost, db, ghost
<1>a. TypeOK
  BY DEF TypeInv
<1>t. /\ intervention \in [Cases -> Intervention] /\ case \in [Cases -> CaseRow]
      /\ \A w \in Workers : worker[w].pc # "idle" => worker[w].case \in Cases
      /\ scanner \in [Scanners -> Scanner]
  BY <1>a DEF TypeOK
<1>c. \A c \in Cases : Started(c) =>
        Started(c)' /\ (case'[c].state = "EXECUTING" => case'[c] = case[c])
  BY StartedStep
<1>w. ASSUME NEW v \in Workers, worker'[v] = worker[v] \/ worker'[v].pc \notin Watched,
             \A c \in Cases : intervention[c].lock # "free" => intervention'[c].lock # "free"
      PROVE  WorkerHolds(v)'
  <2>1. CASE worker'[v].pc \notin Watched
    BY <2>1 DEF WorkerHolds, Watched, Writing, Calling
  <2>2. CASE worker'[v] = worker[v] /\ worker[v].pc # "idle"
    <3>1. worker[v].case \in Cases
      BY <1>t, <2>2
    <3>2. WorkerHolds(v)
      BY DEF LockInv
    <3> QED BY <1>c, <1>w, <2>2, <3>1, <3>2 DEF WorkerHolds, Calling
  <2> QED BY <1>w, <2>1, <2>2 DEF WorkerHolds, Calling, Watched, Writing
<1>s. ASSUME NEW s \in Scanners, scanner'[s] = scanner[s]
      PROVE  ScannerHolds(s)'
  <2>1. ScannerHolds(s) /\ scanner[s].todo \subseteq Cases
    BY <1>t DEF LockInv, Scanner
  <2> QED BY <1>c, <1>s, <2>1 DEF ScannerHolds
<1>k. ASSUME NEW c \in Cases, calls'[c] = calls[c],
             intervention'[c].lock = intervention[c].lock
             \/ (intervention'[c].lock # "free" /\ Started(c))
      PROVE  CaseHolds(c)'
  <2>1. CaseHolds(c)
    BY DEF LockInv
  <2> QED BY <1>c, <1>k, <2>1 DEF CaseHolds
<1>1. CASE Quiet
  BY <1>1, <1>w, <1>s, <1>k DEF Quiet, NobodyArrives, LockInv
<1>2. ASSUME NEW w \in Workers, Reads(w) \/ Finds(w) \/ Asks(w) PROVE LockInv'
  <2>1. UNCHANGED <<Rows, Ghost, scanner>> /\ Others(w)
    BY <1>2 DEF Reads, Finds, Asks
  <2>2. WorkerHolds(w)'
    <3>1. WorkerHolds(w)
      BY DEF LockInv
    <3>2. CASE Reads(w)
      BY <2>1, <3>1, <3>2 DEF Reads, WorkerHolds, Writing, Calling, Started
    <3>3. CASE Finds(w)
      BY <2>1, <3>3 DEF Finds, WorkerHolds, Started
    <3>4. CASE Asks(w)
      BY <2>1, <3>1, <3>4 DEF Asks, WorkerHolds, Calling, Started
    <3> QED BY <1>2, <3>2, <3>3, <3>4
  <2>3. \A v \in Workers : v # w => WorkerHolds(v)'
    BY <1>w, <2>1 DEF Others
  <2> QED BY <1>s, <1>k, <2>1, <2>2, <2>3 DEF LockInv
<1>3. ASSUME NEW w \in Workers, Prepares(w) PROVE LockInv'
  <2> PICK c \in Cases : c = worker[w].case
    BY <1>3 DEF Prepares
  <2>1. /\ Others(w) /\ UNCHANGED <<calls, scanner>> /\ worker'[w].pc = "claim" /\ worker'[w].case = c
        /\ ~Started(c)
    BY <1>3 DEF Prepares, Started
  <2>2. /\ \A d \in Cases : intervention'[d].lock = intervention[d].lock
        /\ intervention'[c].status = "PENDING"
    BY <1>3, <1>t DEF Prepares, Intervention
  <2>3. WorkerHolds(w)'
    BY <2>1, <2>2 DEF WorkerHolds, Started
  <2>4. \A v \in Workers : v # w => WorkerHolds(v)'
    BY <1>w, <2>1, <2>2 DEF Others
  <2> QED BY <1>s, <1>k, <2>1, <2>2, <2>3, <2>4 DEF LockInv
<1>4. ASSUME NEW w \in Workers, Closes(w) \/ Stores(w) PROVE LockInv'
  <2>1. NobodyArrives /\ UNCHANGED <<calls, scanner>>
    BY <1>4 DEF Closes, Stores
  <2>2. \A d \in Cases : intervention'[d].lock = intervention[d].lock
    BY <1>4, <1>t DEF Closes, Stores, Intervention
  <2> QED BY <1>w, <1>s, <1>k, <2>1, <2>2 DEF LockInv, NobodyArrives
<1>5. ASSUME NEW w \in Workers, Locks(w) PROVE LockInv'
  <2> PICK c \in Cases : c = worker[w].case
    BY <1>5 DEF Locks
  <2>1. /\ Others(w) /\ UNCHANGED <<calls, scanner>> /\ worker'[w].pc = "call" /\ worker'[w].case = c
        /\ Started(c)
    BY <1>5 DEF Locks, LockInv, WorkerHolds, Calling
  <2>2. /\ intervention'[c].lock = "held"
        /\ \A d \in Cases : d # c => intervention'[d] = intervention[d]
    BY <1>5, <1>t DEF Locks, Intervention
  <2>3. WorkerHolds(w)'
    BY <1>c, <2>1, <2>2 DEF WorkerHolds
  <2>4. \A v \in Workers : v # w => WorkerHolds(v)'
    BY <1>w, <2>1, <2>2 DEF Others
  <2> QED BY <1>s, <1>k, <2>1, <2>2, <2>3, <2>4 DEF LockInv
<1>6. ASSUME NEW w \in Workers, Calls(w) PROVE LockInv'
  <2> PICK c \in Cases : c = worker[w].case
    BY <1>6 DEF Calls
  <2>1. /\ Others(w) /\ UNCHANGED <<case, intervention, scanner>>
        /\ worker'[w].pc \in {"reconcile", "persist"} /\ worker'[w].case = c
        /\ worker[w].pc = "call"
    BY <1>6 DEF Calls
  <2>2. WorkerHolds(w)
    BY DEF LockInv
  <2>3. WorkerHolds(w)'
    BY <2>1, <2>2 DEF WorkerHolds, Calling, Started
  <2>4. \A v \in Workers : v # w => WorkerHolds(v)'
    BY <1>w, <2>1 DEF Others
  <2>5. CaseHolds(c)'
    BY <2>1, <2>2 DEF CaseHolds, WorkerHolds, Calling, Started
  <2>6. \A d \in Cases : d # c => CaseHolds(d)'
    BY <1>6, <1>k, <2>1 DEF Calls
  <2> QED BY <1>s, <2>1, <2>3, <2>4, <2>5, <2>6 DEF LockInv
<1>7. ASSUME NEW c \in Cases, LockAges(c) PROVE LockInv'
  <2>1. UNCHANGED <<worker, calls, scanner>> /\ Started(c)
    BY <1>7 DEF LockAges, LockInv, CaseHolds
  <2>2. /\ intervention'[c].lock = "stale"
        /\ \A d \in Cases : d # c => intervention'[d] = intervention[d]
    BY <1>7, <1>t DEF LockAges, Intervention
  <2> QED BY <1>w, <1>s, <1>k, <2>1, <2>2 DEF LockInv
<1>8. ASSUME NEW c \in Cases, PaymentCaptured(c) \/ PaymentRecovered(c) PROVE LockInv'
  <2>1. UNCHANGED <<worker, calls, scanner, intervention>>
    BY <1>8 DEF PaymentCaptured, PaymentRecovered, Recover
  <2> QED BY <1>w, <1>s, <1>k, <2>1 DEF LockInv
<1>9. CASE Reconcile
  <2>1. UNCHANGED <<worker, calls, scanner, intervention>>
    BY <1>9 DEF Reconcile, ReconRead, ReconPersist, BackedInv, ReconBacked
  <2> QED BY <1>w, <1>s, <1>k, <2>1 DEF LockInv
<1>10. ASSUME NEW s \in Scanners, ScanFind(s) \/ ScanRead(s) \/ ScanFails(s) PROVE LockInv'
  <2>1. UNCHANGED <<worker, calls, intervention, case>>
    BY <1>10 DEF ScanFind, ScanRead, ScanFails
  <2>2. \A r \in Scanners : r # s => scanner'[r] = scanner[r]
    BY <1>10, <1>t DEF ScanFind, ScanRead, ScanFails
  <2>3. ScannerHolds(s)'
    <3>1. CASE ScanFind(s)
      <4>1. scanner'[s].todo = StaleInterventions /\ scanner'[s].case = Nobody
        BY <1>t, <3>1 DEF ScanFind, Scanner, IdleScanner
      <4>2. \A d \in StaleInterventions : Started(d)
        BY DEF StaleInterventions, LockInv, CaseHolds
      <4> QED BY <2>1, <4>1, <4>2, WorkerConstants DEF ScannerHolds, Started
    <3>2. CASE ScanRead(s)
      <4>1. PICK c \in scanner[s].todo : scanner' = [scanner EXCEPT ![s].case = c, ![s].seen = case[c]]
        BY <3>2 DEF ScanRead
      <4>2. c \in Cases /\ Started(c)
        BY <1>t, <4>1 DEF LockInv, ScannerHolds, Scanner
      <4> DEFINE row == case[c]
      <4>3. scanner' = [scanner EXCEPT ![s].case = c, ![s].seen = row]
        BY <4>1
      <4> HIDE DEF row
      <4>4. scanner'[s].case = c /\ scanner'[s].seen = row /\ scanner'[s].todo = scanner[s].todo
        BY <1>t, <4>3 DEF Scanner
      <4>5. \A d \in scanner[s].todo : Started(d)
        BY DEF LockInv, ScannerHolds
      <4> QED BY <2>1, <4>2, <4>4, <4>5 DEF ScannerHolds, Started, row
    <3>3. CASE ScanFails(s)
      BY <1>t, <3>3, WorkerConstants DEF ScanFails, IdleScanner, ScannerHolds
    <3> QED BY <1>10, <3>1, <3>2, <3>3
  <2> QED BY <1>w, <1>s, <1>k, <2>1, <2>2, <2>3 DEF LockInv
<1>11. ASSUME NEW s \in Scanners, ScanWrite(s) PROVE LockInv'
  <2> PICK c \in Cases : c = scanner[s].case
    BY <1>11 DEF ScanWrite
  <2>1. UNCHANGED <<worker, calls>>
    BY <1>11 DEF ScanWrite
  <2>2. ScannerHolds(s) /\ Started(c)
    BY DEF LockInv, ScannerHolds
  <2>3. case'[c].state # "EXECUTING"
    <3>1. CASE case[c].state = "EXECUTING"
      <4>1. scanner[s].seen = case[c]
        BY <2>2, <3>1 DEF ScannerHolds
      <4>2. UpdateWhereVersion(c, scanner[s].seen, "ESCALATED")
        BY <1>11, <3>1, <4>1 DEF ScanWrite, Closed
      <4> QED BY <1>t, <4>1, <4>2 DEF UpdateWhereVersion
    <3>2. CASE case[c].state # "EXECUTING"
      BY <1>c, <2>2, <3>2
    <3> QED BY <3>1, <3>2
  <2>4. /\ \A d \in Cases : d # c => intervention'[d] = intervention[d]
        /\ intervention'[c].status = "FAILED"
    BY <1>11, <1>t DEF ScanWrite
  <2>5. \A v \in Workers : WorkerHolds(v)'
    <3> SUFFICES ASSUME NEW v \in Workers, worker[v].pc # "idle" PROVE WorkerHolds(v)'
      BY <2>1 DEF WorkerHolds, Calling
    <3> PICK d \in Cases : d = worker[v].case
      BY <1>t
    <3>1. WorkerHolds(v) /\ worker'[v] = worker[v]
      BY <2>1 DEF LockInv
    <3>2. worker[v].pc \in Calling \cup {"persistWrite"} => Started(d)'
      BY <1>c, <3>1 DEF WorkerHolds
    <3>3. worker[v].pc = "call" /\ case'[d].state = "EXECUTING" => intervention'[d].lock # "free"
      BY <1>c, <2>3, <2>4, <3>1 DEF WorkerHolds, Calling
    <3> QED BY <3>1, <3>2, <3>3 DEF WorkerHolds, Started
  <2>6. \A d \in Cases : CaseHolds(d)'
    <3>1. \A d \in Cases : d # c => CaseHolds(d)'
      BY <1>k, <2>1, <2>4
    <3>2. CaseHolds(c)'
      BY <2>3, <2>4 DEF CaseHolds, Started
    <3> QED BY <3>1, <3>2
  <2>7. \A r \in Scanners : ScannerHolds(r)'
    <3>1. \A r \in Scanners : r # s => scanner'[r] = scanner[r]
      BY <1>11, <1>t DEF ScanWrite
    <3>2. scanner'[s].case = Nobody /\ scanner'[s].todo \subseteq scanner[s].todo
      BY <1>11, <1>t DEF ScanWrite, IdleScanner
    <3>3. scanner[s].todo \subseteq Cases
      BY <1>t DEF Scanner
    <3>4. ScannerHolds(s)'
      BY <1>c, <2>2, <3>2, <3>3, WorkerConstants DEF ScannerHolds
    <3> QED BY <1>s, <3>1, <3>4
  <2> QED BY <2>5, <2>6, <2>7 DEF LockInv
<1>12. CASE Outside
  BY <1>7, <1>8, <1>9, <1>10, <1>11, <1>12 DEF Outside, Scan
<1> QED
  BY <1>a, <1>1, <1>2, <1>3, <1>4, <1>5, <1>6, <1>12, Effects DEF Effect

\* An execution that died between the provider's answer and its storage leaves
\* the lock by which the scanner finds it.
THEOREM DeadExecutionsFound == Spec => []UnfinishedCallIsLocked
<1>1. LockInv => UnfinishedCallIsLocked
  BY DEF LockInv, CaseHolds, UnfinishedCallIsLocked
<1>2. Spec => []LockInv
  BY LockInit, LockStep, AlwaysBacked, TypeInvariant, PTL DEF Spec
<1> QED BY <1>1, <1>2, PTL

-----------------------------------------------------------------------------
(* NoBlindOverwrite *)

\* The row that was read is an older version of the case or the case itself.
Past(seen, c) ==
    /\ seen.version <= case[c].version
    /\ seen.version = case[c].version => seen = case[c]

SeenInv ==
    /\ \A w \in Workers : worker[w].pc \in Writing => Past(worker[w].seen, worker[w].case)
    /\ \A s \in Scanners : scanner[s].case \in Cases => Past(scanner[s].seen, scanner[s].case)

LEMMA SeenInit == Init => SeenInv
BY WorkerConstants DEF Init, SeenInv, IdleWorker, IdleScanner, Writing

LEMMA SeenPrepared == SeenInv => PrepareInv
BY DEF SeenInv, PrepareInv, Past, Writing

\* A row that was read grows older.
LEMMA PastStays ==
    ASSUME TypeOK, VersionedWrites, NEW c \in Cases, NEW seen \in CaseRow, Past(seen, c)
    PROVE  seen.version <= case'[c].version /\ (seen.version = case'[c].version => seen = case'[c])
<1>1. case[c].version \in Nat /\ seen.version \in Nat
  BY DEF TypeOK, CaseRow
<1>2. case'[c] = case[c] \/ case'[c].version = case[c].version + 1
  BY DEF VersionedWrites
<1> QED BY <1>1, <1>2 DEF Past

LEMMA SeenStep == TypeInv /\ SeenInv /\ [Next]_vars => SeenInv'
<1> SUFFICES ASSUME TypeInv, SeenInv, [Next]_vars PROVE SeenInv'
  OBVIOUS
<1> USE DEF Rows, Ghost, db, ghost
<1>a. TypeOK /\ VersionedWrites
  BY SeenPrepared, VersionStep DEF TypeInv
<1>t. /\ \A w \in Workers : worker[w].pc # "idle" => worker[w].case \in Cases
      /\ \A w \in Workers : worker[w].seen \in CaseRow
      /\ \A s \in Scanners : scanner[s].seen \in CaseRow /\ scanner[s].todo \subseteq Cases
      /\ scanner \in [Scanners -> Scanner]
      /\ \A c \in Cases : case[c].version \in Nat
  BY <1>a DEF TypeOK, Worker, Scanner, CaseRow
<1>w. ASSUME NEW v \in Workers, worker'[v] = worker[v] \/ worker'[v].pc \notin Writing
      PROVE  worker'[v].pc \in Writing =>
               /\ worker'[v].seen.version <= case'[worker'[v].case].version
               /\ worker'[v].seen.version = case'[worker'[v].case].version
                    => worker'[v].seen = case'[worker'[v].case]
  <2> SUFFICES ASSUME worker'[v] = worker[v], worker[v].pc \in Writing
               PROVE  /\ worker[v].seen.version <= case'[worker[v].case].version
                      /\ worker[v].seen.version = case'[worker[v].case].version
                           => worker[v].seen = case'[worker[v].case]
    BY <1>w
  <2>1. worker[v].case \in Cases /\ Past(worker[v].seen, worker[v].case)
    BY <1>t DEF Writing, SeenInv
  <2> QED BY <1>a, <1>t, <2>1, PastStays
<1>s. ASSUME NEW s \in Scanners, scanner'[s] = scanner[s] \/ scanner'[s].case \notin Cases
      PROVE  scanner'[s].case \in Cases =>
               /\ scanner'[s].seen.version <= case'[scanner'[s].case].version
               /\ scanner'[s].seen.version = case'[scanner'[s].case].version
                    => scanner'[s].seen = case'[scanner'[s].case]
  <2> SUFFICES ASSUME scanner'[s] = scanner[s], scanner[s].case \in Cases
               PROVE  /\ scanner[s].seen.version <= case'[scanner[s].case].version
                      /\ scanner[s].seen.version = case'[scanner[s].case].version
                           => scanner[s].seen = case'[scanner[s].case]
    BY <1>s
  <2>1. Past(scanner[s].seen, scanner[s].case)
    BY DEF SeenInv
  <2> QED BY <1>a, <1>t, <2>1, PastStays
<1>f. ASSUME UNCHANGED scanner,
             \A v \in Workers : worker'[v] = worker[v] \/ worker'[v].pc \notin Writing
      PROVE  SeenInv'
  BY <1>f, <1>w, <1>s DEF SeenInv, Past
<1>1. CASE Quiet \/ \E w \in Workers : Closes(w) \/ Stores(w)
  BY <1>1, <1>f DEF Quiet, Closes, Stores, NobodyArrives, Watched
<1>2. ASSUME NEW w \in Workers, Finds(w) \/ Prepares(w) \/ Locks(w) \/ Calls(w) \/ Asks(w)
      PROVE  SeenInv'
  BY <1>2, <1>f DEF Finds, Prepares, Locks, Calls, Asks, Others, Writing
<1>3. ASSUME NEW w \in Workers, Reads(w) PROVE SeenInv'
  <2>1. /\ worker[w].case \in Cases /\ UNCHANGED <<case, scanner>>
        /\ worker'[w].case = worker[w].case /\ worker'[w].seen = case[worker[w].case]
        /\ \A v \in Workers : v # w => worker'[v] = worker[v]
    BY <1>3 DEF Reads, Others
  <2>2. case[worker[w].case].version <= case[worker[w].case].version
    BY <1>t, <2>1
  <2> QED BY <1>w, <1>s, <2>1, <2>2 DEF SeenInv, Past
<1>4. CASE UNCHANGED worker /\ \E c \in Cases : LockAges(c) \/ PaymentCaptured(c) \/ PaymentRecovered(c)
  BY <1>4, <1>f DEF LockAges, PaymentCaptured, PaymentRecovered, Recover
<1>5. CASE UNCHANGED worker /\ Reconcile
  BY <1>5, <1>f DEF Reconcile, ReconRead, ReconPersist
<1>6. ASSUME UNCHANGED worker, NEW s \in Scanners, Scan(s) \/ ScanFails(s) PROVE SeenInv'
  <2>1. CASE ScanRead(s)
    <3>1. PICK c \in scanner[s].todo : scanner' = [scanner EXCEPT ![s].case = c, ![s].seen = case[c]]
      BY <2>1 DEF ScanRead
    <3>2. c \in Cases /\ UNCHANGED case
      BY <1>t, <2>1 DEF ScanRead
    <3> DEFINE row == case[c]
    <3>3. scanner' = [scanner EXCEPT ![s].case = c, ![s].seen = row]
      BY <3>1
    <3>4. row.version <= row.version
      BY <1>t, <3>2
    <3> HIDE DEF row
    <3>5. scanner'[s].case = c /\ scanner'[s].seen = row
          /\ \A r \in Scanners : r # s => scanner'[r] = scanner[r]
      BY <1>t, <3>3 DEF Scanner
    <3> QED BY <1>6, <1>w, <1>s, <3>2, <3>4, <3>5 DEF SeenInv, Past, row
  <2>2. CASE ScanFind(s) \/ ScanWrite(s) \/ ScanFails(s)
    <3>1. \A r \in Scanners : scanner'[r] = scanner[r] \/ scanner'[r].case \notin Cases
      <4>1. scanner'[s].case = Nobody /\ \A r \in Scanners : r # s => scanner'[r] = scanner[r]
        BY <1>t, <2>2 DEF ScanFind, ScanWrite, ScanFails, IdleScanner, Scanner
      <4> QED BY <4>1, WorkerConstants
    <3> QED BY <1>6, <1>w, <1>s, <3>1 DEF SeenInv, Past
  <2> QED BY <1>6, <2>1, <2>2 DEF Scan
<1>7. CASE Outside
  BY <1>4, <1>5, <1>6, <1>7 DEF Outside
<1> QED
  BY <1>a, <1>1, <1>2, <1>3, <1>7, Effects DEF Effect

LEMMA GiveWayStep ==
    TypeInv /\ BackedInv /\ SeenInv /\ [Next]_vars => \A c \in Cases : GivesWayKnowingly(c)
<1> SUFFICES ASSUME TypeInv, BackedInv, SeenInv, [Next]_vars, NEW c \in Cases
             PROVE  GivesWayKnowingly(c)
  OBVIOUS
<1> USE DEF Rows, Ghost, db, ghost
<1>a. TypeOK
  BY DEF TypeInv
<1>t. /\ intervention \in [Cases -> Intervention] /\ releases \in [Cases -> Nat]
      /\ case \in [Cases -> CaseRow]
  BY <1>a DEF TypeOK
<1>s. /\ {"EXECUTING", "STOPPED", "ESCALATED", "RECOVERED"} \subseteq CaseState
      /\ \A w \in Workers : worker[w].seen \in CaseRow /\ worker[w].result.next \in CaseState
      /\ \A s \in Scanners : scanner[s].seen \in CaseRow
  BY <1>a DEF TypeOK, CaseState, Worker, Result, Scanner
<1>w. ASSUME NEW w \in Workers, worker[w].pc \in Writing, worker[w].case \in Cases,
             NEW next \in CaseState, UpdateWhereVersion(worker[w].case, worker[w].seen, next)
      PROVE  case'[c] # case[c] => worker[w].case = c /\ worker[w].seen = case[c]
  <2>1. case'[c] # case[c] => worker[w].case = c /\ case[c].version = worker[w].seen.version
    BY <1>a, <1>s, <1>w, UpdateEffect
  <2> QED BY <1>w, <2>1 DEF SeenInv, Past
<1>k. ASSUME UNCHANGED case, \A d \in Cases : intervention'[d].status = intervention[d].status
      PROVE  GivesWayKnowingly(c)
  BY <1>k DEF GivesWayKnowingly
<1>1. CASE UNCHANGED <<case, intervention>>
  BY <1>1, <1>k
<1>2. ASSUME NEW w \in Workers, Locks(w) PROVE GivesWayKnowingly(c)
  BY <1>2, <1>t, <1>k DEF Locks, Intervention
<1>3. ASSUME NEW d \in Cases, LockAges(d) PROVE GivesWayKnowingly(c)
  BY <1>3, <1>t, <1>k DEF LockAges, Intervention
<1>4. ASSUME NEW w \in Workers, Prepares(w) PROVE GivesWayKnowingly(c)
  <2>1. intervention[c].status = "SUCCEEDED" => intervention'[c].status = "SUCCEEDED"
    BY <1>4, <1>t DEF Prepares, Intervention
  <2>2. case'[c] # case[c] => worker[w].case = c /\ worker[w].seen = case[c]
    BY <1>4, <1>w, <1>s DEF Prepares, Writing
  <2> QED BY <2>1, <2>2 DEF GivesWayKnowingly
<1>5. ASSUME NEW w \in Workers, Closes(w) PROVE GivesWayKnowingly(c)
  <2>1. PICK next \in {"STOPPED", "ESCALATED"} : UpdateWhereVersion(worker[w].case, worker[w].seen, next)
    BY <1>5 DEF Closes
  <2>2. case'[c] # case[c] => worker[w].case = c /\ worker[w].seen = case[c]
    BY <1>5, <1>w, <1>s, <2>1 DEF Closes
  <2> QED BY <1>5, <2>2 DEF Closes, GivesWayKnowingly
<1>6. ASSUME NEW w \in Workers, Stores(w) PROVE GivesWayKnowingly(c)
  <2>1. outcome[worker[w].case] = "NONE"
    BY <1>6 DEF Stores, BackedInv, StoresFirst
  <2>2. intervention[c].status = "SUCCEEDED" => c # worker[w].case
    BY <2>1 DEF BackedInv, BackedRow
  <2>3. intervention[c].status = "SUCCEEDED" => intervention'[c].status = "SUCCEEDED"
    BY <1>6, <1>t, <2>2 DEF Stores
  <2>4. case'[c] # case[c] => worker[w].case = c /\ worker[w].seen = case[c]
    BY <1>6, <1>w, <1>s DEF Stores, Writing
  <2> QED BY <2>3, <2>4 DEF GivesWayKnowingly
<1>7. ASSUME NEW d \in Cases, PaymentCaptured(d) \/ PaymentRecovered(d) PROVE GivesWayKnowingly(c)
  <2>1. UpdateWhereVersion(d, case[d], "RECOVERED") /\ case[d].state # "RECOVERED"
        /\ UNCHANGED intervention
    BY <1>7 DEF PaymentCaptured, PaymentRecovered, Recover
  <2>2. c # d => case'[c] = case[c]
    BY <1>a, <1>s, <1>t, <2>1, UpdateEffect
  <2> QED BY <2>1, <2>2 DEF GivesWayKnowingly
<1>8. ASSUME NEW s \in Scanners, ScanWrite(s) PROVE GivesWayKnowingly(c)
  <2> PICK d \in Cases : d = scanner[s].case
    BY <1>8 DEF ScanWrite
  <2>1. c = d => releases'[c] > releases[c]
    BY <1>8, <1>t DEF ScanWrite
  <2>2. c # d => intervention'[c] = intervention[c]
    BY <1>8, <1>t DEF ScanWrite
  <2>3. case'[c] # case[c] => scanner[s].case = c /\ scanner[s].seen = case[c]
    <3>1. CASE UNCHANGED case
      BY <3>1
    <3>2. CASE UpdateWhereVersion(d, scanner[s].seen, "ESCALATED")
      <4>1. case'[c] # case[c] => d = c /\ case[c].version = scanner[s].seen.version
        BY <1>a, <1>s, <3>2, UpdateEffect
      <4> QED BY <4>1 DEF SeenInv, Past
    <3> QED BY <1>8, <3>1, <3>2 DEF ScanWrite
  <2> QED BY <2>1, <2>2, <2>3 DEF GivesWayKnowingly
<1>9. CASE Outside
  <2>1. ASSUME NEW s \in Scanners, ScanFind(s) \/ ScanRead(s) \/ ScanFails(s)
        PROVE  GivesWayKnowingly(c)
    BY <2>1, <1>1 DEF ScanFind, ScanRead, ScanFails
  <2>2. ASSUME NEW j \in recon, ReconRead(j) \/ ReconPersist(j)
        PROVE  GivesWayKnowingly(c)
    BY <2>2, <1>1 DEF ReconRead, ReconPersist, BackedInv, ReconBacked
  <2> QED BY <1>3, <1>7, <1>8, <1>9, <2>1, <2>2 DEF Outside, Scan, Reconcile
<1> QED
  BY <1>a, <1>1, <1>2, <1>4, <1>5, <1>6, <1>9, Effects
     DEF Effect, Quiet, Reads, Finds, Calls, Asks

\* A stored success is failed by nobody but the scanner clearing the lock, and a
\* recovered case is overwritten only by somebody who has read it as recovered.
THEOREM OverwritesAreInformed == Spec => NoBlindOverwrite
<1>1. TypeInv /\ BackedInv /\ SeenInv /\ [Next]_vars => [\A c \in Cases : GivesWayKnowingly(c)]_vars
  BY GiveWayStep
<1> QED
  BY <1>1, SeenInit, SeenStep, AlwaysBacked, TypeInvariant, PTL DEF Spec, NoBlindOverwrite
-----------------------------------------------------------------------------
(* LeasedExecution *)

\* Whoever has an answer in hand has called.
CalledInv ==
    \A w \in Workers : worker[w].pc \in {"reconcile", "persist", "persistWrite"} =>
        Len(calls[worker[w].case]) > 0

LEMMA CalledInit == Init => CalledInv
BY DEF Init, CalledInv, IdleWorker

LEMMA CalledStep == TypeOK /\ CalledInv /\ [Next]_vars => CalledInv'
<1> SUFFICES ASSUME TypeOK, CalledInv, [Next]_vars PROVE CalledInv'
  OBVIOUS
<1> USE DEF Rows, Ghost, db, ghost
<1>t. calls \in [Cases -> Seq(Nat)] /\ \A w \in Workers : worker[w].epoch \in Nat
  BY DEF TypeOK, Worker
<1>w. \A w \in Workers : worker[w].pc # "idle" => worker[w].case \in Cases
  BY DEF TypeOK
<1>1. ASSUME UNCHANGED calls, NobodyArrives PROVE CalledInv'
  BY <1>1 DEF CalledInv, NobodyArrives, Watched, Writing, Calling
<1>2. ASSUME UNCHANGED calls, UNCHANGED worker PROVE CalledInv'
  BY <1>2 DEF CalledInv
<1>3. ASSUME UNCHANGED calls, NEW w \in Workers, Others(w),
             worker'[w].pc \in {"reconcile", "persist", "persistWrite"} =>
               /\ worker[w].pc \in {"reconcile", "persist", "persistWrite"}
               /\ worker'[w].case = worker[w].case
      PROVE  CalledInv'
  BY <1>3 DEF CalledInv, Others
<1>4. CASE Quiet
  BY <1>1, <1>4 DEF Quiet
<1>5. CASE Outside
  <2>1. UNCHANGED calls
    BY <1>5 DEF Outside, LockAges, PaymentCaptured, PaymentRecovered, Recover, Scan, ScanFind,
       ScanRead, ScanWrite, ScanFails, Reconcile, ReconRead, ReconPersist
  <2> QED BY <1>2, <1>5, <2>1 DEF Outside
<1>6. ASSUME NEW w \in Workers, Reads(w) PROVE CalledInv'
  BY <1>3, <1>6 DEF Reads, Writing
<1>7. ASSUME NEW w \in Workers, Finds(w) \/ Prepares(w) \/ Locks(w) PROVE CalledInv'
  BY <1>3, <1>7 DEF Finds, Prepares, Locks
<1>8. ASSUME NEW w \in Workers, Closes(w) \/ Stores(w) PROVE CalledInv'
  BY <1>1, <1>8 DEF Closes, Stores
<1>9. ASSUME NEW w \in Workers, Asks(w) PROVE CalledInv'
  BY <1>3, <1>9 DEF Asks
<1>10. ASSUME NEW w \in Workers, Calls(w) PROVE CalledInv'
  <2> DEFINE c == worker[w].case
  <2>1. c \in Cases /\ calls' = [calls EXCEPT ![c] = Append(calls[c], worker[w].epoch)]
    BY <1>10 DEF Calls
  <2>2. Len(Append(calls[c], worker[w].epoch)) = Len(calls[c]) + 1 /\ Len(calls[c]) \in Nat
    BY <1>t, <2>1
  <2>3. /\ calls'[c] = Append(calls[c], worker[w].epoch)
        /\ \A d : d # c => calls'[d] = calls[d]
    BY <1>t, <2>1
  <2>4. ASSUME NEW v \in Workers,
               worker'[v].pc \in {"reconcile", "persist", "persistWrite"}
        PROVE  Len(calls'[worker'[v].case]) > 0
    <3>1. CASE worker'[v].case = c
      BY <2>2, <2>3, <3>1
    <3>2. CASE worker'[v].case # c
      <4>1. v # w
        BY <1>10, <3>2 DEF Calls
      <4>2. worker'[v] = worker[v]
        BY <1>10, <4>1 DEF Calls, Others
      <4> QED BY <2>3, <2>4, <3>2, <4>2 DEF CalledInv
    <3> QED BY <3>1, <3>2
  <2> QED BY <2>4 DEF CalledInv
<1> QED
  BY <1>4, <1>5, <1>6, <1>7, <1>8, <1>9, <1>10, Effects DEF Effect

LEMMA AlwaysCalled == Spec => []CalledInv
BY CalledInit, CalledStep, TypeCorrect, PTL DEF Spec

\* No step moves two workers.
LEMMA OneMoves ==
    ASSUME TypeOK, [Next]_vars
    PROVE  UNCHANGED worker \/ \E w \in Workers : Others(w)
<1> USE DEF db, ghost
<1>1. ASSUME NEW w \in Workers, NEW r, worker' = [worker EXCEPT ![w] = r] PROVE Others(w)
  BY <1>1 DEF Others, TypeOK
<1>m. ASSUME NEW w \in Workers, NEW p, NEW r,
             \/ worker' = [worker EXCEPT ![w].pc = p, ![w].seen = r]
             \/ worker' = [worker EXCEPT ![w].pc = p, ![w].epoch = r]
             \/ worker' = [worker EXCEPT ![w].pc = p, ![w].result = r]
      PROVE  Others(w)
  BY <1>m DEF Others, TypeOK
<1>2. ASSUME NEW w \in Workers, Process(w) \/ Crash(w) \/ CallFails(w) \/ \E c \in Cases : Take(w, c)
      PROVE  Others(w)
  <2>1. ASSUME NEW p, Goto(w, p) \/ Leave(w, p) PROVE Others(w)
    BY <2>1, MoveEffect
  <2>2. CASE ReadCase(w) \/ ReevaluatePolicy(w) \/ FindIntervention(w) \/ Catch(w)
             \/ EnqueueReconciliation(w) \/ CallFails(w)
    BY <2>1, <2>2 DEF ReadCase, ReevaluatePolicy, FindIntervention, Catch, EnqueueReconciliation, CallFails
  <2>3. CASE PrepareWrite(w) \/ PersistWrite(w)
    BY <2>1, <2>3 DEF PrepareWrite, PersistWrite
  <2>4. CASE Settle(w) \/ Crash(w) \/ \E c \in Cases : Take(w, c)
    <3>1. \E r : worker' = [worker EXCEPT ![w] = r]
      BY Zenon, <2>4 DEF Settle, Crash, Take
    <3> QED BY <1>1, <3>1
  <2>5. CASE PrepareRead(w)
    BY <1>m, <2>1, <2>5 DEF PrepareRead
  <2>6. CASE PersistRead(w)
    BY <1>m, <2>1, <2>6 DEF PersistRead
  <2>7. CASE ClaimLock(w)
    BY <1>m, <2>1, <2>7 DEF ClaimLock
  <2>8. CASE CallProvider(w)
    <3>1. \E p, r : worker' = [worker EXCEPT ![w].pc = p, ![w].result = r]
      BY <2>8 DEF CallProvider
    <3> QED BY <1>m, <3>1
  <2>9. ASSUME NEW from, NEW to, NEW done, MarkRead(w, from, to, done) \/ MarkWrite(w, from, to, done)
        PROVE  Others(w)
    BY <1>m, <2>1, <2>9 DEF MarkRead, MarkWrite
  <2>10. CASE MarkForStop(w) \/ MarkForEscalation(w)
    BY <2>9, <2>10 DEF MarkForStop, MarkForEscalation
  <2> QED BY <1>2, <2>2, <2>3, <2>4, <2>5, <2>6, <2>7, <2>8, <2>10 DEF Process
<1>3. CASE \/ \E c \in Cases : StallOrphan(c) \/ StallLive(c) \/ LockAges(c)
                              \/ PaymentCaptured(c) \/ PaymentRecovered(c)
           \/ \E s \in Scanners : Scan(s) \/ ScanFails(s)
           \/ Reconcile \/ UNCHANGED vars
  BY <1>3 DEF StallOrphan, StallLive, Stall, LockAges, PaymentCaptured, PaymentRecovered, Recover,
     Scan, ScanFind, ScanRead, ScanWrite, ScanFails, Reconcile, ReconRead, ReconPersist, vars
<1> QED BY <1>2, <1>3 DEF Next

\* The execution implements LeasedExecution: its initial states are initial states
\* of the lease; claiming the lock acquires, the provider's call uses the permit,
\* whatever else ends a claim abandons it, the scanner expires, the transaction
\* that stores a result stores; every other step changes nothing of it.
THEOREM LeasesKept == Spec => LeaseImplemented
<1> DEFINE lease  == [c \in Cases |-> IF intervention[c].lock = "free" THEN "free" ELSE "taken"]
           permit == [w \in Workers |-> IF worker[w].pc = "call" THEN worker[w].case ELSE Nobody]
           count  == [c \in Cases |-> Len(calls[c])]
<1>1. Init => Lease!Init
  BY DEF Init, Lease!Init, IdleWorker
<1>2. TypeOK /\ BackedInv /\ CalledInv /\ [Next]_vars => [Lease!Next]_(Lease!vars)
  <2> SUFFICES ASSUME TypeOK, BackedInv, CalledInv, [Next]_vars
               PROVE  [Lease!Next]_(Lease!vars)
    OBVIOUS
  <2> USE DEF Rows, Ghost, db, ghost
  <2>t. /\ intervention \in [Cases -> Intervention] /\ outcome \in [Cases -> ResultStatus \cup {"NONE"}]
        /\ worker \in [Workers -> Worker] /\ calls \in [Cases -> Seq(Nat)]
    BY DEF TypeOK
  <2>c. \A w \in Workers : worker[w].pc # "idle" => worker[w].case \in Cases
    BY DEF TypeOK
  <2>n. Nobody \notin Cases
    BY WorkerConstants
  <2>f. \A c \in Cases : lease[c] = IF intervention[c].lock = "free" THEN "free" ELSE "taken"
    OBVIOUS
  <2>p. \A w \in Workers : permit[w] = IF worker[w].pc = "call" THEN worker[w].case ELSE Nobody
    OBVIOUS
  \* Nothing the lease sees.
  <2>s. ASSUME UNCHANGED lease, UNCHANGED permit, UNCHANGED <<count, outcome>>
        PROVE  [Lease!Next]_(Lease!vars)
    BY <2>s DEF Lease!vars
  <2>l. ASSUME \A c \in Cases : intervention'[c].lock = intervention[c].lock
        PROVE  UNCHANGED lease
    BY <2>l
  \* A worker that moves elsewhere gives up its permit, if it has one.
  <2>m. ASSUME NEW w \in Workers, Others(w), worker'[w].pc # "call",
               UNCHANGED lease, UNCHANGED <<calls, outcome>>
        PROVE  [Lease!Next]_(Lease!vars)
    <3>1. permit' = [permit EXCEPT ![w] = Nobody]
      BY <2>m DEF Others
    <3>2. CASE worker[w].pc = "call"
      <4>1. permit[w] \in Cases
        BY <2>c, <2>p, <3>2
      <4>2. Lease!Abandon(w)
        BY <2>m, <3>1, <4>1 DEF Lease!Abandon
      <4> QED BY <4>2 DEF Lease!Next
    <3>3. CASE worker[w].pc # "call"
      <4>1. UNCHANGED permit
        BY <3>1, <3>3
      <4> QED BY <2>m, <2>s, <4>1
    <3> QED BY <3>2, <3>3
  <2>a. ASSUME NobodyArrives, UNCHANGED lease, UNCHANGED <<calls, outcome>>
        PROVE  [Lease!Next]_(Lease!vars)
    <3>1. CASE UNCHANGED worker
      BY <2>a, <2>s, <3>1
    <3>2. ASSUME NEW w \in Workers, Others(w) PROVE [Lease!Next]_(Lease!vars)
      <4>1. CASE worker'[w] = worker[w]
        <5>1. UNCHANGED permit
          BY <3>2, <4>1 DEF Others
        <5> QED BY <2>a, <2>s, <5>1
      <4>2. CASE worker'[w].pc # "call"
        BY <2>a, <2>m, <3>2, <4>2
      <4> QED BY <2>a, <4>1, <4>2 DEF NobodyArrives, Watched, Calling
    <3> QED BY <3>1, <3>2, OneMoves
  <2>1. CASE Quiet
    BY <2>1, <2>a, <2>l DEF Quiet
  <2>2. ASSUME NEW w \in Workers, Reads(w) \/ Finds(w) \/ Asks(w)
        PROVE  [Lease!Next]_(Lease!vars)
    BY <2>2, <2>l, <2>m DEF Reads, Finds, Asks, Writing
  <2>3. ASSUME NEW w \in Workers, Prepares(w) PROVE [Lease!Next]_(Lease!vars)
    <3>1. \A c \in Cases : intervention'[c].lock = intervention[c].lock
      BY <2>3, <2>t DEF Prepares, Intervention
    <3> QED BY <2>3, <2>l, <2>m, <3>1 DEF Prepares
  <2>4. ASSUME NEW w \in Workers, Closes(w) PROVE [Lease!Next]_(Lease!vars)
    BY <2>4, <2>a, <2>l DEF Closes
  <2>5. ASSUME NEW w \in Workers, Locks(w) PROVE [Lease!Next]_(Lease!vars)
    <3>0. PICK c \in Cases : c = worker[w].case
      BY <2>5 DEF Locks
    <3>1. lease[c] = "free" /\ permit[w] = Nobody
      BY <2>5, <3>0 DEF Locks
    <3>2. lease' = [lease EXCEPT ![c] = "taken"]
      BY <2>5, <3>0, <2>t DEF Locks, Intervention
    <3>3. permit' = [permit EXCEPT ![w] = c]
      BY <2>5, <3>0 DEF Locks, Others
    <3>4. UNCHANGED <<count, outcome>>
      BY <2>5 DEF Locks
    <3>5. Lease!Acquire(w, c)
      BY <3>1, <3>2, <3>3, <3>4 DEF Lease!Acquire
    <3> QED BY <3>5 DEF Lease!Next
  <2>6. ASSUME NEW w \in Workers, Calls(w) PROVE [Lease!Next]_(Lease!vars)
    <3> DEFINE c == worker[w].case
    <3>1. c \in Cases /\ permit[w] = c
      BY <2>6 DEF Calls
    <3>2. permit' = [permit EXCEPT ![w] = Nobody]
      BY <2>6 DEF Calls, Others
    <3>3. /\ calls'[c] = Append(calls[c], worker[w].epoch)
          /\ \A d \in Cases : d # c => calls'[d] = calls[d]
      BY <2>6, <2>t DEF Calls
    <3>4. Len(calls'[c]) = Len(calls[c]) + 1
      <4>1. calls[c] \in Seq(Nat) /\ worker[w].epoch \in Nat
        BY <2>t, <3>1 DEF Worker
      <4> QED BY <3>3, <4>1
    <3>5. count' = [count EXCEPT ![c] = count[c] + 1]
      BY <3>1, <3>3, <3>4
    <3>6. UNCHANGED lease /\ UNCHANGED outcome
      BY <2>6 DEF Calls
    <3>7. Lease!Call(w)
      BY <3>1, <3>2, <3>5, <3>6 DEF Lease!Call
    <3> QED BY <3>7 DEF Lease!Next
  <2>7. ASSUME NEW w \in Workers, Stores(w) PROVE [Lease!Next]_(Lease!vars)
    <3> DEFINE c == worker[w].case
               status == worker[w].result.status
    <3>1. c \in Cases /\ outcome' = [outcome EXCEPT ![c] = status]
      BY <2>7 DEF Stores
    <3>2. status \in Lease!Results
      BY <2>t DEF Worker, Result, ResultStatus, Lease!Results
    <3>3. outcome[c] = "NONE" /\ count[c] > 0
      BY <2>7, <3>1 DEF Stores, BackedInv, StoresFirst, CalledInv
    <3>4. UNCHANGED lease
      <4>1. \A d \in Cases : intervention'[d].lock = intervention[d].lock
        BY <2>7, <2>t DEF Stores, Intervention
      <4> QED BY <2>l, <4>1
    <3>5. UNCHANGED permit
      <4>1. CASE UNCHANGED worker
        BY <4>1
      <4>2. ASSUME NEW v \in Workers, Others(v) PROVE UNCHANGED permit
        <5>1. v = w
          BY <2>7, <4>2 DEF Stores, Others
        <5> QED BY <2>7, <4>2, <5>1 DEF Stores, Others
      <4> QED BY <4>1, <4>2, OneMoves
    <3>6. UNCHANGED count
      BY <2>7 DEF Stores
    <3> HIDE DEF status
    <3>7. Lease!Store(c)
      BY <3>1, <3>2, <3>3, <3>4, <3>5, <3>6 DEF Lease!Store
    <3> QED BY <3>1, <3>7 DEF Lease!Next
  <2>8. ASSUME UNCHANGED <<worker, calls, outcome>>,
               \A c \in Cases : (intervention'[c].lock = "free") = (intervention[c].lock = "free")
        PROVE  [Lease!Next]_(Lease!vars)
    BY <2>8, <2>s
  <2>9. CASE Outside
    <3>1. ASSUME NEW c \in Cases, LockAges(c) PROVE [Lease!Next]_(Lease!vars)
      <4>1. \A d \in Cases : (intervention'[d].lock = "free") = (intervention[d].lock = "free")
        BY <3>1, <2>t DEF LockAges, Intervention
      <4> QED BY <2>8, <3>1, <4>1 DEF LockAges
    <3>2. ASSUME NEW c \in Cases, PaymentCaptured(c) \/ PaymentRecovered(c)
          PROVE  [Lease!Next]_(Lease!vars)
      BY <2>8, <3>2 DEF PaymentCaptured, PaymentRecovered, Recover
    <3>3. ASSUME NEW s \in Scanners, ScanFind(s) \/ ScanRead(s) \/ ScanFails(s)
          PROVE  [Lease!Next]_(Lease!vars)
      BY <2>8, <3>3 DEF ScanFind, ScanRead, ScanFails
    <3>4. ASSUME NEW s \in Scanners, ScanWrite(s) PROVE [Lease!Next]_(Lease!vars)
      <4>0. PICK c \in Cases : c = scanner[s].case
        BY <3>4 DEF ScanWrite
      <4>1. UNCHANGED <<worker, calls, outcome>>
        BY <3>4 DEF ScanWrite
      <4>2. intervention'[c].lock = "free" /\ \A d \in Cases : d # c => intervention'[d] = intervention[d]
        BY <2>t, <3>4, <4>0 DEF ScanWrite
      <4>3. CASE lease[c] = "free"
        BY <2>8, <4>1, <4>2, <4>3
      <4>4. CASE lease[c] # "free"
        <5>1. lease[c] = "taken" /\ lease' = [lease EXCEPT ![c] = "free"]
          BY <4>1, <4>2, <4>4
        <5>2. Lease!Expire(c)
          BY <4>1, <5>1 DEF Lease!Expire
        <5> QED BY <5>2 DEF Lease!Next
      <4> QED BY <4>3, <4>4
    <3>5. ASSUME NEW j \in recon, ReconRead(j) \/ ReconPersist(j) PROVE [Lease!Next]_(Lease!vars)
      <4>1. UNCHANGED <<worker, calls, outcome, intervention>>
        BY <3>5 DEF ReconRead, ReconPersist, BackedInv, ReconBacked
      <4> QED BY <2>8, <4>1
    <3> QED BY <2>9, <3>1, <3>2, <3>3, <3>4, <3>5 DEF Outside, Scan, Reconcile
  <2> QED
    BY <2>1, <2>2, <2>3, <2>4, <2>5, <2>6, <2>7, <2>9, Effects DEF Effect
<1> QED
  BY <1>1, <1>2, TypeCorrect, AlwaysBacked, AlwaysCalled, PTL DEF Spec, LeaseImplemented, Lease!Spec
=============================================================================
