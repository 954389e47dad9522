------------------------ MODULE ExecutionWorkerProofs ------------------------
(***************************************************************************)
(* Theorems about ExecutionWorker, for any number of cases, workers and    *)
(* scanners and any bounds.                                                *)
(***************************************************************************)
EXTENDS ExecutionWorker, TLAPS

\* A job that can still run has an attempt left.
JobInv ==
    \A c \in Cases : job[c].status \in {"waiting", "active"}
                        => job[c].attemptsMade < MaxAttempts

TypeInv == TypeOK /\ JobInv

\* What is stored for a provider's answer is well typed.
LEMMA ResultType ==
    ASSUME NEW action \in ActionType, NEW answer \in ProviderOutcomes
    PROVE  [status |-> StatusOf(answer), next |-> NextCaseState(action, answer)] \in Result
<1>1. answer \in {"none", "partial", "full", "rejected", "timeout"}
  BY WorkerConstants
<1>2. QED
  BY <1>1 DEF StatusOf, NextCaseState, Result, ResultStatus, CaseState, ActionType

\* A new record for one worker keeps the type of the workers if it has a case.
LEMMA RecordType ==
    ASSUME TypeOK, NEW w \in Workers, NEW r \in Worker, r.case \in Cases,
           worker' = [worker EXCEPT ![w] = r]
    PROVE  /\ worker' \in [Workers -> Worker]
           /\ \A v \in Workers : worker'[v].pc # "idle" => worker'[v].case \in Cases
BY DEF TypeOK

\* Moving a worker to another program point keeps the type of the workers.
LEMMA GotoType ==
    ASSUME TypeOK, NEW w \in Workers, worker[w].pc # "idle", NEW p \in PC,
           Goto(w, p) \/ Leave(w, p)
    PROVE  /\ worker' \in [Workers -> Worker]
           /\ \A v \in Workers : worker'[v].pc # "idle" => worker'[v].case \in Cases
<1>1. /\ worker \in [Workers -> Worker]
      /\ worker[w].case \in Cases
  BY DEF TypeOK
<1>2. CASE Goto(w, p)
  <2> DEFINE r == [worker[w] EXCEPT !.pc = p]
  <2>1. r \in Worker /\ r.case = worker[w].case
    BY DEF TypeOK, Worker
  <2>2. worker' = [worker EXCEPT ![w] = r]
    BY <1>2 DEF Goto
  <2> HIDE DEF r
  <2>3. QED
    BY <1>1, <2>1, <2>2, RecordType
<1>3. CASE Leave(w, p)
  <2>1. IdleWorker \in [pc : PC, case : {Nobody}, attempt : {0}, seen : CaseRow,
                        result : Result, epoch : Nat]
    BY DEF IdleWorker, NoRow, NoResult, CaseRow, CaseState, Result, ResultStatus, PC
  <2>2. [IdleWorker EXCEPT !.pc = p, !.case = worker[w].case,
                           !.attempt = worker[w].attempt] \in Worker
    BY <1>1, <2>1 DEF Worker
  <2>3. QED
    BY <1>1, <1>3, <2>2 DEF Leave, TypeOK
<1>4. QED
  BY <1>2, <1>3

\* A versioned update keeps the type of the case rows.
LEMMA UpdateType ==
    ASSUME TypeOK, NEW c \in Cases, NEW seen \in CaseRow, NEW next \in CaseState,
           UpdateWhereVersion(c, seen, next)
    PROVE  case' \in [Cases -> CaseRow]
BY DEF TypeOK, UpdateWhereVersion, CaseRow

\* Setting what a worker has read keeps the type of the workers.
LEMMA SeenType ==
    ASSUME TypeOK, NEW w \in Workers, worker[w].pc # "idle", NEW p \in PC,
           NEW c \in Cases,
           worker' = [worker EXCEPT ![w].pc = p, ![w].seen = case[c]]
    PROVE  /\ worker' \in [Workers -> Worker]
           /\ \A v \in Workers : worker'[v].pc # "idle" => worker'[v].case \in Cases
<1>1. /\ worker \in [Workers -> Worker] /\ worker[w] \in Worker
      /\ worker[w].case \in Cases /\ case[c] \in CaseRow
  BY DEF TypeOK
<1> DEFINE r == [worker[w] EXCEPT !.pc = p, !.seen = case[c]]
<1>2. r \in Worker /\ r.case = worker[w].case
  BY <1>1 DEF Worker
<1>3. worker' = [worker EXCEPT ![w] = r]
  BY <1>1
<1> HIDE DEF r
<1>4. QED
  BY <1>1, <1>2, <1>3, RecordType

\* Changing one column of an intervention row keeps the type of the rows.
LEMMA InterventionType ==
    ASSUME TypeOK, NEW c \in Cases, NEW status \in ResultStatus \cup {"NONE", "PENDING"},
           NEW lock \in {"free", "held", "stale"},
           \/ intervention' = [intervention EXCEPT ![c].status = status]
           \/ intervention' = [intervention EXCEPT ![c].lock = lock]
    PROVE  intervention' \in [Cases -> Intervention]
<1>1. intervention \in [Cases -> Intervention]
  BY DEF TypeOK
<1>2. CASE intervention' = [intervention EXCEPT ![c].status = status]
  BY <1>1, <1>2 DEF Intervention
<1>3. CASE intervention' = [intervention EXCEPT ![c].lock = lock]
  BY <1>1, <1>3 DEF Intervention
<1>4. QED
  BY <1>2, <1>3

LEMMA TypeStep == TypeInv /\ [Next]_vars => TypeInv'
<1> SUFFICES ASSUME TypeInv, [Next]_vars PROVE TypeInv'
  OBVIOUS
<1> USE DEF db, ghost
<1>a. TypeOK /\ JobInv
  BY DEF TypeInv
<1>pc. /\ {"read", "policy", "stop", "stopWrite", "find", "prepare", "prepareWrite",
           "claim", "call", "reconcile", "persist", "persistWrite", "catch",
           "escalate", "escalateWrite", "return", "throw"} \subseteq PC
       /\ {"STOPPED", "ESCALATED", "EXECUTING", "FAILED", "RECOVERED"} \subseteq CaseState
  BY DEF PC, CaseState
<1>w. \A w \in Workers : worker[w].pc # "idle"
          => worker[w].case \in Cases /\ worker[w].seen \in CaseRow
  BY <1>a DEF TypeOK, Worker
<1>1. ASSUME NEW w \in Workers, NEW c \in Cases, Take(w, c) PROVE TypeInv'
  <2>1. [IdleWorker EXCEPT !.pc = "read", !.case = c, !.attempt = job[c].attemptsMade] \in Worker
    BY <1>a DEF TypeOK, Job, Worker, IdleWorker, NoRow, NoResult, CaseRow, CaseState, Result,
                ResultStatus, PC
  <2>2. /\ worker' \in [Workers -> Worker]
        /\ \A v \in Workers : worker'[v].pc # "idle" => worker'[v].case \in Cases
    BY <1>a, <1>1, <2>1 DEF Take, TypeOK
  <2>3. job' \in [Cases -> Job] /\ JobInv'
    <3> DEFINE row == [job[c] EXCEPT !.status = "active", !.holder = w]
    <3>1. job \in [Cases -> Job] /\ job[c] \in Job /\ job[c].status = "waiting"
      BY <1>a, <1>1 DEF Take, TypeOK
    <3>2. row \in Job /\ row.attemptsMade = job[c].attemptsMade
      BY <3>1 DEF Job
    <3>3. job' = [job EXCEPT ![c] = row]
      BY <1>1, <3>1 DEF Take
    <3> HIDE DEF row
    <3>4. QED
      BY <1>a, <3>1, <3>2, <3>3 DEF JobInv
  <2>4. QED
    BY <1>a, <1>1, <2>2, <2>3 DEF Take, TypeOK, TypeInv
<1>2. ASSUME NEW w \in Workers, ReadCase(w) PROVE TypeInv'
  BY <1>a, <1>pc, <1>2, GotoType DEF ReadCase, TypeOK, TypeInv, JobInv
<1>3. ASSUME NEW w \in Workers, ReevaluatePolicy(w) PROVE TypeInv'
  <2>1. PICK d \in PolicyOutcomes :
           Goto(w, CASE d = "approved"  -> "find"
                     [] d = "stop"      -> "stop"
                     [] d = "transient" -> "return")
    BY <1>3 DEF ReevaluatePolicy
  <2>2. d \in {"approved", "stop", "transient"}
    BY WorkerConstants
  <2>3. Goto(w, "find") \/ Goto(w, "stop") \/ Goto(w, "return")
    BY <2>1, <2>2
  <2>4. QED
    BY <1>a, <1>pc, <1>3, <2>3, GotoType DEF ReevaluatePolicy, TypeOK, TypeInv, JobInv
<1>4. ASSUME NEW w \in Workers, NEW from \in PC \ {"idle"}, NEW write \in PC, NEW done \in PC,
             MarkRead(w, from, write, done)
      PROVE TypeInv'
  <2>1. worker[w].pc # "idle" /\ worker[w].case \in Cases
    BY <1>4, <1>w DEF MarkRead
  <2>2. /\ worker' \in [Workers -> Worker]
        /\ \A v \in Workers : worker'[v].pc # "idle" => worker'[v].case \in Cases
    BY <1>a, <1>4, <2>1, GotoType, SeenType DEF MarkRead
  <2>3. QED
    BY <1>a, <1>4, <2>2 DEF MarkRead, TypeOK, TypeInv, JobInv
<1>5. ASSUME NEW w \in Workers, NEW from \in PC \ {"idle"}, NEW next \in CaseState,
             NEW done \in PC, MarkWrite(w, from, next, done)
      PROVE TypeInv'
  <2>1. worker[w].pc # "idle" /\ worker[w].case \in Cases /\ worker[w].seen \in CaseRow
    BY <1>5, <1>w DEF MarkWrite
  <2>2. case' \in [Cases -> CaseRow]
    BY <1>a, <1>5, <2>1, UpdateType DEF MarkWrite
  <2>3. /\ worker' \in [Workers -> Worker]
        /\ \A v \in Workers : worker'[v].pc # "idle" => worker'[v].case \in Cases
    BY <1>a, <1>5, <2>1, GotoType DEF MarkWrite
  <2>4. QED
    BY <1>a, <1>5, <2>2, <2>3 DEF MarkWrite, TypeOK, TypeInv, JobInv
<1>6. ASSUME NEW w \in Workers, FindIntervention(w) PROVE TypeInv'
  <2>1. Goto(w, "prepare") \/ Goto(w, "return") \/ Goto(w, "claim")
    BY <1>6 DEF FindIntervention
  <2>2. QED
    BY <1>a, <1>pc, <1>6, <2>1, GotoType DEF FindIntervention, TypeOK, TypeInv, JobInv
<1>7. ASSUME NEW w \in Workers, PrepareRead(w) PROVE TypeInv'
  <2>1. /\ worker' \in [Workers -> Worker]
        /\ \A v \in Workers : worker'[v].pc # "idle" => worker'[v].case \in Cases
    BY <1>a, <1>pc, <1>w, <1>7, GotoType, SeenType DEF PrepareRead
  <2>2. QED
    BY <1>a, <1>7, <2>1 DEF PrepareRead, TypeOK, TypeInv, JobInv
<1>8. ASSUME NEW w \in Workers, PrepareWrite(w) PROVE TypeInv'
  <2>1. /\ worker' \in [Workers -> Worker]
        /\ \A v \in Workers : worker'[v].pc # "idle" => worker'[v].case \in Cases
    BY <1>a, <1>pc, <1>8, GotoType DEF PrepareWrite
  <2>2. case' \in [Cases -> CaseRow]
    BY <1>a, <1>pc, <1>w, <1>8, UpdateType DEF PrepareWrite, TypeOK
  <2>3. intervention' \in [Cases -> Intervention]
    <3>1. CASE intervention' = intervention
      BY <1>a, <3>1 DEF TypeOK
    <3>2. CASE intervention' = [intervention EXCEPT ![worker[w].case].status = "PENDING"]
      BY <1>a, <1>w, <1>8, <3>2, InterventionType DEF PrepareWrite
    <3>3. QED
      BY <1>8, <3>1, <3>2 DEF PrepareWrite
  <2>4. QED
    BY <1>a, <1>8, <2>1, <2>2, <2>3 DEF PrepareWrite, TypeOK, TypeInv, JobInv
<1>9. ASSUME NEW w \in Workers, ClaimLock(w) PROVE TypeInv'
  <2>1. /\ worker' \in [Workers -> Worker]
        /\ \A v \in Workers : worker'[v].pc # "idle" => worker'[v].case \in Cases
    <3>1. CASE Goto(w, "return")
      BY <1>a, <1>pc, <1>9, <3>1, GotoType DEF ClaimLock
    <3>2. CASE worker' = [worker EXCEPT ![w].pc = "call",
                                        ![w].epoch = releases[worker[w].case]]
      <4> DEFINE e == releases[worker[w].case]
      <4>1. worker[w].case \in Cases /\ e \in Nat
        BY <1>a, <1>w, <1>9 DEF ClaimLock, TypeOK
      <4>2. worker' = [worker EXCEPT ![w].pc = "call", ![w].epoch = e]
        BY <3>2
      <4> HIDE DEF e
      <4>3. worker \in [Workers -> Worker] /\ worker[w] \in Worker
        BY <1>a DEF TypeOK
      <4> DEFINE rec == [worker[w] EXCEPT !.pc = "call", !.epoch = e]
      <4>4. rec \in Worker /\ rec.case = worker[w].case
        BY <1>pc, <4>1, <4>3 DEF Worker
      <4>5. worker' = [worker EXCEPT ![w] = rec]
        BY <4>2, <4>3
      <4> HIDE DEF rec
      <4>6. QED
        BY <1>a, <4>1, <4>4, <4>5, RecordType
    <3>3. QED
      BY <1>9, <3>1, <3>2 DEF ClaimLock
  <2>2. intervention' \in [Cases -> Intervention]
    <3>1. CASE intervention' = intervention
      BY <1>a, <3>1 DEF TypeOK
    <3>2. CASE intervention' = [intervention EXCEPT ![worker[w].case].lock = "held"]
      BY <1>a, <1>w, <1>9, <3>2, InterventionType DEF ClaimLock
    <3>3. QED
      BY <1>9, <3>1, <3>2 DEF ClaimLock
  <2>3. QED
    BY <1>a, <1>9, <2>1, <2>2 DEF ClaimLock, TypeOK, TypeInv, JobInv
<1>10. ASSUME NEW w \in Workers, CallProvider(w) PROVE TypeInv'
  <2>1. PICK answer \in ProviderOutcomes :
           worker' = [worker EXCEPT
              ![w].pc = IF StatusOf(answer) = "AMBIGUOUS" THEN "reconcile" ELSE "persist",
              ![w].result = [status |-> StatusOf(answer),
                             next   |-> NextCaseState(plan[worker[w].case], answer)]]
    BY <1>10 DEF CallProvider
  <2>2. plan[worker[w].case] \in ActionType /\ worker[w].case \in Cases
    BY <1>a, <1>w, <1>10 DEF CallProvider, TypeOK
  <2>3. [status |-> StatusOf(answer),
         next   |-> NextCaseState(plan[worker[w].case], answer)] \in Result
    BY <2>2, ResultType
  <2>4. /\ worker' \in [Workers -> Worker]
        /\ \A v \in Workers : worker'[v].pc # "idle" => worker'[v].case \in Cases
    <3> DEFINE p == IF StatusOf(answer) = "AMBIGUOUS" THEN "reconcile" ELSE "persist"
               r == [status |-> StatusOf(answer),
                     next   |-> NextCaseState(plan[worker[w].case], answer)]
    <3>1. p \in PC /\ r \in Result
      BY <1>pc, <2>3
    <3>2. worker' = [worker EXCEPT ![w].pc = p, ![w].result = r]
      BY <2>1
    <3> HIDE DEF p, r
    <3>3. worker \in [Workers -> Worker] /\ worker[w] \in Worker
      BY <1>a DEF TypeOK
    <3> DEFINE rec == [worker[w] EXCEPT !.pc = p, !.result = r]
    <3>4. rec \in Worker /\ rec.case = worker[w].case
      BY <3>1, <3>3 DEF Worker
    <3>5. worker' = [worker EXCEPT ![w] = rec]
      BY <3>2, <3>3
    <3> HIDE DEF rec
    <3>6. QED
      BY <1>a, <2>2, <3>4, <3>5, RecordType
  <2>5. calls' \in [Cases -> Seq(Nat)]
    BY <1>a, <1>10, <2>2 DEF CallProvider, TypeOK, Worker
  <2>6. QED
    BY <1>a, <1>10, <2>4, <2>5 DEF CallProvider, TypeOK, TypeInv, JobInv
<1>11. ASSUME NEW w \in Workers, EnqueueReconciliation(w) PROVE TypeInv'
  <2>1. recon' \subseteq ReconJob
    BY <1>a, <1>w, <1>11 DEF EnqueueReconciliation, TypeOK, ReconJob
  <2>2. QED
    BY <1>a, <1>pc, <1>11, <2>1, GotoType DEF EnqueueReconciliation, TypeOK, TypeInv, JobInv
<1>12. ASSUME NEW w \in Workers, PersistRead(w) PROVE TypeInv'
  <2>1. /\ worker' \in [Workers -> Worker]
        /\ \A v \in Workers : worker'[v].pc # "idle" => worker'[v].case \in Cases
    BY <1>a, <1>pc, <1>w, <1>12, GotoType, SeenType DEF PersistRead
  <2>2. QED
    BY <1>a, <1>12, <2>1 DEF PersistRead, TypeOK, TypeInv, JobInv
<1>13. ASSUME NEW w \in Workers, PersistWrite(w) PROVE TypeInv'
  <2>1. worker[w].result \in Result /\ worker[w].result.next \in CaseState
    BY <1>a DEF TypeOK, Worker, Result
  <2>2. case' \in [Cases -> CaseRow]
    BY <1>a, <1>w, <1>13, <2>1, UpdateType DEF PersistWrite, TypeOK
  <2>3. /\ outcome' \in [Cases -> ResultStatus \cup {"NONE"}]
        /\ intervention' \in [Cases -> Intervention]
    <3>1. worker[w].result.status \in ResultStatus /\ worker[w].case \in Cases
      BY <1>w, <1>13, <2>1 DEF PersistWrite, Result
    <3>2. intervention' \in [Cases -> Intervention]
      BY <1>a, <1>13, <3>1, InterventionType DEF PersistWrite
    <3>3. QED
      BY <1>a, <1>13, <3>1, <3>2 DEF PersistWrite, TypeOK
  <2>4. QED
    BY <1>a, <1>pc, <1>13, <2>2, <2>3, GotoType DEF PersistWrite, TypeOK, TypeInv, JobInv
<1>14. ASSUME NEW w \in Workers, Catch(w) PROVE TypeInv'
  BY <1>a, <1>pc, <1>14, GotoType DEF Catch, TypeOK, TypeInv, JobInv
<1>15. ASSUME NEW w \in Workers, Settle(w) PROVE TypeInv'
  <2>1. IdleWorker \in Worker
    BY WorkerConstants DEF Worker, IdleWorker, NoRow, NoResult, CaseRow, CaseState, Result,
                           ResultStatus, PC
  <2>2. /\ worker' \in [Workers -> Worker]
        /\ \A v \in Workers : worker'[v].pc # "idle" => worker'[v].case \in Cases
    BY <1>a, <1>15, <2>1 DEF Settle, TypeOK, IdleWorker
  <2>3. job' \in [Cases -> Job] /\ JobInv'
    <3> DEFINE c == worker[w].case
               tried == job[c].attemptsMade + 1
    <3>1. c \in Cases /\ job[c] \in Job
      BY <1>a, <1>w, <1>15 DEF Settle, TypeOK
    <3>2. CASE job' = job
      BY <1>a, <3>2 DEF TypeOK, JobInv
    <3>3. CASE job' = [job EXCEPT ![c] =
                 [job[c] EXCEPT !.status = "completed", !.holder = Nobody]]
      <4>1. [job[c] EXCEPT !.status = "completed", !.holder = Nobody] \in Job
        BY <3>1 DEF Job
      <4>2. QED
        BY <1>a, <3>1, <3>3, <4>1 DEF TypeOK, JobInv, Job
    <3>4. CASE /\ job[c].status = "active"
               /\ job' = [job EXCEPT ![c] =
                    [job[c] EXCEPT !.status = IF tried < MaxAttempts THEN "waiting" ELSE "failed",
                              !.holder = Nobody, !.attemptsMade = tried]]
      <4>1. tried \in 0..MaxAttempts
        BY <1>a, <3>1, <3>4, WorkerConstants DEF JobInv, Job
      <4> DEFINE st == IF tried < MaxAttempts THEN "waiting" ELSE "failed"
                 row == [job[c] EXCEPT !.status = st, !.holder = Nobody, !.attemptsMade = tried]
      <4>2. row \in Job
        BY <3>1, <4>1 DEF Job
      <4>3. row.status \in {"waiting", "active"} => row.attemptsMade < MaxAttempts
        BY <3>1 DEF Job
      <4>4. job' = [job EXCEPT ![c] = row]
        BY <3>4
      <4> HIDE DEF row
      <4>5. QED
        BY <1>a, <3>1, <4>2, <4>3, <4>4 DEF TypeOK, JobInv
    <3>5. QED
      BY <1>15, <3>2, <3>3, <3>4 DEF Settle
  <2>4. QED
    BY <1>a, <1>15, <2>2, <2>3 DEF Settle, TypeOK, TypeInv
<1>16. ASSUME NEW w \in Workers, MarkForStop(w) \/ MarkForEscalation(w) PROVE TypeInv'
  BY <1>pc, <1>4, <1>5, <1>16 DEF MarkForStop, MarkForEscalation
<1>17. ASSUME NEW w \in Workers, Crash(w) PROVE TypeInv'
  <2>1. IdleWorker \in Worker
    BY WorkerConstants DEF Worker, IdleWorker, NoRow, NoResult, CaseRow, CaseState, Result,
                           ResultStatus, PC
  <2>2. /\ worker' \in [Workers -> Worker]
        /\ \A v \in Workers : worker'[v].pc # "idle" => worker'[v].case \in Cases
    BY <1>a, <1>17, <2>1 DEF Crash, TypeOK, IdleWorker
  <2>3. faults' \in 0..MaxFaults
    BY <1>a, <1>17, WorkerConstants DEF Crash, Fault, TypeOK
  <2>4. QED
    BY <1>a, <1>17, <2>2, <2>3 DEF Crash, TypeOK, TypeInv, JobInv
<1>18. ASSUME NEW w \in Workers, CallFails(w) PROVE TypeInv'
  <2>1. Leave(w, "return") \/ Leave(w, "throw") \/ Leave(w, "catch")
    BY <1>18 DEF CallFails
  <2>2. faults' \in 0..MaxFaults
    BY <1>a, <1>18, WorkerConstants DEF CallFails, Fault, TypeOK
  <2>3. QED
    BY <1>a, <1>pc, <1>18, <2>1, <2>2, GotoType DEF CallFails, TypeOK, TypeInv, JobInv
<1>19. ASSUME NEW c \in Cases, StallOrphan(c) \/ StallLive(c) PROVE TypeInv'
  <2>1. Stall(c)
    BY <1>19 DEF StallOrphan, StallLive
  <2>2. faults' \in 0..MaxFaults
    BY <1>a, <1>19, WorkerConstants DEF StallOrphan, StallLive, Fault, TypeOK
  <2>3. job' \in [Cases -> Job] /\ JobInv'
    <3>1. job[c] \in Job /\ job[c].status = "active"
      BY <1>a, <2>1 DEF Stall, TypeOK
    <3>2. CASE /\ job[c].stalled < MaxStalled
               /\ job' = [job EXCEPT ![c] =
                    [job[c] EXCEPT !.status = "waiting", !.holder = Nobody,
                                   !.stalled = job[c].stalled + 1]]
      <4> DEFINE row == [job[c] EXCEPT !.status = "waiting", !.holder = Nobody,
                                       !.stalled = job[c].stalled + 1]
      <4>1. job[c].stalled + 1 \in 0..MaxStalled
        BY <3>1, <3>2, WorkerConstants DEF Job
      <4>2. row \in Job /\ row.attemptsMade = job[c].attemptsMade
        BY <3>1, <4>1 DEF Job
      <4>3. job' = [job EXCEPT ![c] = row]
        BY <3>2
      <4> HIDE DEF row
      <4>4. QED
        BY <1>a, <3>1, <4>2, <4>3 DEF TypeOK, JobInv
    <3>3. CASE job' = [job EXCEPT ![c] = [job[c] EXCEPT !.status = "failed", !.holder = Nobody]]
      <4>1. [job[c] EXCEPT !.status = "failed", !.holder = Nobody] \in Job
        BY <3>1 DEF Job
      <4>2. QED
        BY <1>a, <3>1, <3>3, <4>1 DEF TypeOK, JobInv, Job
    <3>4. QED
      BY <2>1, <3>2, <3>3 DEF Stall
  <2>4. QED
    BY <1>a, <2>1, <2>2, <2>3 DEF Stall, TypeOK, TypeInv
<1>20. ASSUME NEW c \in Cases, LockAges(c) PROVE TypeInv'
  <2>1. intervention' \in [Cases -> Intervention]
    BY <1>a, <1>20 DEF LockAges, TypeOK, Intervention
  <2>2. QED
    BY <1>a, <1>20, <2>1 DEF LockAges, TypeOK, TypeInv, JobInv
<1>21. ASSUME NEW s \in Scanners, ScanFind(s) PROVE TypeInv'
  <2>1. scanner' \in [Scanners -> Scanner]
    BY <1>a, <1>21 DEF ScanFind, TypeOK, Scanner, StaleInterventions
  <2>2. QED
    BY <1>a, <1>21, <2>1 DEF ScanFind, TypeOK, TypeInv, JobInv
<1>22. ASSUME NEW s \in Scanners, ScanRead(s) PROVE TypeInv'
  <2>1. scanner' \in [Scanners -> Scanner]
    <3>1. PICK c \in scanner[s].todo :
             scanner' = [scanner EXCEPT ![s].case = c, ![s].seen = case[c]]
      BY <1>22 DEF ScanRead
    <3>2. c \in Cases
      BY <1>a DEF TypeOK, Scanner
    <3>3. case[c] \in CaseRow
      BY <1>a, <3>2 DEF TypeOK
    <3> DEFINE row == [scanner[s] EXCEPT !.case = c, !.seen = case[c]]
    <3>4. scanner \in [Scanners -> Scanner] /\ row \in Scanner
      BY <1>a, <3>2, <3>3 DEF TypeOK, Scanner
    <3>5. scanner' = [scanner EXCEPT ![s] = row]
      BY <3>1, <3>4
    <3> HIDE DEF row
    <3>6. QED
      BY <3>4, <3>5
  <2>2. QED
    BY <1>a, <1>22, <2>1 DEF ScanRead, TypeOK, TypeInv, JobInv
<1>idle. IdleScanner \in Scanner
  BY DEF IdleScanner, Scanner, NoRow, CaseRow, CaseState
<1>23. ASSUME NEW s \in Scanners, ScanWrite(s) PROVE TypeInv'
  <2>1. scanner[s].case \in Cases /\ scanner[s].seen \in CaseRow
    BY <1>a, <1>23 DEF ScanWrite, TypeOK, Scanner
  <2>2. case' \in [Cases -> CaseRow]
    BY <1>a, <1>pc, <1>23, <2>1, UpdateType DEF ScanWrite, TypeOK
  <2>3. intervention' \in [Cases -> Intervention] /\ releases' \in [Cases -> Nat]
    BY <1>a, <1>23 DEF ScanWrite, TypeOK, Intervention, ResultStatus
  <2>4. [IdleScanner EXCEPT !.todo = scanner[s].todo \ {scanner[s].case}] \in Scanner
    BY <1>a, <1>idle DEF TypeOK, Scanner
  <2>5. scanner' \in [Scanners -> Scanner]
    BY <1>a, <1>23, <2>4 DEF ScanWrite, TypeOK
  <2>6. QED
    BY <1>a, <1>23, <2>2, <2>3, <2>5 DEF ScanWrite, TypeOK, TypeInv, JobInv
<1>24. ASSUME NEW s \in Scanners, ScanFails(s) PROVE TypeInv'
  <2>1. scanner' \in [Scanners -> Scanner] /\ faults' \in 0..MaxFaults
    BY <1>a, <1>24, <1>idle, WorkerConstants DEF ScanFails, Fault, TypeOK
  <2>2. QED
    BY <1>a, <1>24, <2>1 DEF ScanFails, TypeOK, TypeInv, JobInv
<1>25. ASSUME NEW j \in recon, ReconRead(j) PROVE TypeInv'
  <2>1. j \in ReconJob /\ [j EXCEPT !.step = "persist"] \in ReconJob
    BY <1>a DEF TypeOK, ReconJob
  <2>2. recon' \subseteq ReconJob
    BY <1>a, <1>25, <2>1 DEF ReconRead, ReconBecomes, TypeOK
  <2>3. QED
    BY <1>a, <1>25, <2>2 DEF ReconRead, TypeOK, TypeInv, JobInv
<1>26. ASSUME NEW j \in recon, ReconPersist(j) PROVE TypeInv'
  <2>1. /\ j \in ReconJob /\ j.case \in Cases
        /\ j.attemptsMade < 2
             => [j EXCEPT !.step = "waiting", !.attemptsMade = @ + 1] \in ReconJob
        /\ [j EXCEPT !.step = "failed"] \in ReconJob
    <3>1. j \in ReconJob
      BY <1>a DEF TypeOK
    <3>2. j.attemptsMade < 2 => j.attemptsMade + 1 \in 0..2
      BY <3>1 DEF ReconJob
    <3>3. QED
      BY <3>1, <3>2 DEF ReconJob
  <2>2. recon' \subseteq ReconJob
    BY <1>a, <1>26, <2>1 DEF ReconPersist, ReconBecomes, TypeOK
  <2>3. case' \in [Cases -> CaseRow]
    BY <1>a, <1>pc, <1>26, <2>1, UpdateType DEF ReconPersist, TypeOK
  <2>4. /\ outcome' \in [Cases -> ResultStatus \cup {"NONE"}]
        /\ intervention' \in [Cases -> Intervention]
    <3>1. CASE UNCHANGED <<case, intervention, outcome>>
      BY <1>a, <3>1 DEF TypeOK
    <3>2. CASE /\ outcome' = [outcome EXCEPT ![j.case] = "FAILED"]
               /\ intervention' = [intervention EXCEPT ![j.case].status = "FAILED"]
      <4>1. "FAILED" \in ResultStatus
        BY DEF ResultStatus
      <4>2. intervention' \in [Cases -> Intervention]
        BY <1>a, <2>1, <3>2, <4>1, InterventionType
      <4>3. QED
        BY <1>a, <2>1, <3>2, <4>1, <4>2 DEF TypeOK
    <3>3. QED
      BY <1>26, <3>1, <3>2 DEF ReconPersist
  <2>5. QED
    BY <1>a, <1>26, <2>2, <2>3, <2>4 DEF ReconPersist, TypeOK, TypeInv, JobInv
<1>27. ASSUME NEW c \in Cases, PaymentCaptured(c) \/ PaymentRecovered(c) PROVE TypeInv'
  <2>1. Recover(c)
    BY <1>27 DEF PaymentCaptured, PaymentRecovered
  <2>2. case' \in [Cases -> CaseRow]
    BY <1>a, <1>pc, <2>1, UpdateType DEF Recover, TypeOK
  <2>3. payments' \in 0..MaxPayments
    BY <1>a, <2>1, WorkerConstants DEF Recover, TypeOK
  <2>4. QED
    BY <1>a, <2>1, <2>2, <2>3 DEF Recover, TypeOK, TypeInv, JobInv
<1>28. CASE UNCHANGED vars
  BY <1>a, <1>28 DEF vars, TypeOK, TypeInv, JobInv
<1>29. QED
  BY <1>1, <1>2, <1>3, <1>6, <1>7, <1>8, <1>9, <1>10, <1>11, <1>12, <1>13, <1>14, <1>15,
     <1>16, <1>17, <1>18, <1>19, <1>20, <1>21, <1>22, <1>23, <1>24, <1>25, <1>26, <1>27, <1>28
     DEF Next, Process, Scan, Reconcile

\* Every variable keeps its type, and a job that can still be delivered has an
\* attempt left, whatever crashes, stalls and retries there are.
LEMMA TypeInvariant == Spec => []TypeInv
<1>1. Init => TypeInv
  BY WorkerConstants DEF Init, TypeInv, TypeOK, JobInv, CaseRow, CaseState, ActionType,
     Intervention, ResultStatus, Job, ReconJob, Worker, IdleWorker, NoRow, NoResult, Result,
     PC, Scanner, IdleScanner
<1>2. QED
  BY <1>1, TypeStep, PTL DEF Spec

\* Type correctness of the worker, the scanner, reconciliation and their rows:
\* no job is tried more often than QUEUE_ATTEMPTS, and no record leaves its type.
THEOREM TypeCorrect == Spec => []TypeOK
<1>1. TypeInv => TypeOK
  BY DEF TypeInv
<1>2. QED
  BY <1>1, TypeInvariant, PTL

-----------------------------------------------------------------------------
(* Provider calls and lock periods *)

\* Period e has been used: it is over, or it is the present one and its lock set.
Used(e, present, lock) == e <= present /\ (e = present => lock # "free")

\* The inductive form of CallsSeparatedByRelease.  A worker about to call the
\* provider owns a used period in which nobody has called and nobody else is
\* about to.
CallsUsed ==
    \A c \in Cases : \A i, j \in 1..Len(calls[c]) :
        /\ Used(calls[c][i], releases[c], intervention[c].lock)
        /\ i # j => calls[c][i] # calls[c][j]

CallersApart ==
    \A w \in Workers : worker[w].pc = "call" =>
        /\ Used(worker[w].epoch, releases[worker[w].case], intervention[worker[w].case].lock)
        /\ \A i \in 1..Len(calls[worker[w].case]) :
              calls[worker[w].case][i] # worker[w].epoch
        /\ \A v \in Workers \ {w} :
              worker[v].pc = "call" /\ worker[v].case = worker[w].case
                  => worker[v].epoch # worker[w].epoch

EpochInv == CallsUsed /\ CallersApart

\* No worker has arrived at program point at.
NoArrival(at) == \A v \in Workers : worker'[v].pc = at => worker'[v] = worker[v]

NoNewCaller == NoArrival("call")

\* No lock has been cleared.
NoRelease == /\ releases' = releases
             /\ \A c \in Cases : intervention[c].lock # "free" => intervention'[c].lock # "free"

\* EpochInv speaks of nothing else.
LEMMA EpochFrame ==
    ASSUME TypeOK, EpochInv, calls' = calls, NoNewCaller, NoRelease
    PROVE  EpochInv'
<1> USE DEF NoNewCaller
<1>1. \A w \in Workers : worker[w].pc = "call" => worker[w].case \in Cases
  BY DEF TypeOK
<1>2. \A c \in Cases : \A e : Used(e, releases[c], intervention[c].lock)
                                => Used(e, releases'[c], intervention'[c].lock)
  BY DEF Used, NoRelease
<1>3. \A c \in Cases : \A i, j \in 1..Len(calls'[c]) :
         /\ Used(calls'[c][i], releases'[c], intervention'[c].lock)
         /\ i # j => calls'[c][i] # calls'[c][j]
  BY <1>2 DEF EpochInv, CallsUsed, CallersApart
<1>4. ASSUME NEW v \in Workers, worker'[v].pc = "call"
        PROVE  /\ Used(worker'[v].epoch, releases'[worker'[v].case],
                       intervention'[worker'[v].case].lock)
               /\ \A i \in 1..Len(calls'[worker'[v].case]) :
                     calls'[worker'[v].case][i] # worker'[v].epoch
               /\ \A u \in Workers \ {v} :
                     worker'[u].pc = "call" /\ worker'[u].case = worker'[v].case
                         => worker'[u].epoch # worker'[v].epoch
  <2>1. worker'[v] = worker[v] /\ worker[v].pc = "call" /\ worker[v].case \in Cases
    BY <1>1, <1>4 DEF NoArrival
  <2>2. Used(worker'[v].epoch, releases'[worker'[v].case], intervention'[worker'[v].case].lock)
    BY <1>2, <2>1 DEF EpochInv, CallsUsed, CallersApart
  <2>3. QED
    BY <2>1, <2>2 DEF EpochInv, CallsUsed, CallersApart, NoArrival
<1>5. QED
  BY <1>3, <1>4 DEF EpochInv, CallsUsed, CallersApart

\* A worker that moves arrives nowhere else.
LEMMA MoveFrame ==
    ASSUME TypeOK, NEW w \in Workers, NEW p, NEW at, p # at, Goto(w, p) \/ Leave(w, p)
    PROVE  NoArrival(at)
<1>1. worker \in [Workers -> Worker]
  BY DEF TypeOK
<1>2. CASE Goto(w, p)
  BY <1>1, <1>2 DEF Goto, Worker, NoArrival
<1>3. CASE Leave(w, p)
  BY <1>1, <1>3 DEF Leave, IdleWorker, NoArrival
<1>4. QED
  BY <1>2, <1>3

LEMMA SeenFrame ==
    ASSUME TypeOK, NEW w \in Workers, NEW p, NEW at, p # at, NEW row,
           worker' = [worker EXCEPT ![w].pc = p, ![w].seen = row]
    PROVE  NoArrival(at)
BY DEF TypeOK, Worker, NoArrival

\* Changing an intervention's status clears no lock.
LEMMA StatusFrame ==
    ASSUME TypeOK, NEW c \in Cases, NEW status, releases' = releases,
           intervention' = [intervention EXCEPT ![c].status = status]
    PROVE  NoRelease
<1>1. intervention \in [Cases -> [status : ResultStatus \cup {"NONE", "PENDING"},
                                  lock   : {"free", "held", "stale"}]]
  BY DEF TypeOK, Intervention
<1>2. \A d \in Cases : intervention'[d].lock = intervention[d].lock
  BY <1>1
<1>3. QED
  BY <1>2 DEF NoRelease

LEMMA EpochStep == TypeInv /\ EpochInv /\ [Next]_vars => EpochInv'
<1> SUFFICES ASSUME TypeInv, EpochInv, [Next]_vars PROVE EpochInv'
  OBVIOUS
<1> USE DEF db, ghost, NoNewCaller
<1>a. TypeOK
  BY DEF TypeInv
<1>w. \A w \in Workers : worker[w].pc # "idle" => worker[w].case \in Cases
  BY <1>a DEF TypeOK
<1>f. ASSUME UNCHANGED <<calls, releases, intervention>>, NoNewCaller PROVE EpochInv'
  BY <1>a, <1>f, EpochFrame DEF NoRelease
<1>u. UNCHANGED worker => NoNewCaller
  BY DEF NoArrival
\* Steps of a worker that only move it.
<1>1. ASSUME NEW w \in Workers, NEW c \in Cases, Take(w, c) PROVE EpochInv'
  <2>1. worker \in [Workers -> Worker]
    BY <1>a DEF TypeOK
  <2>2. NoNewCaller
    BY <1>1, <2>1 DEF Take, IdleWorker, NoArrival
  <2>3. QED
    BY <1>1, <1>f, <2>2 DEF Take
<1>2. ASSUME NEW w \in Workers, ReadCase(w) PROVE EpochInv'
  BY <1>a, <1>f, <1>2, MoveFrame DEF ReadCase
<1>3. ASSUME NEW w \in Workers, ReevaluatePolicy(w) PROVE EpochInv'
  <2>1. PICK d \in PolicyOutcomes :
           Goto(w, CASE d = "approved"  -> "find"
                     [] d = "stop"      -> "stop"
                     [] d = "transient" -> "return")
    BY <1>3 DEF ReevaluatePolicy
  <2>2. d \in {"approved", "stop", "transient"}
    BY WorkerConstants
  <2>3. Goto(w, "find") \/ Goto(w, "stop") \/ Goto(w, "return")
    BY <2>1, <2>2
  <2>4. QED
    BY <1>a, <1>f, <1>3, <2>3, MoveFrame DEF ReevaluatePolicy
<1>4. ASSUME NEW w \in Workers, NEW from, NEW write, NEW done, write # "call", done # "call",
             MarkRead(w, from, write, done)
      PROVE EpochInv'
  BY <1>a, <1>f, <1>4, MoveFrame, SeenFrame DEF MarkRead
<1>5. ASSUME NEW w \in Workers, NEW from, NEW next, NEW done, done # "call",
             MarkWrite(w, from, next, done)
      PROVE EpochInv'
  BY <1>a, <1>f, <1>5, MoveFrame DEF MarkWrite
<1>6. ASSUME NEW w \in Workers, MarkForStop(w) \/ MarkForEscalation(w) PROVE EpochInv'
  BY <1>4, <1>5, <1>6 DEF MarkForStop, MarkForEscalation
<1>7. ASSUME NEW w \in Workers, FindIntervention(w) PROVE EpochInv'
  <2>1. Goto(w, "prepare") \/ Goto(w, "return") \/ Goto(w, "claim")
    BY <1>7 DEF FindIntervention
  <2>2. QED
    BY <1>a, <1>f, <1>7, <2>1, MoveFrame DEF FindIntervention
<1>8. ASSUME NEW w \in Workers, PrepareRead(w) PROVE EpochInv'
  BY <1>a, <1>f, <1>8, MoveFrame, SeenFrame DEF PrepareRead
<1>9. ASSUME NEW w \in Workers, EnqueueReconciliation(w) PROVE EpochInv'
  BY <1>a, <1>f, <1>9, MoveFrame DEF EnqueueReconciliation
<1>10. ASSUME NEW w \in Workers, PersistRead(w) PROVE EpochInv'
  BY <1>a, <1>f, <1>10, MoveFrame, SeenFrame DEF PersistRead
<1>11. ASSUME NEW w \in Workers, Catch(w) PROVE EpochInv'
  BY <1>a, <1>f, <1>11, MoveFrame DEF Catch
<1>12. ASSUME NEW w \in Workers, Settle(w) \/ Crash(w) PROVE EpochInv'
  <2>1. worker \in [Workers -> Worker]
    BY <1>a DEF TypeOK
  <2>2. NoNewCaller
    BY <1>12, <2>1 DEF Settle, Crash, IdleWorker, NoArrival
  <2>3. QED
    BY <1>12, <1>f, <2>2 DEF Settle, Crash
<1>13. ASSUME NEW w \in Workers, CallFails(w) PROVE EpochInv'
  <2>1. Leave(w, "return") \/ Leave(w, "throw") \/ Leave(w, "catch")
    BY <1>13 DEF CallFails
  <2>2. QED
    BY <1>a, <1>f, <1>13, <2>1, MoveFrame DEF CallFails
\* Steps that write the intervention's status.
<1>14. ASSUME NEW w \in Workers, PrepareWrite(w) PROVE EpochInv'
  <2>1. NoNewCaller
    BY <1>a, <1>14, MoveFrame DEF PrepareWrite
  <2>2. CASE UNCHANGED intervention
    BY <1>14, <1>f, <2>1, <2>2 DEF PrepareWrite
  <2>3. CASE intervention' = [intervention EXCEPT ![worker[w].case].status = "PENDING"]
    <3>1. worker[w].case \in Cases /\ UNCHANGED <<calls, releases>>
      BY <1>w, <1>14 DEF PrepareWrite
    <3>2. NoRelease
      BY <1>a, <2>3, <3>1, StatusFrame
    <3>3. QED
      BY <1>a, <2>1, <3>1, <3>2, EpochFrame
  <2>4. QED
    BY <1>14, <2>2, <2>3 DEF PrepareWrite
<1>15. ASSUME NEW w \in Workers, PersistWrite(w) PROVE EpochInv'
  <2>1. NoNewCaller
    BY <1>a, <1>15, MoveFrame DEF PersistWrite
  <2>2. worker[w].case \in Cases /\ UNCHANGED <<calls, releases>>
    BY <1>w, <1>15 DEF PersistWrite
  <2>3. NoRelease
    BY <1>a, <1>15, <2>2, StatusFrame DEF PersistWrite
  <2>4. QED
    BY <1>a, <2>1, <2>2, <2>3, EpochFrame
<1>16. ASSUME NEW j \in recon, ReconRead(j) \/ ReconPersist(j) PROVE EpochInv'
  <2>1. NoNewCaller /\ UNCHANGED <<calls, releases>>
    BY <1>16, <1>u DEF ReconRead, ReconPersist
  <2>2. CASE UNCHANGED intervention
    BY <1>f, <2>1, <2>2
  <2>3. CASE intervention' = [intervention EXCEPT ![j.case].status = "FAILED"]
    <3>1. j.case \in Cases
      BY <1>a DEF TypeOK, ReconJob
    <3>2. NoRelease
      BY <1>a, <2>1, <2>3, <3>1, StatusFrame
    <3>3. QED
      BY <1>a, <2>1, <3>2, EpochFrame
  <2>4. QED
    BY <1>16, <2>2, <2>3 DEF ReconRead, ReconPersist
\* Steps of the lock itself.
<1>17. ASSUME NEW c \in Cases, LockAges(c) PROVE EpochInv'
  <2>1. NoNewCaller /\ UNCHANGED <<calls, releases>>
    BY <1>17, <1>u DEF LockAges
  <2>2. \A d \in Cases : intervention[d].lock # "free" => intervention'[d].lock # "free"
    <3>1. intervention \in [Cases -> Intervention]
      BY <1>a DEF TypeOK
    <3>2. intervention' = [intervention EXCEPT ![c].lock = "stale"]
      BY <1>17 DEF LockAges
    <3>3. QED
      BY <3>1, <3>2 DEF Intervention
  <2>3. QED
    BY <1>a, <2>1, <2>2, EpochFrame DEF NoRelease
<1>18. ASSUME NEW w \in Workers, ClaimLock(w) PROVE EpochInv'
  <2> DEFINE c == worker[w].case
             e == releases[c]
  <2>1. c \in Cases /\ UNCHANGED <<calls, releases>>
    BY <1>w, <1>18 DEF ClaimLock
  <2>2. CASE Goto(w, "return") /\ UNCHANGED intervention
    BY <1>a, <1>f, <2>1, <2>2, MoveFrame
  <2>3. CASE /\ intervention[c].lock = "free"
             /\ intervention' = [intervention EXCEPT ![c].lock = "held"]
             /\ worker' = [worker EXCEPT ![w].pc = "call", ![w].epoch = e]
    <3>1. /\ intervention \in [Cases -> Intervention]
          /\ worker \in [Workers -> Worker]
      BY <1>a DEF TypeOK
    <3>2. /\ \A d \in Cases : intervention[d].lock # "free" => intervention'[d].lock # "free"
          /\ intervention'[c].lock # "free"
      BY <2>1, <2>3, <3>1 DEF Intervention
    <3>3. /\ \A v \in Workers \ {w} : worker'[v] = worker[v]
          /\ worker'[w].pc = "call" /\ worker'[w].case = c /\ worker'[w].epoch = e
      BY <2>3, <3>1 DEF Worker
    <3>4. /\ \A d \in Cases : \A x : Used(x, releases[d], intervention[d].lock)
                                => Used(x, releases'[d], intervention'[d].lock)
          /\ \A x : Used(x, releases[c], intervention[c].lock) => x # e
      BY <2>1, <2>3, <3>2 DEF Used
    <3>5. Used(e, releases'[c], intervention'[c].lock)
      BY <1>a, <2>1, <3>2 DEF Used, TypeOK
    <3>6. \A i \in 1..Len(calls[c]) : calls[c][i] # e
      BY <2>1, <3>4 DEF EpochInv, CallsUsed, CallersApart
    <3>7. \A v \in Workers : worker[v].pc = "call" /\ worker[v].case = c => worker[v].epoch # e
      BY <3>4 DEF EpochInv, CallsUsed, CallersApart
    <3> HIDE DEF c, e
    <3>8. \A d \in Cases : \A i, j \in 1..Len(calls'[d]) :
             /\ Used(calls'[d][i], releases'[d], intervention'[d].lock)
             /\ i # j => calls'[d][i] # calls'[d][j]
      BY <2>1, <3>4 DEF EpochInv, CallsUsed, CallersApart
    <3>9. ASSUME NEW v \in Workers, worker'[v].pc = "call"
          PROVE  /\ Used(worker'[v].epoch, releases'[worker'[v].case],
                         intervention'[worker'[v].case].lock)
                 /\ \A i \in 1..Len(calls'[worker'[v].case]) :
                       calls'[worker'[v].case][i] # worker'[v].epoch
                 /\ \A u \in Workers \ {v} :
                       worker'[u].pc = "call" /\ worker'[u].case = worker'[v].case
                             => worker'[u].epoch # worker'[v].epoch
      <4>1. CASE v = w
        BY <2>1, <3>3, <3>5, <3>6, <3>7, <4>1
      <4>2. CASE v # w
        <5>1. worker'[v] = worker[v] /\ worker[v].pc = "call" /\ worker[v].case \in Cases
          BY <1>w, <3>3, <3>9, <4>2
        <5>2. Used(worker'[v].epoch, releases'[worker'[v].case],
                   intervention'[worker'[v].case].lock)
          BY <3>4, <5>1 DEF EpochInv, CallsUsed, CallersApart
        <5>3. QED
          BY <2>1, <3>3, <3>7, <5>1, <5>2 DEF EpochInv, CallsUsed, CallersApart
      <4>3. QED
        BY <4>1, <4>2
    <3>10. CallsUsed'
      BY <3>8 DEF CallsUsed
    <3>11. CallersApart'
      BY <3>9 DEF CallersApart
    <3>12. QED
      BY <3>10, <3>11 DEF EpochInv
  <2>4. QED
    BY <1>18, <2>2, <2>3 DEF ClaimLock
<1>19. ASSUME NEW s \in Scanners, ScanWrite(s) PROVE EpochInv'
  <2> DEFINE c == scanner[s].case
  <2>1. /\ c \in Cases /\ UNCHANGED <<calls, worker>>
        /\ releases' = [releases EXCEPT ![c] = @ + 1]
        /\ intervention' = [intervention EXCEPT ![c] = [status |-> "FAILED", lock |-> "free"]]
    BY <1>19 DEF ScanWrite
  <2>2. /\ \A d \in Cases \ {c} : releases'[d] = releases[d] /\ intervention'[d] = intervention[d]
        /\ releases'[c] = releases[c] + 1 /\ releases[c] \in Nat
    BY <1>a, <2>1 DEF TypeOK
  <2> HIDE DEF c
  <2>3. \A d \in Cases : \A x \in Nat : Used(x, releases[d], intervention[d].lock)
                                => Used(x, releases'[d], intervention'[d].lock)
    BY <2>1, <2>2 DEF Used
  <2>4. /\ \A d \in Cases : \A i \in 1..Len(calls[d]) : calls[d][i] \in Nat
        /\ \A w \in Workers : worker[w].epoch \in Nat
    BY <1>a DEF TypeOK, Worker
  <2>5. QED
    BY <1>w, <2>1, <2>3, <2>4 DEF EpochInv, CallsUsed, CallersApart
\* The provider call moves a period from the caller to the calls.
<1>20. ASSUME NEW w \in Workers, CallProvider(w) PROVE EpochInv'
  <2> DEFINE c == worker[w].case
             e == worker[w].epoch
  <2>1. /\ c \in Cases /\ worker[w].pc = "call" /\ UNCHANGED <<releases, intervention>>
        /\ calls' = [calls EXCEPT ![c] = Append(calls[c], e)]
    BY <1>w, <1>20 DEF CallProvider
  <2>2. /\ calls[c] \in Seq(Nat) /\ e \in Nat
        /\ calls'[c] = Append(calls[c], e)
        /\ \A d \in Cases \ {c} : calls'[d] = calls[d]
    BY <1>a, <2>1 DEF TypeOK, Worker
  <2>3. /\ \A v \in Workers \ {w} : worker'[v] = worker[v]
        /\ worker'[w].pc # "call"
    <3>1. PICK answer \in ProviderOutcomes :
             worker' = [worker EXCEPT
                ![w].pc = IF StatusOf(answer) = "AMBIGUOUS" THEN "reconcile" ELSE "persist",
                ![w].result = [status |-> StatusOf(answer),
                               next   |-> NextCaseState(plan[worker[w].case], answer)]]
      BY <1>20 DEF CallProvider
    <3> DEFINE p == IF StatusOf(answer) = "AMBIGUOUS" THEN "reconcile" ELSE "persist"
               r == [status |-> StatusOf(answer),
                     next   |-> NextCaseState(plan[worker[w].case], answer)]
    <3>2. p # "call" /\ worker' = [worker EXCEPT ![w].pc = p, ![w].result = r]
      BY <3>1
    <3> HIDE DEF p, r
    <3>3. QED
      BY <1>a, <3>2 DEF TypeOK, Worker
  <2>4. \A d \in Cases : \A x : Used(x, releases[d], intervention[d].lock)
                                => Used(x, releases'[d], intervention'[d].lock)
    BY <2>1 DEF Used
  <2>5. /\ Used(e, releases[c], intervention[c].lock)
        /\ \A i \in 1..Len(calls[c]) : calls[c][i] # e
        /\ \A v \in Workers \ {w} : worker[v].pc = "call" /\ worker[v].case = c
                                       => worker[v].epoch # e
    BY <2>1 DEF EpochInv, CallsUsed, CallersApart
  <2> HIDE DEF c, e
  <2>6. /\ Len(calls'[c]) = Len(calls[c]) + 1 /\ Len(calls[c]) \in Nat
        /\ \A i \in 1..Len(calls[c]) : calls'[c][i] = calls[c][i]
        /\ calls'[c][Len(calls[c]) + 1] = e
    BY <2>2
  <2>7. \A i \in 1..Len(calls'[c]) : i \in 1..Len(calls[c]) \/ i = Len(calls[c]) + 1
    BY <2>6
  <2>8. \A i, j \in 1..Len(calls'[c]) :
           /\ Used(calls'[c][i], releases'[c], intervention'[c].lock)
           /\ i # j => calls'[c][i] # calls'[c][j]
    BY <2>1, <2>4, <2>5, <2>6, <2>7 DEF EpochInv, CallsUsed, CallersApart
  <2>9. \A d \in Cases : \A i, j \in 1..Len(calls'[d]) :
           /\ Used(calls'[d][i], releases'[d], intervention'[d].lock)
           /\ i # j => calls'[d][i] # calls'[d][j]
    <3>1. \A d \in Cases \ {c} : \A i, j \in 1..Len(calls'[d]) :
             /\ Used(calls'[d][i], releases'[d], intervention'[d].lock)
             /\ i # j => calls'[d][i] # calls'[d][j]
      <4>1. \A d \in Cases \ {c} : calls'[d] = calls[d] /\ releases'[d] = releases[d]
                                     /\ intervention'[d] = intervention[d]
        BY <2>1, <2>2
      <4>2. QED
        BY <4>1 DEF EpochInv, CallsUsed
    <3>2. \A d \in Cases : d = c \/ d \in Cases \ {c}
      OBVIOUS
    <3>3. QED
      BY <2>8, <3>1, <3>2, Zenon
  <2>10. ASSUME NEW v \in Workers, worker'[v].pc = "call"
         PROVE  /\ Used(worker'[v].epoch, releases'[worker'[v].case],
                        intervention'[worker'[v].case].lock)
                /\ \A i \in 1..Len(calls'[worker'[v].case]) :
                      calls'[worker'[v].case][i] # worker'[v].epoch
                /\ \A u \in Workers \ {v} :
                      worker'[u].pc = "call" /\ worker'[u].case = worker'[v].case
                          => worker'[u].epoch # worker'[v].epoch
    <3>1. v # w /\ worker'[v] = worker[v] /\ worker[v].pc = "call" /\ worker[v].case \in Cases
      BY <1>w, <2>3, <2>10
    <3>2. Used(worker'[v].epoch, releases'[worker'[v].case],
                        intervention'[worker'[v].case].lock)
      BY <2>4, <3>1 DEF EpochInv, CallsUsed, CallersApart
    <3>3. \A i \in 1..Len(calls'[worker'[v].case]) :
             calls'[worker'[v].case][i] # worker'[v].epoch
      <4>1. CASE worker[v].case = c
        <5>1. worker[v].epoch # e
          BY <2>5, <3>1, <4>1
        <5>2. \A i \in 1..Len(calls[c]) : calls[c][i] # worker[v].epoch
          BY <3>1, <4>1 DEF EpochInv, CallersApart
        <5>3. QED
          BY <2>6, <2>7, <3>1, <4>1, <5>1, <5>2
      <4>2. CASE worker[v].case # c
        BY <2>2, <3>1, <4>2 DEF EpochInv, CallsUsed, CallersApart
      <4>3. QED
        BY <4>1, <4>2
    <3>4. QED
      BY <2>3, <3>1, <3>2, <3>3 DEF EpochInv, CallsUsed, CallersApart
  <2>11. QED
    BY <2>9, <2>10 DEF EpochInv, CallsUsed, CallersApart
\* Steps of the others.
<1>21. ASSUME NEW c \in Cases, StallOrphan(c) \/ StallLive(c) PROVE EpochInv'
  BY <1>f, <1>u, <1>21 DEF StallOrphan, StallLive, Stall
<1>22. ASSUME NEW s \in Scanners, ScanFind(s) \/ ScanRead(s) \/ ScanFails(s) PROVE EpochInv'
  BY <1>f, <1>u, <1>22 DEF ScanFind, ScanRead, ScanFails
<1>23. ASSUME NEW c \in Cases, PaymentCaptured(c) \/ PaymentRecovered(c) PROVE EpochInv'
  BY <1>f, <1>u, <1>23 DEF PaymentCaptured, PaymentRecovered, Recover
<1>24. CASE UNCHANGED vars
  BY <1>f, <1>u, <1>24 DEF vars
<1>25. QED
  BY <1>1, <1>2, <1>3, <1>6, <1>7, <1>8, <1>9, <1>10, <1>11, <1>12, <1>13, <1>14, <1>15,
     <1>16, <1>17, <1>18, <1>19, <1>20, <1>21, <1>22, <1>23, <1>24
     DEF Next, Process, Scan, Reconcile

\* Two provider calls for one intervention are always separated by a lock the
\* scanner cleared: the guard of claimExecutionLock is enough for that, for any
\* number of workers, redeliveries, crashes and stalls.
THEOREM CallsSeparated == Spec => []CallsSeparatedByRelease
<1>1. Init => EpochInv
  BY DEF Init, EpochInv, CallsUsed, CallersApart, IdleWorker
<1>2. TypeInv /\ EpochInv => CallsSeparatedByRelease
  BY DEF EpochInv, CallsUsed, CallersApart, Used, CallsSeparatedByRelease
<1>3. QED
  BY <1>1, <1>2, EpochStep, TypeInvariant, PTL DEF Spec

-----------------------------------------------------------------------------
(* Case rows and their versions *)

\* What prepareInterventionForExecution has read is an older version of the row
\* or the row itself.
PrepareInv ==
    \A w \in Workers : worker[w].pc = "prepareWrite" =>
        LET row == case[worker[w].case] IN
        /\ worker[w].seen.version <= row.version
        /\ worker[w].seen.version = row.version => worker[w].seen = row

\* A versioned update to another state than QUEUED.
LEMMA UpdateVersioned ==
    ASSUME TypeOK, NEW c \in Cases, NEW seen \in CaseRow, NEW next \in CaseState \ {"QUEUED"},
           UpdateWhereVersion(c, seen, next),
           next = "EXECUTING" /\ case[c].version = seen.version => case[c].state = "QUEUED"
    PROVE  VersionedWrites
BY DEF TypeOK, CaseRow, UpdateWhereVersion, VersionedWrites

LEMMA VersionStep == TypeInv /\ PrepareInv /\ [Next]_vars => VersionedWrites
<1> SUFFICES ASSUME TypeInv, PrepareInv, [Next]_vars PROVE VersionedWrites
  OBVIOUS
<1> USE DEF db, ghost
<1>a. TypeOK
  BY DEF TypeInv
<1>s. {"STOPPED", "ESCALATED", "EXECUTING", "FAILED", "RECOVERED"} \subseteq CaseState \ {"QUEUED"}
  BY DEF CaseState
<1>w. \A w \in Workers : worker[w].pc # "idle"
          => worker[w].case \in Cases /\ worker[w].seen \in CaseRow
  BY <1>a DEF TypeOK, Worker
<1>u. UNCHANGED case => VersionedWrites
  BY DEF VersionedWrites
<1>1. ASSUME NEW w \in Workers, NEW from \in PC \ {"idle"}, NEW done,
             NEW next \in {"STOPPED", "ESCALATED"}, MarkWrite(w, from, next, done)
      PROVE VersionedWrites
  <2>1. worker[w].case \in Cases /\ worker[w].seen \in CaseRow
    BY <1>1, <1>w DEF MarkWrite
  <2>2. QED
    BY <1>a, <1>s, <1>1, <2>1, UpdateVersioned DEF MarkWrite
<1>2. ASSUME NEW w \in Workers, MarkForStop(w) \/ MarkForEscalation(w) PROVE VersionedWrites
  <2>1. "stopWrite" \in PC /\ "escalateWrite" \in PC
    BY DEF PC
  <2>2. QED
    BY <1>1, <1>2, <1>u, <2>1 DEF MarkForStop, MarkForEscalation, MarkRead
<1>3. ASSUME NEW w \in Workers, PrepareWrite(w) PROVE VersionedWrites
  <2> DEFINE c == worker[w].case
             seen == worker[w].seen
  <2>1. c \in Cases /\ seen \in CaseRow
    BY <1>3, <1>w DEF PrepareWrite
  <2>2. CASE UNCHANGED case
    BY <1>u, <2>2
  <2>3. CASE seen.state = "QUEUED" /\ UpdateWhereVersion(c, seen, "EXECUTING")
    <3>1. case[c].version = seen.version => case[c].state = "QUEUED"
      BY <1>3, <2>3 DEF PrepareWrite, PrepareInv
    <3>2. QED
      BY <1>a, <1>s, <2>1, <2>3, <3>1, UpdateVersioned
  <2>4. QED
    BY <1>3, <2>2, <2>3 DEF PrepareWrite
<1>4. ASSUME NEW w \in Workers, PersistWrite(w) PROVE VersionedWrites
  <2> DEFINE c == worker[w].case
             seen == worker[w].seen
             next == worker[w].result.next
  <2>1. c \in Cases /\ seen \in CaseRow
    BY <1>4, <1>w DEF PersistWrite
  <2>2. next \in CaseState \ {"QUEUED"} /\ next # "EXECUTING"
    BY <1>a DEF TypeOK, Worker, Result
  <2>3. CASE UNCHANGED case
    BY <1>u, <2>3
  <2>4. CASE UpdateWhereVersion(c, seen, next)
    <3> HIDE DEF c, seen, next
    <3>1. QED
      BY <1>a, <2>1, <2>2, <2>4, UpdateVersioned
  <2>5. QED
    BY <1>4, <2>3, <2>4 DEF PersistWrite
<1>5. ASSUME NEW s \in Scanners, ScanWrite(s) PROVE VersionedWrites
  <2>1. scanner[s].case \in Cases /\ scanner[s].seen \in CaseRow
    BY <1>a, <1>5 DEF ScanWrite, TypeOK, Scanner
  <2>2. QED
    BY <1>a, <1>s, <1>u, <1>5, <2>1, UpdateVersioned DEF ScanWrite
<1>6. ASSUME NEW c \in Cases, NEW next \in {"FAILED", "RECOVERED"},
             UpdateWhereVersion(c, case[c], next)
      PROVE VersionedWrites
  BY <1>a, <1>s, <1>6, UpdateVersioned DEF TypeOK
<1>7. ASSUME NEW j \in recon, ReconRead(j) \/ ReconPersist(j) PROVE VersionedWrites
  <2>1. j.case \in Cases
    BY <1>a DEF TypeOK, ReconJob
  <2>2. UNCHANGED case \/ UpdateWhereVersion(j.case, case[j.case], "FAILED")
    BY <1>7 DEF ReconRead, ReconPersist
  <2>3. QED
    BY <1>u, <1>6, <2>1, <2>2
<1>8. ASSUME NEW c \in Cases, PaymentCaptured(c) \/ PaymentRecovered(c) PROVE VersionedWrites
  BY <1>6, <1>8 DEF PaymentCaptured, PaymentRecovered, Recover
<1>9. ASSUME NEW w \in Workers,
             \/ ReadCase(w) \/ ReevaluatePolicy(w) \/ FindIntervention(w) \/ PrepareRead(w)
             \/ ClaimLock(w) \/ CallProvider(w) \/ EnqueueReconciliation(w) \/ PersistRead(w)
             \/ Catch(w) \/ Settle(w) \/ Crash(w) \/ CallFails(w)
             \/ \E c \in Cases : Take(w, c)
      PROVE VersionedWrites
  BY <1>u, <1>9 DEF ReadCase, ReevaluatePolicy, FindIntervention, PrepareRead, ClaimLock,
     CallProvider, EnqueueReconciliation, PersistRead, Catch, Settle, Crash, CallFails, Take
<1>10. ASSUME NEW c \in Cases, StallOrphan(c) \/ StallLive(c) \/ LockAges(c)
       PROVE VersionedWrites
  BY <1>u, <1>10 DEF StallOrphan, StallLive, Stall, LockAges
<1>11. ASSUME NEW s \in Scanners, ScanFind(s) \/ ScanRead(s) \/ ScanFails(s)
       PROVE VersionedWrites
  BY <1>u, <1>11 DEF ScanFind, ScanRead, ScanFails
<1>12. CASE UNCHANGED vars
  BY <1>u, <1>12 DEF vars
<1>13. QED
  BY <1>2, <1>3, <1>4, <1>5, <1>7, <1>8, <1>9, <1>10, <1>11, <1>12
     DEF Next, Process, Scan, Reconcile

\* PrepareInv survives every versioned write, unless a worker has just read.
LEMMA PrepareFrame ==
    ASSUME TypeOK, TypeOK', PrepareInv, VersionedWrites, NoArrival("prepareWrite")
    PROVE  PrepareInv'
<1> SUFFICES ASSUME NEW w \in Workers, worker'[w].pc = "prepareWrite"
             PROVE  /\ worker'[w].seen.version <= case'[worker'[w].case].version
                    /\ worker'[w].seen.version = case'[worker'[w].case].version
                          => worker'[w].seen = case'[worker'[w].case]
  BY DEF PrepareInv
<1> DEFINE c == worker[w].case
           seen == worker[w].seen
<1>1. worker'[w] = worker[w] /\ worker[w].pc = "prepareWrite"
  BY DEF NoArrival
<1>2. c \in Cases /\ seen.version \in Nat /\ case[c].version \in Nat
  BY <1>1 DEF TypeOK, Worker, CaseRow
<1>3. /\ seen.version <= case[c].version
      /\ seen.version = case[c].version => seen = case[c]
  BY <1>1 DEF PrepareInv
<1>4. case'[c] = case[c] \/ case'[c].version = case[c].version + 1
  BY <1>2 DEF VersionedWrites
<1> HIDE DEF c, seen
<1>5. /\ seen.version <= case'[c].version
      /\ seen.version = case'[c].version => seen = case'[c]
  BY <1>2, <1>3, <1>4
<1>6. QED
  BY <1>1, <1>5 DEF c, seen

LEMMA PrepareStep == TypeInv /\ TypeInv' /\ PrepareInv /\ [Next]_vars => PrepareInv'
<1> SUFFICES ASSUME TypeInv, TypeInv', PrepareInv, [Next]_vars PROVE PrepareInv'
  OBVIOUS
<1> USE DEF db, ghost
<1>a. TypeOK /\ TypeOK'
  BY DEF TypeInv
<1>f. ASSUME NoArrival("prepareWrite") PROVE PrepareInv'
  BY <1>a, <1>f, VersionStep, PrepareFrame
<1>u. ASSUME UNCHANGED worker PROVE PrepareInv'
  BY <1>f, <1>u DEF NoArrival
<1>m. ASSUME NEW w \in Workers, NEW p, p # "prepareWrite", Goto(w, p) \/ Leave(w, p)
      PROVE PrepareInv'
  BY <1>a, <1>f, <1>m, MoveFrame
<1>n. ASSUME NEW w \in Workers, NEW row, row.pc # "prepareWrite",
             worker' = [worker EXCEPT ![w] = row]
      PROVE PrepareInv'
  BY <1>a, <1>f, <1>n DEF TypeOK, NoArrival
<1>1. ASSUME NEW w \in Workers, NEW c \in Cases, Take(w, c) PROVE PrepareInv'
  BY <1>1, <1>n DEF Take, IdleWorker
<1>2. ASSUME NEW w \in Workers, Settle(w) \/ Crash(w) PROVE PrepareInv'
  BY <1>2, <1>n DEF Settle, Crash, IdleWorker
<1>3. ASSUME NEW w \in Workers, NEW from, NEW write, NEW done, write # "prepareWrite",
             done # "prepareWrite", MarkRead(w, from, write, done)
      PROVE PrepareInv'
  BY <1>a, <1>f, <1>m, <1>3, SeenFrame DEF MarkRead
<1>4. ASSUME NEW w \in Workers, MarkForStop(w) \/ MarkForEscalation(w) PROVE PrepareInv'
  BY <1>m, <1>3, <1>4 DEF MarkForStop, MarkForEscalation, MarkWrite
<1>5. ASSUME NEW w \in Workers,
             \/ ReadCase(w) \/ FindIntervention(w) \/ PrepareWrite(w) \/ PersistWrite(w)
             \/ EnqueueReconciliation(w) \/ Catch(w) \/ CallFails(w)
      PROVE PrepareInv'
  BY <1>m, <1>5 DEF ReadCase, FindIntervention, PrepareWrite, PersistWrite,
     EnqueueReconciliation, Catch, CallFails
<1>6. ASSUME NEW w \in Workers, ReevaluatePolicy(w) PROVE PrepareInv'
  <2>1. PICK d \in PolicyOutcomes :
           Goto(w, CASE d = "approved"  -> "find"
                     [] d = "stop"      -> "stop"
                     [] d = "transient" -> "return")
    BY <1>6 DEF ReevaluatePolicy
  <2>2. d \in {"approved", "stop", "transient"}
    BY WorkerConstants
  <2>3. QED
    BY <1>m, <2>1, <2>2
<1>7. ASSUME NEW w \in Workers, PrepareRead(w) PROVE PrepareInv'
  <2>1. CASE Goto(w, "claim")
    BY <1>m, <2>1
  <2>2. CASE worker' = [worker EXCEPT ![w].pc = "prepareWrite",
                                      ![w].seen = case[worker[w].case]]
    <3>1. worker \in [Workers -> Worker] /\ UNCHANGED case
      BY <1>a, <1>7 DEF TypeOK, PrepareRead
    <3>2. worker'[w].seen = case[worker[w].case] /\ worker'[w].case = worker[w].case
      BY <2>2, <3>1 DEF Worker
    <3>3. worker[w].case \in Cases
      BY <1>a, <1>7 DEF TypeOK, PrepareRead
    <3>4. case[worker[w].case].version \in Nat
      BY <1>a, <3>3 DEF TypeOK, CaseRow
    <3>5. \A v \in Workers \ {w} : worker'[v] = worker[v]
      BY <2>2, <3>1
    <3>6. QED
      BY <3>1, <3>2, <3>4, <3>5 DEF PrepareInv
  <2>3. QED
    BY <1>7, <2>1, <2>2 DEF PrepareRead
<1>8. ASSUME NEW w \in Workers, ClaimLock(w) PROVE PrepareInv'
  <2>1. CASE Goto(w, "return")
    BY <1>m, <2>1
  <2>2. CASE worker' = [worker EXCEPT ![w].pc = "call",
                                      ![w].epoch = releases[worker[w].case]]
    <3> DEFINE e == releases[worker[w].case]
    <3>1. worker' = [worker EXCEPT ![w].pc = "call", ![w].epoch = e]
      BY <2>2
    <3> HIDE DEF e
    <3>2. NoArrival("prepareWrite")
      BY <1>a, <3>1 DEF TypeOK, Worker, NoArrival
    <3>3. QED
      BY <1>f, <3>2
  <2>3. QED
    BY <1>8, <2>1, <2>2 DEF ClaimLock
<1>9. ASSUME NEW w \in Workers, CallProvider(w) PROVE PrepareInv'
  <2>1. PICK answer \in ProviderOutcomes :
           worker' = [worker EXCEPT
              ![w].pc = IF StatusOf(answer) = "AMBIGUOUS" THEN "reconcile" ELSE "persist",
              ![w].result = [status |-> StatusOf(answer),
                             next   |-> NextCaseState(plan[worker[w].case], answer)]]
    BY <1>9 DEF CallProvider
  <2> DEFINE p == IF StatusOf(answer) = "AMBIGUOUS" THEN "reconcile" ELSE "persist"
             r == [status |-> StatusOf(answer),
                   next   |-> NextCaseState(plan[worker[w].case], answer)]
  <2>2. p # "prepareWrite" /\ worker' = [worker EXCEPT ![w].pc = p, ![w].result = r]
    BY <2>1
  <2> HIDE DEF p, r
  <2>3. NoArrival("prepareWrite")
    BY <1>a, <2>2 DEF TypeOK, Worker, NoArrival
  <2>4. QED
    BY <1>f, <2>3
<1>10. ASSUME NEW w \in Workers, PersistRead(w) PROVE PrepareInv'
  BY <1>a, <1>f, <1>m, <1>10, SeenFrame DEF PersistRead
<1>11. ASSUME NEW c \in Cases, \/ StallOrphan(c) \/ StallLive(c) \/ LockAges(c)
                               \/ PaymentCaptured(c) \/ PaymentRecovered(c)
       PROVE PrepareInv'
  BY <1>u, <1>11 DEF StallOrphan, StallLive, Stall, LockAges, PaymentCaptured,
     PaymentRecovered, Recover
<1>12. ASSUME NEW s \in Scanners, Scan(s) \/ ScanFails(s) PROVE PrepareInv'
  BY <1>u, <1>12 DEF Scan, ScanFind, ScanRead, ScanWrite, ScanFails
<1>13. CASE Reconcile
  BY <1>u, <1>13 DEF Reconcile, ReconRead, ReconPersist
<1>14. CASE UNCHANGED vars
  BY <1>u, <1>14 DEF vars
<1>15. QED
  BY <1>1, <1>2, <1>4, <1>5, <1>6, <1>7, <1>8, <1>9, <1>10, <1>11, <1>12, <1>13, <1>14
     DEF Next, Process

\* Optimistic concurrency as the code practises it: whoever writes a case row,
\* worker, scanner, reconciliation or webhook, moves its version on by one, and
\* EXECUTING is only ever entered from QUEUED.
THEOREM WritesAreVersioned == Spec => CaseWritesAreVersioned
<1>1. Init => PrepareInv
  BY DEF Init, PrepareInv, IdleWorker
<1>2. TypeInv /\ PrepareInv /\ [Next]_vars => [VersionedWrites]_vars
  BY VersionStep
<1>3. QED
  BY <1>1, <1>2, PrepareStep, TypeInvariant, PTL DEF Spec, CaseWritesAreVersioned
=============================================================================
