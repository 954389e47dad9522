------------------------ MODULE WebhookIngestionProofs ------------------------
(***************************************************************************)
(* Events are neither lost nor taken twice, for any number of events,      *)
(* requests, queue workers, cases and faults.                              *)
(***************************************************************************)
EXTENDS WebhookIngestion, TLAPS

-----------------------------------------------------------------------------
(* Rows *)

\* Every row there is has been logged.
RowsLogged == \A c \in 1..Len(case) : <<c, case[c].version, case[c].state>> \in log

\* Writing a row leaves the others alone and takes the next version.
LEMMA WriteRow ==
    ASSUME case \in Seq(Row), log \subseteq Nat \X Nat \X CaseState,
           NEW c \in 1..Len(case), NEW next \in CaseState, WriteCase(c, next)
    PROVE  /\ case' \in Seq(Row) /\ Len(case') = Len(case)
           /\ case'[c].state = next /\ case'[c].version = case[c].version + 1
           /\ case'[c].source = case[c].source
           /\ \A d \in 1..Len(case) : d # c => case'[d] = case[d]
           /\ log' \subseteq Nat \X Nat \X CaseState
           /\ log \subseteq log' /\ <<c, case[c].version + 1, next>> \in log'
<1> DEFINE row == [case[c] EXCEPT !.state = next, !.version = case[c].version + 1]
<1>1. case[c] \in Row
  OBVIOUS
<1>2. case[c].version \in Nat
  BY <1>1 DEF Row
<1>3. row \in Row
  <2> DEFINE r == [case[c] EXCEPT !.state = next]
             v == case[c].version + 1
  <2>1. r \in Row
    BY <1>1 DEF Row
  <2>2. v \in Nat
    BY <1>2
  <2> HIDE DEF r, v
  <2>3. [r EXCEPT !.version = v] \in Row
    BY <2>1, <2>2 DEF Row
  <2> QED BY <2>3 DEF r, v
<1>4. case' = [case EXCEPT ![c] = row]
  BY DEF WriteCase
<1>5. row.state = next /\ row.version = case[c].version + 1 /\ row.source = case[c].source
  BY <1>1 DEF Row
<1>6. log' = log \cup {<<c, case[c].version + 1, next>>}
  BY DEF WriteCase
<1> HIDE DEF row
<1>7. case' \in Seq(Row) /\ Len(case') = Len(case) /\ case'[c] = row
      /\ \A d \in 1..Len(case) : d # c => case'[d] = case[d]
  BY <1>3, <1>4
<1>8. c \in Nat
  OBVIOUS
<1> QED BY <1>2, <1>5, <1>6, <1>7, <1>8

\* A new row comes last.
LEMMA AppendRow ==
    ASSUME case \in Seq(Row), log \subseteq Nat \X Nat \X CaseState,
           NEW e \in Events, CreateCase(e)
    PROVE  /\ case' \in Seq(Row) /\ Len(case') = Len(case) + 1
           /\ case'[Len(case) + 1] = NewCase(e)
           /\ \A d \in 1..Len(case) : case'[d] = case[d]
           /\ log' \subseteq Nat \X Nat \X CaseState
           /\ log \subseteq log' /\ <<Len(case) + 1, 1, "DETECTED">> \in log'
<1>1. NewCase(e) \in Row
  BY DEF NewCase, Row, CaseState
<1>2. case' = Append(case, NewCase(e)) /\ log' = log \cup {<<Len(case) + 1, 1, "DETECTED">>}
  BY DEF CreateCase
<1>3. "DETECTED" \in CaseState /\ Len(case) + 1 \in Nat
  BY DEF CaseState
<1>4. log' \subseteq Nat \X Nat \X CaseState
  BY <1>2, <1>3
<1>5. case' \in Seq(Row) /\ Len(case') = Len(case) + 1 /\ case'[Len(case) + 1] = NewCase(e)
      /\ \A d \in 1..Len(case) : case'[d] = case[d]
  BY <1>1, <1>2
<1> QED BY <1>2, <1>4, <1>5

-----------------------------------------------------------------------------
(* Types *)

\* A runner that goes on keeps all but its program counter.
LEMMA GoOn ==
    ASSUME runner \in [Runners -> Runner], NEW n \in Runners, NEW pc \in RunnerPC, Goto(n, pc)
    PROVE  /\ runner' \in [Runners -> Runner]
           /\ runner'[n].pc = pc /\ runner'[n].event = runner[n].event
           /\ runner'[n].target = runner[n].target
           /\ runner'[n].version = runner[n].version /\ runner'[n].state = runner[n].state
           /\ \A m \in Runners : m # n => runner'[m] = runner[m]
<1>1. \A r \in Runner : [r EXCEPT !.pc = pc] \in Runner
  BY DEF Runner
<1>2. runner' = [runner EXCEPT ![n] = [runner[n] EXCEPT !.pc = pc]]
  BY DEF Goto
<1> QED BY <1>1, <1>2 DEF Runner

\* The part of TypeOK that the queue workers and the tables are concerned with;
\* what the Razorpay processor works on is a case.
RunnerType ==
    /\ stored \subseteq Events
    /\ case \in Seq(Row)
    /\ audit \subseteq AuditRow
    /\ runner \in [Runners -> Runner]
    /\ \A n \in Runners :
         /\ runner[n].pc # "idle" => runner[n].event \in Events
         /\ runner[n].target <= Len(case)
         /\ runner[n].pc \in {"capture", "audit", "plan"} => runner[n].target \in 1..Len(case)
    /\ log \subseteq Nat \X Nat \X CaseState

\* The part that the endpoints and the queue are concerned with.
QueueType ==
    /\ content \in [Events -> IngestInputs \cup WebhookInputs]
    /\ stale \subseteq Events
    /\ registered \subseteq Events
    /\ job \in [Events -> Job]
    /\ request \in [Requests -> Request]
    /\ \A q \in Requests : request[q].pc # "idle" => request[q].event \in Events
    /\ acked \subseteq Events
    /\ lost \subseteq Events
    /\ writes \in 0..MaxWrites
    /\ faults \in 0..MaxFaults

Typed == RunnerType /\ QueueType

LEMMA InitType == Init => Typed
<1> SUFFICES ASSUME Init PROVE Typed
  OBVIOUS
<1>1. case \in Seq(Row)
  <2>1. NewCase(Nobody) \in Row
    BY DEF NewCase, Row, CaseState
  <2>2. case \in [1..InitialCases -> Row]
    BY <2>1 DEF Init
  <2>3. InitialCases \in Nat
    BY WebhookConstants DEF WebhookConstants
  <2> QED BY <2>2, <2>3
<1>2. RunnerType
  BY <1>1, WebhookConstants
     DEF Init, RunnerType, Runner, RunnerPC, IdleRunner, CaseState, WebhookConstants
<1>3. content \in [Events -> IngestInputs \cup WebhookInputs]
  BY DEF Init
<1>4. QueueType
  BY <1>3, WebhookConstants DEF Init, QueueType, Request, IdleRequest, Job, WebhookConstants
<1> QED BY <1>2, <1>4 DEF Typed

\* The endpoints' steps.
LEMMA EndpointType ==
    ASSUME Typed, NEW q \in Requests,
           \/ \E e \in Events : Deliver(q, e)
           \/ Serve(q)
           \/ RequestFails(q)
    PROVE  Typed'
<1>1. RunnerType /\ QueueType
  BY DEF Typed
<1>2. UNCHANGED <<stored, case, audit, runner, log>>
  BY DEF Deliver, Serve, Register, AddJob, RequestFails, tables
<1>3. RunnerType'
  BY <1>1, <1>2 DEF RunnerType
<1>4. IdleRequest \in Request
  BY DEF IdleRequest, Request
<1>5. CASE \E e \in Events : Deliver(q, e)
  <2>1. PICK e \in Events : Deliver(q, e)
    BY <1>5
  <2>2. [pc |-> IF e \in WebhookEvents THEN "register" ELSE "add", event |-> e] \in Request
    BY DEF Request
  <2>3. QueueType'
    BY <1>1, <2>1, <2>2 DEF QueueType, Deliver, tables
  <2> QED BY <1>3, <2>3 DEF Typed
<1>6. CASE Register(q)
  <2>1. request[q].event \in Events /\ request[q] \in Request
    BY <1>1, <1>6 DEF QueueType, Register
  <2>2. [request[q] EXCEPT !.pc = "add"] \in Request
    BY <2>1 DEF Request
  <2>3. /\ UNCHANGED <<content, stale, job, lost, writes, faults>>
        /\ registered' \subseteq Events /\ acked' \subseteq Events
    BY <1>1, <1>6, <2>1 DEF QueueType, Register
  <2>4. \/ request' = [request EXCEPT ![q] = IdleRequest]
        \/ request' = [request EXCEPT ![q] = [request[q] EXCEPT !.pc = "add"]]
    BY <1>6 DEF Register
  <2>5. /\ request' \in [Requests -> Request]
        /\ \A p \in Requests : request'[p].pc # "idle" => request'[p].event \in Events
    BY <1>1, <1>4, <2>1, <2>2, <2>4 DEF QueueType, IdleRequest, Request
  <2>6. QueueType'
    BY <1>1, <2>3, <2>5 DEF QueueType
  <2> QED BY <1>3, <2>6 DEF Typed
<1>7. CASE AddJob(q)
  <2>1. request[q].event \in Events
    BY <1>1, <1>7 DEF QueueType, AddJob
  <2>2. job' \in [Events -> Job]
    <3>1. \A j \in Job : [j EXCEPT !.status = "waiting"] \in Job
      BY DEF Job
    <3> QED BY <1>1, <1>7, <2>1, <3>1 DEF QueueType, AddJob
  <2>3. QueueType'
    BY <1>1, <1>4, <1>7, <2>1, <2>2 DEF QueueType, AddJob, tables, IdleRequest
  <2> QED BY <1>3, <2>3 DEF Typed
<1>8. CASE RequestFails(q)
  <2>1. request[q].event \in Events
    BY <1>1, <1>8 DEF QueueType, RequestFails
  <2>2. faults' \in 0..MaxFaults
    BY <1>1, <1>8, WebhookConstants DEF QueueType, RequestFails, Fault, WebhookConstants
  <2>3. QueueType'
    BY <1>1, <1>4, <1>8, <2>1, <2>2 DEF QueueType, RequestFails, tables, IdleRequest
  <2> QED BY <1>3, <2>3 DEF Typed
<1> QED BY <1>5, <1>6, <1>7, <1>8 DEF Serve

\* The queue's and the clock's steps.
LEMMA QueueStepType ==
    ASSUME Typed, NEW e \in Events,
           \/ \E n \in Runners : Take(n, e)
           \/ GrowsStale(e) \/ StallOrphan(e) \/ StallLive(e)
    PROVE  Typed'
<1>1. RunnerType /\ QueueType
  BY DEF Typed
<1>2. CASE \E n \in Runners : Take(n, e)
  <2>1. PICK n \in Runners : Take(n, e)
    BY <1>2
  <2> DEFINE pc == IF e \in WebhookEvents THEN "find" ELSE "begin"
             r  == [IdleRunner EXCEPT !.pc = pc, !.event = e]
  <2>2. pc \in RunnerPC /\ pc \notin {"capture", "audit", "plan"}
    BY DEF RunnerPC
  <2>3. r \in Runner /\ r.event = e /\ r.target = 0 /\ r.pc \notin {"capture", "audit", "plan"}
    <3> HIDE DEF pc
    <3> DEFINE g == [IdleRunner EXCEPT !.pc = pc]
    <3>1. IdleRunner \in Runner /\ IdleRunner.target = 0
      BY DEF IdleRunner, Runner, RunnerPC, CaseState
    <3>2. g \in Runner /\ g.target = 0 /\ g.pc \notin {"capture", "audit", "plan"}
      BY <2>2, <3>1 DEF Runner
    <3>3. r = [g EXCEPT !.event = e]
      OBVIOUS
    <3> HIDE DEF g, r
    <3>4. [g EXCEPT !.event = e] \in Runner /\ [g EXCEPT !.event = e].target = 0
          /\ [g EXCEPT !.event = e].event = e
          /\ [g EXCEPT !.event = e].pc \notin {"capture", "audit", "plan"}
      BY <3>2 DEF Runner
    <3> QED BY <3>3, <3>4
  <2>4. runner' = [runner EXCEPT ![n] = r] /\ UNCHANGED <<stored, case, audit, log>>
    BY <2>1 DEF Take, tables
  <2> HIDE DEF r
  <2>5. RunnerType'
    BY <1>1, <2>3, <2>4 DEF RunnerType
  <2>6. \A j \in Job : [j EXCEPT !.status = "active", !.holder = n] \in Job
    BY DEF Job
  <2>7. QueueType'
    <3>1. job' = [job EXCEPT ![e] = [job[e] EXCEPT !.status = "active", !.holder = n]]
      BY <2>1 DEF Take
    <3>2. UNCHANGED <<content, stale, registered, request, acked, lost, writes, faults>>
      BY <2>1 DEF Take, tables
    <3> QED BY <1>1, <2>6, <3>1, <3>2 DEF QueueType
  <2> QED BY <2>5, <2>7 DEF Typed
<1>3. CASE GrowsStale(e)
  <2>1. RunnerType'
    BY <1>1, <1>3 DEF GrowsStale, RunnerType, tables
  <2>2. QueueType'
    BY <1>1, <1>3 DEF GrowsStale, QueueType, tables
  <2> QED BY <2>1, <2>2 DEF Typed
<1>4. CASE StallOrphan(e) \/ StallLive(e)
  <2>1. Stall(e) /\ faults' \in 0..MaxFaults
    BY <1>1, <1>4, WebhookConstants
       DEF StallOrphan, StallLive, Fault, QueueType, WebhookConstants
  <2>2. RunnerType'
    BY <1>1, <2>1 DEF Stall, RunnerType, tables
  <2>3. job' \in [Events -> Job]
    <3>1. job[e].stalled \in 0..MaxStalled
      BY <1>1 DEF QueueType, Job
    <3>2. job[e].stalled < MaxStalled => job[e].stalled + 1 \in 0..MaxStalled
      BY <3>1, WebhookConstants DEF WebhookConstants
    <3> QED BY <1>1, <2>1, <3>1, <3>2 DEF QueueType, Stall, Job
  <2>4. QueueType'
    BY <1>1, <2>1, <2>3 DEF QueueType, Stall, tables
  <2> QED BY <2>2, <2>4 DEF Typed
<1> QED BY <1>2, <1>3, <1>4

\* A runner goes on while the rows stay or grow.
LEMMA RunnerGoesOn ==
    ASSUME Typed, NEW n \in Runners, NEW pc \in RunnerPC \ {"capture", "plan"}, Goto(n, pc),
           runner[n].pc # "idle", pc = "audit" => runner[n].target \in 1..Len(case),
           stored' \subseteq Events, case' \in Seq(Row), Len(case') >= Len(case),
           audit' \subseteq AuditRow, log' \subseteq Nat \X Nat \X CaseState
    PROVE  RunnerType'
<1>1. runner \in [Runners -> Runner] /\ case \in Seq(Row)
  BY DEF Typed, RunnerType
<1>2. /\ runner' \in [Runners -> Runner]
      /\ runner'[n].pc = pc /\ runner'[n].event = runner[n].event
      /\ runner'[n].target = runner[n].target
      /\ \A m \in Runners : m # n => runner'[m] = runner[m]
  BY <1>1, GoOn
<1>3. Len(case) \in Nat /\ Len(case') \in Nat
  BY <1>1
<1>4. ASSUME NEW m \in Runners
      PROVE  (/\ runner[m].pc # "idle" => runner[m].event \in Events
              /\ runner[m].target <= Len(case)
              /\ runner[m].pc \in {"capture", "audit", "plan"} => runner[m].target \in 1..Len(case))'
  <2>1. runner[m].target \in Nat
    BY <1>1 DEF Runner
  <2>2. /\ runner[m].pc # "idle" => runner[m].event \in Events
        /\ runner[m].target <= Len(case)
        /\ runner[m].pc \in {"capture", "audit", "plan"} => runner[m].target \in 1..Len(case)
    BY DEF Typed, RunnerType
  <2>3. CASE m = n
    BY <1>2, <1>3, <2>1, <2>2, <2>3
  <2>4. CASE m # n
    BY <1>2, <1>3, <2>1, <2>2, <2>4
  <2> QED BY <2>3, <2>4
<1> QED BY <1>2, <1>4 DEF RunnerType

\* A new version of a row.
LEMMA RowWritten ==
    ASSUME Typed, NEW c \in 1..Len(case), NEW next \in CaseState, WriteCase(c, next)
    PROVE  /\ case' \in Seq(Row) /\ Len(case') = Len(case)
           /\ log' \subseteq Nat \X Nat \X CaseState
BY WriteRow DEF Typed, RunnerType

LEMMA QueueKept ==
    ASSUME Typed, UNCHANGED <<content, stale, registered, job, request, acked, lost, writes, faults>>
    PROVE  QueueType'
BY DEF Typed, QueueType

\* A runner that has read a case.
ReadBy(x, t, v, s, pc) == [x EXCEPT !.target = t, !.version = v, !.state = s, !.pc = pc]

LEMMA ReadCase ==
    ASSUME Typed, NEW n \in Runners, NEW c \in 1..Len(case), NEW pc \in RunnerPC
    PROVE  LET r == ReadBy(runner[n], c, case[c].version, case[c].state, pc)
           IN  r \in Runner /\ r.event = runner[n].event /\ r.target = c
<1> DEFINE x == runner[n]
           v == case[c].version
           s == case[c].state
           a == [x EXCEPT !.target = c]
           b == [a EXCEPT !.version = v]
           d == [b EXCEPT !.state = s]
<1>1. x \in Runner /\ case[c] \in Row /\ c \in Nat
  BY DEF Typed, RunnerType
<1>2. v \in Nat /\ s \in CaseState
  BY <1>1 DEF Row
<1>3. ReadBy(x, c, v, s, pc) = [d EXCEPT !.pc = pc]
  BY DEF ReadBy
<1> HIDE DEF v, s, x
<1>4. a \in Runner /\ a.event = x.event /\ a.target = c
  BY <1>1 DEF Runner
<1> HIDE DEF a
<1>5. b \in Runner /\ b.event = x.event /\ b.target = c
  BY <1>2, <1>4 DEF Runner
<1> HIDE DEF b
<1>6. d \in Runner /\ d.event = x.event /\ d.target = c
  BY <1>2, <1>5 DEF Runner
<1> HIDE DEF d
<1>7. [d EXCEPT !.pc = pc] \in Runner /\ [d EXCEPT !.pc = pc].event = x.event
      /\ [d EXCEPT !.pc = pc].target = c
  BY <1>6 DEF Runner
<1> QED BY <1>3, <1>7 DEF x, v, s

\* RazorpayEventsProcessor.process
LEMMA RazorpayType ==
    ASSUME Typed, NEW n \in Runners, FindCase(n) \/ Capture(n) \/ AuditCapture(n) \/ Plan(n)
    PROVE  Typed'
<1>1. RunnerType /\ QueueType
  BY DEF Typed
<1>2. QueueType'
  BY QueueKept DEF FindCase, Capture, AuditCapture, Plan, tables
<1>3. /\ stored \subseteq Events /\ case \in Seq(Row) /\ audit \subseteq AuditRow
      /\ log \subseteq Nat \X Nat \X CaseState /\ Len(case) \in Nat
      /\ runner[n].target \in Nat /\ runner[n].version \in Nat /\ runner[n].state \in CaseState
  BY <1>1 DEF RunnerType, Runner
<1>4. CASE Capture(n)
  <2> DEFINE c == runner[n].target
  <2>1. c \in 1..Len(case) /\ runner[n].pc = "capture"
    BY <1>1, <1>4 DEF RunnerType, Capture
  <2>2. "RECOVERED" \in CaseState
    BY DEF CaseState
  <2>3. UNCHANGED <<stored, audit>>
    BY <1>4 DEF Capture
  <2>4. CASE WriteCase(c, "RECOVERED") /\ Goto(n, "audit")
    <3>1. /\ case' \in Seq(Row) /\ Len(case') = Len(case)
          /\ log' \subseteq Nat \X Nat \X CaseState
      BY <2>1, <2>2, <2>4, RowWritten
    <3> QED BY <1>2, <1>3, <2>1, <2>3, <2>4, <3>1, RunnerGoesOn DEF Typed, RunnerPC
  <2>5. CASE UNCHANGED <<case, log>> /\ Goto(n, "throw")
    BY <1>2, <1>3, <2>1, <2>3, <2>5, RunnerGoesOn DEF Typed, RunnerPC
  <2> QED BY <1>4, <2>4, <2>5 DEF Capture, Rethrow
<1>5. CASE AuditCapture(n)
  <2>1. runner[n].pc = "audit" /\ runner[n].event \in Events
    BY <1>1, <1>5 DEF RunnerType, AuditCapture
  <2>2. audit' \subseteq AuditRow /\ Goto(n, "return") /\ UNCHANGED <<stored, case, log>>
    BY <1>3, <1>5, <2>1 DEF AuditCapture, AuditRow
  <2> QED BY <1>2, <1>3, <2>1, <2>2, RunnerGoesOn DEF Typed, RunnerPC
<1>6. CASE Plan(n)
  <2> DEFINE c == runner[n].target
  <2>1. c \in 1..Len(case) /\ runner[n].pc = "plan"
    BY <1>1, <1>6 DEF RunnerType, Plan
  <2>2. UNCHANGED <<stored, audit>>
    BY <1>6 DEF Plan
  <2>3. CASE (\E next \in PlanOutcomes : WriteCase(c, next)) /\ Goto(n, "return")
    <3>1. PICK next \in PlanOutcomes : WriteCase(c, next)
      BY <2>3
    <3>2. /\ case' \in Seq(Row) /\ Len(case') = Len(case)
          /\ log' \subseteq Nat \X Nat \X CaseState
      BY <2>1, <3>1, RowWritten DEF CaseState
    <3> QED BY <1>2, <1>3, <2>1, <2>2, <2>3, <3>2, RunnerGoesOn DEF Typed, RunnerPC
  <2>4. CASE UNCHANGED <<case, log>> /\ Goto(n, "throw")
    BY <1>2, <1>3, <2>1, <2>2, <2>4, RunnerGoesOn DEF Typed, RunnerPC
  <2> QED BY <1>6, <2>3, <2>4 DEF Plan, Rethrow
<1>7. CASE FindCase(n)
  <2> DEFINE c == content[runner[n].event].case
  <2>1. runner[n].event \in Events /\ runner[n].pc # "idle" /\ runner[n] \in Runner
    BY <1>1, <1>7 DEF RunnerType, FindCase
  <2>2. UNCHANGED <<stored, case, audit, log>>
    BY <1>7 DEF FindCase, tables
  <2>3. CASE c \notin 1..Len(case)
    <3>1. Goto(n, "return")
      BY <1>7, <2>3 DEF FindCase, Goto
    <3> QED BY <1>2, <1>3, <2>1, <2>2, <3>1, RunnerGoesOn DEF Typed, RunnerPC
  <2>4. CASE c \in 1..Len(case)
    <3> DEFINE pc == CASE content[runner[n].event].type = "captured" ->
                               IF case[c].state \in ClosedToCaptures THEN "return" ELSE "capture"
                          [] content[runner[n].event].type = "failed" -> "plan"
                          [] OTHER -> "return"
               r  == ReadBy(runner[n], c, case[c].version, case[c].state, pc)
    <3>1. pc \in RunnerPC
      BY DEF RunnerPC
    <3>2. runner' = [runner EXCEPT ![n] = r]
      BY <1>7, <2>4 DEF FindCase, ReadBy
    <3> HIDE DEF c, pc
    <3>3. r \in Runner /\ r.event = runner[n].event /\ r.target = c
      BY <2>4, <3>1, ReadCase
    <3> HIDE DEF r
    <3>4. RunnerType'
      BY <1>1, <2>1, <2>2, <2>4, <3>2, <3>3 DEF RunnerType
    <3> QED BY <1>2, <3>4 DEF Typed
  <2> QED BY <2>3, <2>4
<1> QED BY <1>4, <1>5, <1>6, <1>7

\* The transaction finds case c, as it is then, or none.
Finds(n, c) ==
    /\ runner' = [runner EXCEPT ![n] = ReadBy(runner[n], c, case[c].version, case[c].state, "commit")]
    /\ case[c].state \notin NotRecoverable

LEMMA FindsOne ==
    ASSUME NEW n, FindActive(n)
    PROVE  Goto(n, "commit") \/ \E c \in 1..Len(case) : Finds(n, c)
BY DEF FindActive, Finds, ReadBy

\* IngestionProcessor and its transaction
LEMMA IngestType ==
    ASSUME Typed, NEW n \in Runners,
           Begin(n) \/ InsertEvent(n) \/ FindActive(n) \/ Commit(n)
    PROVE  Typed'
<1>1. RunnerType /\ QueueType
  BY DEF Typed
<1>2. QueueType'
  BY QueueKept DEF Begin, InsertEvent, FindActive, Commit, tables
<1>3. /\ stored \subseteq Events /\ case \in Seq(Row) /\ audit \subseteq AuditRow
      /\ log \subseteq Nat \X Nat \X CaseState /\ Len(case) \in Nat
      /\ runner[n] \in Runner /\ runner[n].target \in Nat
  BY <1>1 DEF RunnerType, Runner
<1>4. runner[n].event \in Events /\ runner[n].pc # "idle"
  BY <1>1 DEF RunnerType, Begin, InsertEvent, FindActive, Commit
<1>5. CASE Begin(n) \/ InsertEvent(n)
  <2>1. UNCHANGED <<stored, case, audit, log>>
    BY <1>5 DEF Begin, InsertEvent, tables
  <2>2. \E pc \in {"return", "throw", "insert", "findActive", "commit"} : Goto(n, pc)
    <3>1. CASE Begin(n)
      BY <3>1 DEF Begin
    <3>2. CASE InsertEvent(n)
      BY <3>2 DEF InsertEvent
    <3> QED BY <1>5, <3>1, <3>2
  <2>3. PICK pc \in {"return", "throw", "insert", "findActive", "commit"} : Goto(n, pc)
    BY <2>2
  <2>4. pc \in RunnerPC \ {"capture", "plan"} /\ pc # "audit"
    BY DEF RunnerPC
  <2> QED BY <1>2, <1>3, <1>4, <2>1, <2>3, <2>4, RunnerGoesOn DEF Typed
<1>6. CASE FindActive(n)
  <2>1. UNCHANGED <<stored, case, audit, log>>
    BY <1>6 DEF FindActive, tables
  <2>2. CASE Goto(n, "commit")
    BY <1>2, <1>3, <1>4, <2>1, <2>2, RunnerGoesOn DEF Typed, RunnerPC
  <2>3. CASE \E c \in 1..Len(case) : Finds(n, c)
    <3>1. PICK c \in 1..Len(case) : Finds(n, c)
      BY <2>3
    <3> DEFINE r == ReadBy(runner[n], c, case[c].version, case[c].state, "commit")
    <3>2. runner' = [runner EXCEPT ![n] = r]
      BY <3>1 DEF Finds
    <3>3. r \in Runner /\ r.event = runner[n].event /\ r.target = c
      BY ReadCase DEF RunnerPC
    <3>4. c <= Len(case) /\ c \in 1..Len(case)
      BY <1>3
    <3> HIDE DEF r
    <3>5. RunnerType'
      BY <1>1, <1>4, <2>1, <3>2, <3>3, <3>4 DEF RunnerType
    <3> QED BY <1>2, <3>5 DEF Typed
  <2> QED BY <1>6, <2>2, <2>3, FindsOne
<1>7. CASE Commit(n)
  <2> DEFINE e == runner[n].event
             c == runner[n].target
  <2>1. stored' \subseteq Events /\ Goto(n, "return")
    BY <1>3, <1>4, <1>7 DEF Commit
  <2>2. CASE c # 0
    <3>1. c \in 1..Len(case)
      BY <1>1, <1>3, <2>2 DEF RunnerType
    <3>2. WriteCase(c, "RECOVERED") /\ "RECOVERED" \in CaseState
      BY <1>7, <2>2 DEF Commit, CaseState
    <3>3. /\ case' \in Seq(Row) /\ Len(case') = Len(case)
          /\ log' \subseteq Nat \X Nat \X CaseState
      BY <3>1, <3>2, RowWritten
    <3>4. audit' \subseteq AuditRow
      <4>1. case[c] \in Row
        BY <1>3, <3>1
      <4>2. case[c].version \in Nat /\ runner[n].state \in CaseState
        BY <1>3, <4>1 DEF Row, Runner
      <4>3. [action |-> "CASE_RECOVERED_BY_EVENT", event |-> e, case |-> c,
             version |-> case[c].version, previous |-> runner[n].state] \in AuditRow
        BY <1>3, <1>4, <4>2 DEF AuditRow
      <4>4. audit' = audit \cup {[action |-> "CASE_RECOVERED_BY_EVENT", event |-> e, case |-> c,
                                  version |-> case[c].version, previous |-> runner[n].state]}
        BY <1>7, <2>2 DEF Commit
      <4> QED BY <1>3, <4>3, <4>4
    <3> QED BY <1>2, <1>3, <1>4, <2>1, <3>3, <3>4, RunnerGoesOn DEF Typed, RunnerPC
  <2>3. CASE c = 0 /\ CreateCase(e)
    <3>1. /\ case' \in Seq(Row) /\ Len(case') = Len(case) + 1
          /\ log' \subseteq Nat \X Nat \X CaseState
      BY <1>3, <1>4, <2>3, AppendRow
    <3>2. UNCHANGED audit
      BY <1>7, <2>3 DEF Commit
    <3> QED BY <1>2, <1>3, <1>4, <2>1, <3>1, <3>2, RunnerGoesOn DEF Typed, RunnerPC
  <2>4. CASE c = 0 /\ UNCHANGED <<case, log>>
    <3>1. UNCHANGED audit
      BY <1>7, <2>4 DEF Commit
    <3> QED BY <1>2, <1>3, <1>4, <2>1, <2>4, <3>1, RunnerGoesOn DEF Typed, RunnerPC
  <2> QED BY <1>7, <2>2, <2>3, <2>4 DEF Commit
<1> QED BY <1>5, <1>6, <1>7

\* The end of a run, however it comes about.
LEMMA RunEndsType ==
    ASSUME Typed, NEW n \in Runners, Settle(n) \/ CallFails(n) \/ Crash(n)
    PROVE  Typed'
<1>1. RunnerType /\ QueueType
  BY DEF Typed
<1>2. UNCHANGED <<content, stale, tables, request, acked, lost, log, writes>>
  BY DEF Settle, CallFails, Crash
<1>3. UNCHANGED <<stored, case, audit, registered, log>>
  BY <1>2 DEF tables
<1>4. IdleRunner \in Runner /\ IdleRunner.pc = "idle" /\ IdleRunner.target = 0
  BY DEF IdleRunner, Runner, RunnerPC, CaseState
<1>5. CASE Settle(n)
  <2> DEFINE st == IF runner[n].pc = "return" THEN "completed" ELSE "failed"
  <2>1. runner[n].event \in Events
    BY <1>1, <1>5 DEF RunnerType, Settle
  <2>2. \A j \in Job : [j EXCEPT !.holder = Nobody, !.status = st] \in Job
    BY DEF Job
  <2> DEFINE e == runner[n].event
             k == [job[e] EXCEPT !.holder = Nobody, !.status = st]
  <2>3. job' = job \/ job' = [job EXCEPT ![e] = k]
    BY <1>5 DEF Settle
  <2>4. job' \in [Events -> Job]
    <3>1. job \in [Events -> Job] /\ job[e] \in Job
      BY <1>1, <2>1 DEF QueueType
    <3> HIDE DEF st
    <3>2. k \in Job
      BY <2>2, <3>1
    <3> HIDE DEF k, e
    <3> QED BY <2>3, <3>1, <3>2
  <2>5. runner' = [runner EXCEPT ![n] = IdleRunner] /\ UNCHANGED faults
    BY <1>5 DEF Settle
  <2>6. RunnerType'
    BY <1>1, <1>3, <1>4, <2>5 DEF RunnerType
  <2>7. QueueType'
    BY <1>1, <1>2, <1>3, <2>4, <2>5 DEF QueueType
  <2> QED BY <2>6, <2>7 DEF Typed
<1>6. CASE CallFails(n) \/ Crash(n)
  <2>1. faults' \in 0..MaxFaults /\ UNCHANGED job
    BY <1>1, <1>6, WebhookConstants DEF CallFails, Crash, Fault, QueueType, WebhookConstants
  <2>2. QueueType'
    BY <1>1, <1>2, <1>3, <2>1 DEF QueueType
  <2>3. CASE CallFails(n)
    <3>1. runner[n].pc # "idle" /\ Goto(n, "throw")
      BY <2>3 DEF CallFails, Rethrow
    <3>2. RunnerType'
      BY <1>1, <1>3, <3>1, RunnerGoesOn DEF RunnerType, RunnerPC
    <3> QED BY <2>2, <3>2 DEF Typed
  <2>4. CASE Crash(n)
    <3>1. runner' = [runner EXCEPT ![n] = IdleRunner]
      BY <2>4 DEF Crash
    <3>2. RunnerType'
      BY <1>1, <1>3, <1>4, <3>1 DEF RunnerType
    <3> QED BY <2>2, <3>2 DEF Typed
  <2> QED BY <1>6, <2>3, <2>4
<1> QED BY <1>5, <1>6

LEMMA OtherWriteType ==
    ASSUME Typed, NEW c \in 1..Len(case), OtherWrite(c)
    PROVE  Typed'
<1>1. RunnerType /\ QueueType
  BY DEF Typed
<1>2. PICK next \in OtherStates : WriteCase(c, next)
  BY DEF OtherWrite
<1>3. /\ case' \in Seq(Row) /\ Len(case') = Len(case)
      /\ log' \subseteq Nat \X Nat \X CaseState
  BY <1>2, RowWritten DEF CaseState
<1>4. RunnerType'
  BY <1>1, <1>3 DEF RunnerType, OtherWrite
<1>5. writes' \in 0..MaxWrites
  BY <1>1, WebhookConstants DEF OtherWrite, QueueType, WebhookConstants
<1>6. QueueType'
  BY <1>1, <1>5 DEF QueueType, OtherWrite
<1> QED BY <1>4, <1>6 DEF Typed

LEMMA NextType == Typed /\ [Next]_vars => Typed'
<1> SUFFICES ASSUME Typed, [Next]_vars PROVE Typed'
  OBVIOUS
<1>1. CASE Next
  BY <1>1, EndpointType, QueueStepType, RazorpayType, IngestType, RunEndsType, OtherWriteType
     DEF Next, Process
<1>2. CASE UNCHANGED vars
  BY <1>2 DEF vars, tables, Typed, RunnerType, QueueType
<1> QED BY <1>1, <1>2

LEMMA AlwaysTyped == Spec => []Typed
BY InitType, NextType, PTL DEF Spec

\* The tables, the queue and the running calls keep their types: in particular,
\* what a runner is about to update is a row there is.
THEOREM IngestionTypeCorrect == Spec => []TypeOK
<1>1. Typed => TypeOK
  BY DEF Typed, RunnerType, QueueType, TypeOK
<1> QED BY <1>1, AlwaysTyped, PTL

-----------------------------------------------------------------------------
(* AcknowledgedReachesQueue *)

Adding(e) == \E q \in Requests : request[q].pc = "add" /\ request[q].event = e

\* What is acknowledged is queued already or registered, and what is registered
\* is on its way, or its request has failed.
AckInv ==
    /\ \A q \in Requests : request[q].pc = "register" => request[q].event \in WebhookEvents
    /\ registered \subseteq WebhookEvents
    /\ \A e \in acked : e \in registered \/ job[e].status # "none"
    /\ \A e \in registered : job[e].status # "none" \/ Adding(e) \/ e \in lost

LEMMA AckInit == Init => AckInv
BY DEF Init, AckInv, IdleRequest

\* A job stays in the queue for ever.
LEMMA JobsStay ==
    ASSUME Typed, [Next]_vars
    PROVE  \A e \in Events : job[e].status # "none" => job'[e].status # "none"
<1>1. job \in [Events -> Job] /\ \A n \in Runners : runner[n].pc # "idle" => runner[n].event \in Events
  BY DEF Typed, RunnerType, QueueType
<1>2. ASSUME NEW q \in Requests, AddJob(q)
      PROVE  \A e \in Events : job[e].status # "none" => job'[e].status # "none"
  BY <1>1, <1>2 DEF AddJob, Job
<1>3. ASSUME NEW n \in Runners, NEW e \in Events, Take(n, e)
      PROVE  \A f \in Events : job[f].status # "none" => job'[f].status # "none"
  BY <1>1, <1>3 DEF Take, Job
<1>4. ASSUME NEW n \in Runners, Settle(n)
      PROVE  \A f \in Events : job[f].status # "none" => job'[f].status # "none"
  BY <1>1, <1>4 DEF Settle, Job
<1>5. ASSUME NEW e \in Events, Stall(e)
      PROVE  \A f \in Events : job[f].status # "none" => job'[f].status # "none"
  BY <1>1, <1>5 DEF Stall, Job
<1>6. \/ UNCHANGED job
      \/ \E q \in Requests : AddJob(q)
      \/ \E n \in Runners, e \in Events : Take(n, e)
      \/ \E n \in Runners : Settle(n)
      \/ \E e \in Events : Stall(e)
  BY DEF Next, vars, Deliver, Serve, Register, RequestFails, Process, FindCase, Capture,
         AuditCapture, Plan, Begin, InsertEvent, FindActive, Commit, CallFails, Crash,
         GrowsStale, StallOrphan, StallLive, OtherWrite
<1> QED BY <1>2, <1>3, <1>4, <1>5, <1>6

\* The queue workers and the rest leave the requests alone.
LEMMA EndpointsOnly ==
    ASSUME [Next]_vars
    PROVE  \/ \E q \in Requests : (\E e \in Events : Deliver(q, e)) \/ Serve(q) \/ RequestFails(q)
           \/ UNCHANGED <<request, registered, acked, lost>>
<1> DEFINE Same == UNCHANGED <<request, registered, acked, lost>>
<1>1. ASSUME NEW n \in Runners, Process(n) PROVE Same
  BY <1>1 DEF tables, Process, FindCase, Capture, AuditCapture, Plan, Begin, InsertEvent,
              FindActive, Commit, Settle
<1>2. ASSUME NEW n \in Runners, (\E e \in Events : Take(n, e)) \/ CallFails(n) \/ Crash(n)
      PROVE  Same
  BY <1>2 DEF tables, Take, CallFails, Crash
<1>3. ASSUME NEW e \in Events, GrowsStale(e) \/ StallOrphan(e) \/ StallLive(e) PROVE Same
  BY <1>3 DEF tables, GrowsStale, StallOrphan, StallLive, Stall
<1>4. ASSUME NEW c \in 1..Len(case), OtherWrite(c) PROVE Same
  BY <1>4 DEF tables, OtherWrite
<1>5. UNCHANGED vars => Same
  BY DEF vars, tables
<1> HIDE DEF Same
<1>6. Next => \/ \E q \in Requests : (\E e \in Events : Deliver(q, e)) \/ Serve(q) \/ RequestFails(q)
              \/ Same
  BY <1>1, <1>2, <1>3, <1>4 DEF Next
<1> QED BY <1>5, <1>6 DEF Same

LEMMA AckStep == Typed /\ AckInv /\ [Next]_vars => AckInv'
<1> SUFFICES ASSUME Typed, AckInv, [Next]_vars PROVE AckInv'
  OBVIOUS
<1>1. /\ request \in [Requests -> Request] /\ job \in [Events -> Job]
      /\ \A q \in Requests : request[q].pc # "idle" => request[q].event \in Events
  BY DEF Typed, QueueType
<1>2. \A e \in Events : job[e].status # "none" => job'[e].status # "none"
  BY JobsStay
<1>3. registered \subseteq Events /\ acked \subseteq Events
  BY DEF Typed, QueueType
<1>4. CASE UNCHANGED <<request, registered, acked, lost>>
  BY <1>2, <1>3, <1>4 DEF AckInv, Adding
<1>5. ASSUME NEW q \in Requests, NEW e \in Events, Deliver(q, e)
      PROVE  AckInv'
  <2>1. /\ UNCHANGED <<registered, acked, lost>>
        /\ request[q].pc = "idle"
        /\ request'[q].pc = "register" => request'[q].event \in WebhookEvents
        /\ \A p \in Requests : p # q => request'[p] = request[p]
    BY <1>1, <1>5 DEF Deliver, tables
  <2>2. \A f \in Events : Adding(f) => Adding(f)'
    BY <2>1 DEF Adding
  <2> QED BY <1>2, <1>3, <2>1, <2>2 DEF AckInv
<1>6. ASSUME NEW q \in Requests, Register(q)
      PROVE  AckInv'
  <2> PICK e \in Events : e = request[q].event
    BY <1>1, <1>6 DEF Register
  <2>1. /\ request[q].pc = "register" /\ e \in WebhookEvents /\ e \in Events
        /\ UNCHANGED lost
        /\ \A p \in Requests : p # q => request'[p] = request[p]
        /\ request'[q].pc # "register"
    BY <1>1, <1>6 DEF Register, AckInv, IdleRequest, Request, Events
  <2>2. \A f \in Events : Adding(f) => Adding(f)'
    BY <2>1 DEF Adding
  <2>3. CASE e \in registered
    <3>1. UNCHANGED registered /\ acked' = acked \cup {e}
      BY <1>6, <2>3 DEF Register
    <3> QED BY <1>2, <1>3, <2>1, <2>2, <2>3, <3>1 DEF AckInv
  <2>4. CASE e \notin registered
    <3>1. registered' = registered \cup {e} /\ UNCHANGED acked
      BY <1>6, <2>4 DEF Register
    <3>2. Adding(e)'
      BY <1>1, <1>6, <2>4 DEF Register, Adding, Request
    <3> QED BY <1>2, <1>3, <2>1, <2>2, <3>1, <3>2 DEF AckInv
  <2> QED BY <2>3, <2>4
<1>7. ASSUME NEW q \in Requests, AddJob(q)
      PROVE  AckInv'
  <2> DEFINE e == request[q].event
  <2>1. /\ e \in Events /\ UNCHANGED <<lost, registered>> /\ acked' = acked \cup {e}
        /\ \A p \in Requests : p # q => request'[p] = request[p]
        /\ request'[q].pc = "idle"
    BY <1>1, <1>7 DEF AddJob, tables, IdleRequest
  <2>2. job'[e].status # "none"
    BY <1>1, <1>7, <2>1 DEF AddJob, Job
  <2>3. \A f \in Events : f # e /\ Adding(f) => Adding(f)'
    BY <2>1 DEF Adding
  <2> QED BY <1>2, <1>3, <2>1, <2>2, <2>3 DEF AckInv
<1>8. ASSUME NEW q \in Requests, RequestFails(q)
      PROVE  AckInv'
  <2> DEFINE e == request[q].event
  <2>1. /\ UNCHANGED <<registered, acked>>
        /\ \A p \in Requests : p # q => request'[p] = request[p]
        /\ request'[q].pc = "idle"
        /\ lost \subseteq lost'
        /\ request[q].pc = "add" /\ e \in WebhookEvents => e \in lost'
    BY <1>1, <1>8 DEF RequestFails, tables, IdleRequest
  <2>2. \A f \in registered : Adding(f) => Adding(f)' \/ f \in lost'
    BY <2>1 DEF Adding, AckInv
  <2> QED BY <1>2, <1>3, <2>1, <2>2 DEF AckInv
<1> QED BY <1>4, <1>5, <1>6, <1>7, <1>8, EndpointsOnly DEF Serve

\* Whatever fails or is delivered twice, an event answered 200 is in the queue
\* or about to be, unless a request for it failed between row and job.
THEOREM AcknowledgedIsQueued == Spec => []AcknowledgedReachesQueue
<1>1. Typed /\ AckInv => AcknowledgedReachesQueue
  BY DEF Typed, QueueType, AckInv, Adding, AcknowledgedReachesQueue, Request
<1>2. Spec => []AckInv
  BY AckInit, AckStep, AlwaysTyped, PTL DEF Spec
<1> QED BY <1>1, <1>2, AlwaysTyped, PTL

-----------------------------------------------------------------------------
(* CaptureAuditIsTrue *)

\* The steps that write a row.
LEMMA RowWriters ==
    ASSUME [Next]_vars
    PROVE  \/ UNCHANGED <<case, log>>
           \/ \E n \in Runners : Capture(n) \/ Plan(n) \/ Commit(n)
           \/ \E c \in 1..Len(case) : OtherWrite(c)
<1>1. ASSUME NEW n \in Runners,
             \/ FindCase(n) \/ AuditCapture(n) \/ Begin(n) \/ InsertEvent(n)
             \/ FindActive(n) \/ Settle(n)
      PROVE  UNCHANGED <<case, log>>
  BY <1>1 DEF FindCase, AuditCapture, Begin, InsertEvent, FindActive, Settle, tables
<1>2. ASSUME NEW n \in Runners, CallFails(n) \/ Crash(n) \/ \E e \in Events : Take(n, e)
      PROVE  UNCHANGED <<case, log>>
  BY <1>2 DEF CallFails, Crash, Take, tables
<1>3. ASSUME NEW q \in Requests,
             (\E e \in Events : Deliver(q, e)) \/ Serve(q) \/ RequestFails(q)
      PROVE  UNCHANGED <<case, log>>
  BY <1>3 DEF Deliver, Serve, Register, AddJob, RequestFails, tables
<1>4. ASSUME NEW e \in Events, GrowsStale(e) \/ StallOrphan(e) \/ StallLive(e)
      PROVE  UNCHANGED <<case, log>>
  BY <1>4 DEF GrowsStale, StallOrphan, StallLive, Stall, tables
<1>5. UNCHANGED vars => UNCHANGED <<case, log>>
  BY DEF vars, tables
<1> QED BY <1>1, <1>2, <1>3, <1>4, <1>5 DEF Next, Process

\* A step leaves the rows alone, writes one or adds one.
LEMMA RowChange ==
    ASSUME Typed, [Next]_vars
    PROVE  \/ UNCHANGED <<case, log>>
           \/ \E c \in 1..Len(case), next \in CaseState : WriteCase(c, next)
           \/ \E e \in Events : CreateCase(e)
<1>1. \A n \in Runners : /\ runner[n].pc # "idle" => runner[n].event \in Events
                         /\ runner[n].pc \in {"capture", "audit", "plan"} => runner[n].target \in 1..Len(case)
                         /\ runner[n].target \in Nat /\ runner[n].target <= Len(case)
  BY DEF Typed, RunnerType, Runner
<1>2. case \in Seq(Row) /\ Len(case) \in Nat
  BY DEF Typed, RunnerType
<1>3. ASSUME NEW n \in Runners, Capture(n)
      PROVE  \/ UNCHANGED <<case, log>>
             \/ \E c \in 1..Len(case), next \in CaseState : WriteCase(c, next)
  BY <1>1, <1>3 DEF Capture, CaseState
<1>4. ASSUME NEW n \in Runners, Plan(n)
      PROVE  \/ UNCHANGED <<case, log>>
             \/ \E c \in 1..Len(case), next \in CaseState : WriteCase(c, next)
  BY <1>1, <1>4 DEF Plan, CaseState
<1>5. ASSUME NEW n \in Runners, Commit(n)
      PROVE  \/ UNCHANGED <<case, log>>
             \/ \E c \in 1..Len(case), next \in CaseState : WriteCase(c, next)
             \/ \E e \in Events : CreateCase(e)
  <2>1. runner[n].target # 0 => runner[n].target \in 1..Len(case)
    BY <1>1, <1>2
  <2>2. "RECOVERED" \in CaseState /\ runner[n].event \in Events
    BY <1>1, <1>5 DEF CaseState, Commit
  <2> QED BY <1>5, <2>1, <2>2 DEF Commit
<1>6. ASSUME NEW c \in 1..Len(case), OtherWrite(c)
      PROVE  \E d \in 1..Len(case), next \in CaseState : WriteCase(d, next)
  BY <1>6 DEF OtherWrite, CaseState
<1> QED BY <1>3, <1>4, <1>5, <1>6, RowWriters

\* The log grows with the rows, and so do their versions.
LEMMA RowsStep ==
    ASSUME Typed, RowsLogged, [Next]_vars
    PROVE  /\ log \subseteq log' /\ RowsLogged'
           /\ Len(case) <= Len(case')
           /\ \A c \in 1..Len(case) : case[c].version <= case'[c].version
<1>1. case \in Seq(Row) /\ Len(case) \in Nat /\ log \subseteq Nat \X Nat \X CaseState
  BY DEF Typed, RunnerType
<1>2. \A c \in 1..Len(case) : case[c].version \in Nat
  <2>1. \A c \in 1..Len(case) : case[c] \in Row
    BY <1>1
  <2> QED BY <2>1 DEF Row
<1>3. CASE UNCHANGED <<case, log>>
  BY <1>1, <1>2, <1>3 DEF RowsLogged
<1>4. ASSUME NEW c \in 1..Len(case), NEW next \in CaseState, WriteCase(c, next)
      PROVE  /\ log \subseteq log' /\ RowsLogged'
             /\ Len(case) <= Len(case')
             /\ \A d \in 1..Len(case) : case[d].version <= case'[d].version
  <2>1. /\ Len(case') = Len(case)
        /\ case'[c].state = next /\ case'[c].version = case[c].version + 1
        /\ \A d \in 1..Len(case) : d # c => case'[d] = case[d]
        /\ log \subseteq log' /\ <<c, case[c].version + 1, next>> \in log'
    BY <1>1, <1>4, WriteRow
  <2>2. RowsLogged'
    BY <2>1 DEF RowsLogged
  <2> QED BY <1>1, <1>2, <2>1, <2>2
<1>5. ASSUME NEW e \in Events, CreateCase(e)
      PROVE  /\ log \subseteq log' /\ RowsLogged'
             /\ Len(case) <= Len(case')
             /\ \A d \in 1..Len(case) : case[d].version <= case'[d].version
  <2>1. /\ Len(case') = Len(case) + 1
        /\ case'[Len(case) + 1] = NewCase(e)
        /\ \A d \in 1..Len(case) : case'[d] = case[d]
        /\ log \subseteq log' /\ <<Len(case) + 1, 1, "DETECTED">> \in log'
    BY <1>1, <1>5, AppendRow
  <2>2. NewCase(e).version = 1 /\ NewCase(e).state = "DETECTED"
    BY DEF NewCase
  <2>3. \A d \in 1..Len(case') : d \in 1..Len(case) \/ d = Len(case) + 1
    BY <1>1, <2>1
  <2>4. RowsLogged'
    BY <2>1, <2>2, <2>3 DEF RowsLogged
  <2> QED BY <1>1, <1>2, <2>1, <2>4
<1> QED BY <1>3, <1>4, <1>5, RowChange

\* What a capturing runner has read is a row there has been, and what it is
\* about to report it has written.
RunnerLogged(n) ==
    /\ runner[n].pc \in {"capture", "audit"} =>
         <<runner[n].target, runner[n].version, runner[n].state>> \in log
    /\ runner[n].pc = "audit" => <<runner[n].target, runner[n].version + 1, "RECOVERED">> \in log

LogInv == RowsLogged /\ (\A n \in Runners : RunnerLogged(n)) /\ CaptureAuditIsTrue

LEMMA LogInit == Init => LogInv
<1> SUFFICES ASSUME Init PROVE LogInv
  OBVIOUS
<1>1. RowsLogged
  <2>1. InitialCases \in Nat
    BY WebhookConstants DEF WebhookConstants
  <2> QED BY <2>1 DEF Init, RowsLogged, NewCase
<1> QED BY <1>1 DEF Init, LogInv, RunnerLogged, IdleRunner, CaptureAuditIsTrue

\* A step of one runner, or of none.
LEMMA RunnersOnly ==
    ASSUME [Next]_vars
    PROVE  \/ \E n \in Runners : (\E e \in Events : Take(n, e)) \/ Process(n) \/ CallFails(n) \/ Crash(n)
           \/ UNCHANGED <<runner, stored, audit>>
BY DEF Next, vars, tables, Deliver, Serve, Register, AddJob, RequestFails,
       GrowsStale, StallOrphan, StallLive, Stall, OtherWrite

\* A runner that does not go on to the case it has read.
LEMMA PlainMove ==
    ASSUME Typed, NEW n \in Runners,
           \/ \E e \in Events : Take(n, e)
           \/ AuditCapture(n) \/ Plan(n) \/ Begin(n) \/ InsertEvent(n) \/ FindActive(n)
           \/ Commit(n) \/ Settle(n) \/ CallFails(n) \/ Crash(n)
    PROVE  /\ runner'[n].pc \notin {"capture", "audit"}
           /\ \A m \in Runners : m # n => runner'[m] = runner[m]
<1>1. runner \in [Runners -> Runner]
  BY DEF Typed, RunnerType
<1>2. CASE \E e \in Events : Take(n, e)
  <2>1. PICK e \in Events : Take(n, e)
    BY <1>2
  <2> DEFINE pc == IF e \in WebhookEvents THEN "find" ELSE "begin"
             r  == [IdleRunner EXCEPT !.pc = pc, !.event = e]
  <2>2. r.pc = pc /\ pc \notin {"capture", "audit"}
    BY DEF IdleRunner
  <2>3. runner' = [runner EXCEPT ![n] = r]
    BY <2>1 DEF Take
  <2> HIDE DEF r, pc
  <2> QED BY <1>1, <2>2, <2>3
<1>3. CASE Settle(n) \/ Crash(n)
  BY <1>1, <1>3 DEF Settle, Crash, IdleRunner
<1>4. CASE FindActive(n)
  BY <1>1, <1>4 DEF FindActive, Goto, Runner
<1>5. CASE AuditCapture(n) \/ Plan(n) \/ Begin(n) \/ InsertEvent(n) \/ Commit(n) \/ CallFails(n)
  <2>1. \E pc \in RunnerPC \ {"capture", "audit"} : Goto(n, pc)
    BY <1>5 DEF AuditCapture, Plan, Begin, InsertEvent, Commit, CallFails, Rethrow, RunnerPC
  <2> QED BY <1>1, <2>1, GoOn
<1> QED BY <1>2, <1>3, <1>4, <1>5

LEMMA LogStep == Typed /\ LogInv /\ [Next]_vars => LogInv'
<1> SUFFICES ASSUME Typed, LogInv, [Next]_vars PROVE LogInv'
  OBVIOUS
<1>1. log \subseteq log' /\ RowsLogged'
  BY RowsStep DEF LogInv
<1>2. runner \in [Runners -> Runner] /\ case \in Seq(Row)
  BY DEF Typed, RunnerType
<1>3. CASE UNCHANGED <<runner, stored, audit>>
  BY <1>1, <1>3 DEF LogInv, RunnerLogged, CaptureAuditIsTrue
<1>4. ASSUME NEW n \in Runners, UNCHANGED audit, RunnerLogged(n)',
             \A m \in Runners : m # n => runner'[m] = runner[m]
      PROVE  LogInv'
  <2>1. \A m \in Runners : RunnerLogged(m)'
    BY <1>1, <1>4 DEF LogInv, RunnerLogged
  <2>2. CaptureAuditIsTrue'
    BY <1>1, <1>4 DEF LogInv, CaptureAuditIsTrue
  <2> QED BY <1>1, <2>1, <2>2 DEF LogInv
<1>5. ASSUME NEW n \in Runners, FindCase(n)
      PROVE  LogInv'
  <2>1. UNCHANGED <<case, log, audit>>
    BY <1>5 DEF FindCase, tables
  <2>2. \A m \in Runners : m # n => runner'[m] = runner[m]
    BY <1>2, <1>5 DEF FindCase
  <2> DEFINE c == content[runner[n].event].case
  <2>3. CASE c \notin 1..Len(case)
    <3>1. runner'[n].pc = "return"
      BY <1>2, <1>5, <2>3 DEF FindCase, Runner
    <3> QED BY <1>4, <2>1, <2>2, <3>1 DEF RunnerLogged
  <2>4. CASE c \in 1..Len(case)
    <3>1. \E pc \in {"return", "capture", "plan"} :
            runner' = [runner EXCEPT ![n] = ReadBy(runner[n], c, case[c].version, case[c].state, pc)]
      BY <1>5, <2>4 DEF FindCase, ReadBy
    <3>2. PICK pc \in {"return", "capture", "plan"} :
            runner' = [runner EXCEPT ![n] = ReadBy(runner[n], c, case[c].version, case[c].state, pc)]
      BY <3>1
    <3> HIDE DEF c
    <3>3. <<c, case[c].version, case[c].state>> \in log
      BY <2>4 DEF LogInv, RowsLogged
    <3>4. runner'[n] = ReadBy(runner[n], c, case[c].version, case[c].state, pc) /\ runner[n] \in Runner
      BY <1>2, <3>2
    <3>5. runner'[n].pc = pc /\ runner'[n].target = c /\ runner'[n].version = case[c].version
          /\ runner'[n].state = case[c].state
      BY <3>4 DEF ReadBy, Runner
    <3>6. RunnerLogged(n)'
      BY <2>1, <3>3, <3>5 DEF RunnerLogged
    <3> QED BY <1>4, <2>1, <2>2, <3>6
  <2> QED BY <2>3, <2>4
<1>6. ASSUME NEW n \in Runners, Capture(n)
      PROVE  LogInv'
  <2>1. runner[n].pc = "capture" /\ UNCHANGED audit
    BY <1>6 DEF Capture
  <2>2. PICK pc \in {"audit", "throw"} :
          Goto(n, pc) /\ (pc = "audit" => case[runner[n].target].version = runner[n].version
                                           /\ WriteCase(runner[n].target, "RECOVERED"))
    BY <1>6 DEF Capture, Rethrow
  <2>3. /\ runner'[n].pc = pc /\ runner'[n].target = runner[n].target
        /\ runner'[n].version = runner[n].version /\ runner'[n].state = runner[n].state
        /\ \A m \in Runners : m # n => runner'[m] = runner[m]
    BY <1>2, <2>2, GoOn DEF RunnerPC
  <2>4. <<runner[n].target, runner[n].version, runner[n].state>> \in log
    BY <2>1 DEF LogInv, RunnerLogged
  <2>5. pc = "audit" => <<runner[n].target, runner[n].version + 1, "RECOVERED">> \in log'
    BY <2>2 DEF WriteCase
  <2>6. RunnerLogged(n)'
    BY <1>1, <2>3, <2>4, <2>5 DEF RunnerLogged
  <2> QED BY <1>4, <2>1, <2>3, <2>6
<1>7. ASSUME NEW n \in Runners, AuditCapture(n) \/ Commit(n)
      PROVE  LogInv'
  <2>1. CaptureAuditIsTrue'
    <3>1. CASE AuditCapture(n)
      <4> DEFINE a == [action |-> "PAYMENT_CAPTURED_WEBHOOK", event |-> runner[n].event,
                       case |-> runner[n].target, version |-> runner[n].version,
                       previous |-> runner[n].state]
      <4>1. audit' = audit \cup {a} /\ runner[n].pc = "audit"
        BY <3>1 DEF AuditCapture
      <4>2. a.case = runner[n].target /\ a.version = runner[n].version /\ a.previous = runner[n].state
        OBVIOUS
      <4> HIDE DEF a
      <4>3. <<a.case, a.version, a.previous>> \in log' /\ <<a.case, a.version + 1, "RECOVERED">> \in log'
        BY <1>1, <4>1, <4>2 DEF LogInv, RunnerLogged
      <4> QED BY <1>1, <4>1, <4>3 DEF LogInv, CaptureAuditIsTrue
    <3>2. CASE Commit(n)
      <4>1. \A a \in audit' : a \in audit \/ a.action = "CASE_RECOVERED_BY_EVENT"
        BY <3>2 DEF Commit
      <4> QED BY <1>1, <4>1 DEF LogInv, CaptureAuditIsTrue
    <3> QED BY <1>7, <3>1, <3>2
  <2>2. /\ runner'[n].pc \notin {"capture", "audit"}
        /\ \A m \in Runners : m # n => runner'[m] = runner[m]
    BY <1>7, PlainMove
  <2>3. \A m \in Runners : RunnerLogged(m)'
    BY <1>1, <2>2 DEF LogInv, RunnerLogged
  <2> QED BY <1>1, <2>1, <2>3 DEF LogInv
<1>8. ASSUME NEW n \in Runners,
             \/ \E e \in Events : Take(n, e)
             \/ Plan(n) \/ Begin(n) \/ InsertEvent(n) \/ FindActive(n)
             \/ Settle(n) \/ CallFails(n) \/ Crash(n)
      PROVE  LogInv'
  <2>1. /\ runner'[n].pc \notin {"capture", "audit"}
        /\ \A m \in Runners : m # n => runner'[m] = runner[m]
    BY <1>8, PlainMove
  <2>2. UNCHANGED audit
    BY <1>8 DEF Take, Plan, Begin, InsertEvent, FindActive, Settle, CallFails, Crash, tables
  <2> QED BY <1>4, <2>1, <2>2 DEF RunnerLogged
<1> QED BY <1>3, <1>5, <1>6, <1>7, <1>8, RunnersOnly DEF Process

\* An audit row of a capture tells what happened to the case, although it is
\* written later and by a statement of its own.
THEOREM AuditTellsTheTruth == Spec => []CaptureAuditIsTrue
<1>1. Spec => []LogInv
  BY LogInit, LogStep, AlwaysTyped, PTL DEF Spec
<1> QED BY <1>1, PTL DEF LogInv

-----------------------------------------------------------------------------
(* IngestedOnce *)

Open(n) == runner[n].pc \in {"findActive", "commit"}

\* Each processor takes its own events; an open transaction is the only one
\* with its event, which is not stored yet.
RunnerOnce(n) ==
    /\ runner[n].pc \in {"begin", "insert", "findActive", "commit"} => runner[n].event \in IngestEvents
    /\ runner[n].pc \in {"find", "capture", "audit", "plan"} => runner[n].event \in WebhookEvents
    /\ Open(n) => /\ runner[n].event \notin stored
                  /\ \A m \in Runners : m # n /\ Open(m) => runner[m].event # runner[n].event

OnceInv == (\A n \in Runners : RunnerOnce(n)) /\ IngestedOnce

LEMMA OnceInit == Init => OnceInv
<1> SUFFICES ASSUME Init PROVE OnceInv
  OBVIOUS
<1>1. \A c \in 1..Len(case) : case[c].source = Nobody
  <2>1. InitialCases \in Nat
    BY WebhookConstants DEF WebhookConstants
  <2> QED BY <2>1 DEF Init, NewCase
<1>2. IngestedOnce
  BY <1>1 DEF Init, IngestedOnce
<1>3. \A n \in Runners : RunnerOnce(n)
  BY DEF Init, RunnerOnce, Open, IdleRunner
<1> QED BY <1>2, <1>3 DEF OnceInv

\* Rows keep their source, and only a transaction's end adds one.
LEMMA SourcesKept ==
    ASSUME Typed, [Next]_vars
    PROVE  \/ \E n \in Runners : Commit(n)
           \/ Len(case') = Len(case) /\ \A c \in 1..Len(case) : case'[c].source = case[c].source
<1>1. /\ \A n \in Runners : runner[n].pc \in {"capture", "plan"} => runner[n].target \in 1..Len(case)
      /\ case \in Seq(Row) /\ log \subseteq Nat \X Nat \X CaseState
  BY DEF Typed, RunnerType
<1>2. ASSUME NEW c \in 1..Len(case), NEW next \in CaseState, WriteCase(c, next)
      PROVE  Len(case') = Len(case) /\ \A d \in 1..Len(case) : case'[d].source = case[d].source
  <2>1. /\ Len(case') = Len(case) /\ case'[c].source = case[c].source
        /\ \A d \in 1..Len(case) : d # c => case'[d] = case[d]
    BY <1>1, <1>2, WriteRow
  <2> QED BY <2>1
<1>3. ASSUME NEW n \in Runners, Capture(n) \/ Plan(n)
      PROVE  \/ UNCHANGED case
             \/ \E c \in 1..Len(case), next \in CaseState : WriteCase(c, next)
  BY <1>1, <1>3 DEF Capture, Plan, CaseState
<1>4. ASSUME NEW c \in 1..Len(case), OtherWrite(c)
      PROVE  \E d \in 1..Len(case), next \in CaseState : WriteCase(d, next)
  BY <1>4 DEF OtherWrite, CaseState
<1> QED BY <1>2, <1>3, <1>4, RowWriters

LEMMA OnceStep == Typed /\ OnceInv /\ [Next]_vars => OnceInv'
<1> SUFFICES ASSUME Typed, OnceInv, [Next]_vars PROVE OnceInv'
  OBVIOUS
<1>1. runner \in [Runners -> Runner] /\ case \in Seq(Row)
  BY DEF Typed, RunnerType
<1>2. IngestEvents \cap WebhookEvents = {} /\ Nobody \notin Events
  BY WebhookConstants DEF WebhookConstants, Events
<1>3. ASSUME UNCHANGED stored,
             \A a \in audit' : a \in audit \/ a.event \notin IngestEvents,
             Len(case') = Len(case), \A c \in 1..Len(case) : case'[c].source = case[c].source
      PROVE  IngestedOnce'
  BY <1>3 DEF OnceInv, IngestedOnce
<1>5. CASE UNCHANGED <<runner, stored, audit>>
  <2>1. ~\E n \in Runners : Commit(n)
    <3> SUFFICES ASSUME NEW n \in Runners, Commit(n) PROVE FALSE
      OBVIOUS
    <3>1. runner'[n].pc = "return" /\ runner[n].pc = "commit"
      BY <1>1, GoOn DEF Commit, RunnerPC
    <3> QED BY <1>5, <3>1
  <2>2. IngestedOnce'
    BY <1>3, <1>5, <2>1, SourcesKept
  <2> QED BY <1>5, <2>2 DEF OnceInv, RunnerOnce, Open
<1>6. ASSUME NEW n \in Runners, \E e \in Events : Take(n, e)
      PROVE  OnceInv'
  <2>1. PICK e \in Events : Take(n, e)
    BY <1>6
  <2> DEFINE pc == IF e \in WebhookEvents THEN "find" ELSE "begin"
             r  == [IdleRunner EXCEPT !.pc = pc, !.event = e]
  <2>2. r.pc = pc /\ r.event = e
    BY DEF IdleRunner
  <2>3. runner' = [runner EXCEPT ![n] = r] /\ UNCHANGED <<stored, audit, case>>
    BY <2>1 DEF Take, tables
  <2> HIDE DEF r
  <2>4. /\ runner'[n].pc = pc /\ runner'[n].event = e
        /\ \A m \in Runners : m # n => runner'[m] = runner[m]
    BY <1>1, <2>2, <2>3
  <2>5. RunnerOnce(n)'
    BY <2>4 DEF RunnerOnce, Open, Events
  <2>6. \A m \in Runners : RunnerOnce(m)'
    BY <2>3, <2>4, <2>5 DEF OnceInv, RunnerOnce, Open
  <2> QED BY <1>3, <2>3, <2>6 DEF OnceInv
<1>7. ASSUME NEW n \in Runners, FindCase(n)
      PROVE  OnceInv'
  <2>1. UNCHANGED <<stored, audit, case>> /\ runner[n].pc = "find"
    BY <1>7 DEF FindCase, tables
  <2>2. /\ runner'[n].pc \in {"return", "capture", "plan"}
        /\ runner'[n].event = runner[n].event
        /\ \A m \in Runners : m # n => runner'[m] = runner[m]
    BY <1>1, <1>7 DEF FindCase, Runner
  <2>3. \A m \in Runners : RunnerOnce(m)'
    BY <2>1, <2>2 DEF OnceInv, RunnerOnce, Open
  <2> QED BY <1>3, <2>1, <2>3 DEF OnceInv
<1>8. ASSUME NEW n \in Runners, Capture(n) \/ Plan(n)
      PROVE  OnceInv'
  <2>1. UNCHANGED <<stored, audit>> /\ runner[n].pc \in {"capture", "plan"}
    BY <1>8 DEF Capture, Plan
  <2>2. \E pc \in {"audit", "return", "throw"} : Goto(n, pc) /\ (pc = "audit" => runner[n].pc = "capture")
    BY <1>8 DEF Capture, Plan, Rethrow
  <2>3. PICK pc \in {"audit", "return", "throw"} : Goto(n, pc) /\ (pc = "audit" => runner[n].pc = "capture")
    BY <2>2
  <2>4. /\ runner'[n].pc = pc /\ runner'[n].event = runner[n].event
        /\ \A m \in Runners : m # n => runner'[m] = runner[m]
    BY <1>1, <2>3, GoOn DEF RunnerPC
  <2>5. \A m \in Runners : RunnerOnce(m)'
    BY <2>1, <2>3, <2>4 DEF OnceInv, RunnerOnce, Open
  <2>6. ~\E m \in Runners : Commit(m)
    <3> SUFFICES ASSUME NEW m \in Runners, Commit(m) PROVE FALSE
      OBVIOUS
    <3>1. runner[m].pc = "commit" /\ runner'[m].pc = "return"
      BY <1>1, GoOn DEF Commit, RunnerPC
    <3> QED BY <2>1, <2>4, <3>1
  <2> QED BY <1>3, <2>1, <2>5, <2>6, SourcesKept DEF OnceInv
<1>9. ASSUME NEW n \in Runners,
             AuditCapture(n) \/ Begin(n) \/ Settle(n) \/ CallFails(n) \/ Crash(n)
      PROVE  OnceInv'
  <2>1. UNCHANGED <<stored, case>>
    BY <1>9 DEF AuditCapture, Begin, Settle, CallFails, Crash, tables
  <2>2. \A a \in audit' : a \in audit \/ a.event \notin IngestEvents
    <3>1. CASE AuditCapture(n)
      <4>1. runner[n].event \notin IngestEvents
        BY <1>2, <3>1 DEF AuditCapture, OnceInv, RunnerOnce
      <4> QED BY <3>1, <4>1 DEF AuditCapture
    <3> QED BY <1>9, <3>1 DEF Begin, Settle, CallFails, Crash, tables
  <2>3. /\ runner'[n].pc \in {"return", "throw", "idle", "insert"}
        /\ runner'[n].pc = "insert" => runner[n].pc = "begin" /\ runner'[n].event = runner[n].event
        /\ \A m \in Runners : m # n => runner'[m] = runner[m]
    BY <1>1, <1>9 DEF AuditCapture, Begin, Settle, CallFails, Crash, Rethrow, Goto, IdleRunner, Runner
  <2>4. \A m \in Runners : RunnerOnce(m)'
    BY <2>1, <2>3 DEF OnceInv, RunnerOnce, Open
  <2> QED BY <1>3, <2>1, <2>2, <2>4 DEF OnceInv
<1>10. ASSUME NEW n \in Runners, InsertEvent(n) \/ FindActive(n)
       PROVE  OnceInv'
  <2>1. UNCHANGED <<stored, audit, case>>
    BY <1>10 DEF InsertEvent, FindActive, tables
  <2>2. /\ runner'[n].pc \in {"return", "findActive", "commit"}
        /\ runner'[n].event = runner[n].event
        /\ \A m \in Runners : m # n => runner'[m] = runner[m]
    <3>1. CASE InsertEvent(n)
      BY <1>1, <3>1 DEF InsertEvent, Goto, Runner
    <3>2. CASE FindActive(n) /\ Goto(n, "commit")
      BY <1>1, <3>2, GoOn DEF RunnerPC
    <3>3. CASE \E c \in 1..Len(case) : Finds(n, c)
      <4>1. PICK c \in 1..Len(case) : Finds(n, c)
        BY <3>3
      <4> DEFINE r == ReadBy(runner[n], c, case[c].version, case[c].state, "commit")
      <4>2. r.pc = "commit" /\ r.event = runner[n].event
        BY <1>1 DEF ReadBy, Runner
      <4>3. runner' = [runner EXCEPT ![n] = r]
        BY <4>1 DEF Finds
      <4> HIDE DEF r
      <4> QED BY <1>1, <4>2, <4>3
    <3> QED BY <1>10, <3>1, <3>2, <3>3, FindsOne
  <2>3. runner[n].pc \in {"insert", "findActive"}
    BY <1>10 DEF InsertEvent, FindActive
  <2>4. runner'[n].pc # "return" =>
          /\ runner[n].event \notin stored
          /\ \A m \in Runners : m # n /\ Open(m) => runner[m].event # runner[n].event
    <3>1. CASE InsertEvent(n)
      BY <1>1, <3>1 DEF InsertEvent, Inserting, Open, Goto, Runner
    <3>2. CASE FindActive(n)
      BY <3>2 DEF FindActive, OnceInv, RunnerOnce, Open
    <3> QED BY <1>10, <3>1, <3>2
  <2>5. \A m \in Runners : RunnerOnce(m)'
    BY <2>1, <2>2, <2>3, <2>4 DEF OnceInv, RunnerOnce, Open
  <2> QED BY <1>3, <2>1, <2>5 DEF OnceInv
<1>11. ASSUME NEW n \in Runners, Commit(n)
       PROVE  OnceInv'
  <2> PICK e \in Events : e = runner[n].event
    BY <1>11 DEF Commit, Typed, RunnerType
  <2>1. /\ e \in IngestEvents /\ e \notin stored
        /\ \A m \in Runners : m # n /\ Open(m) => runner[m].event # e
    BY <1>11 DEF Commit, OnceInv, RunnerOnce, Open
  <2>2. stored' = stored \cup {e} /\ Goto(n, "return")
    BY <1>11 DEF Commit
  <2>3. /\ runner'[n].pc = "return"
        /\ \A m \in Runners : m # n => runner'[m] = runner[m]
    BY <1>1, <2>2, GoOn DEF RunnerPC
  <2>4. \A m \in Runners : RunnerOnce(m)'
    BY <2>1, <2>2, <2>3 DEF OnceInv, RunnerOnce, Open
  <2>5. CASE runner[n].target # 0
    <3>1. runner[n].target \in 1..Len(case) /\ "RECOVERED" \in CaseState
      BY <2>5 DEF Typed, RunnerType, Runner, CaseState
    <3>2. WriteCase(runner[n].target, "RECOVERED")
      BY <1>11, <2>5 DEF Commit
    <3>3. /\ Len(case') = Len(case)
          /\ case'[runner[n].target].source = case[runner[n].target].source
          /\ \A d \in 1..Len(case) : d # runner[n].target => case'[d] = case[d]
      BY <1>1, <3>1, <3>2, WriteRow DEF Typed, RunnerType
    <3>4. \A d \in 1..Len(case) : case'[d].source = case[d].source
      BY <3>3
    <3>5. PICK a : audit' = audit \cup {a} /\ a.event = e
      <4> DEFINE c == runner[n].target
                 b == [action |-> "CASE_RECOVERED_BY_EVENT", event |-> runner[n].event, case |-> c,
                       version |-> case[c].version, previous |-> runner[n].state]
      <4>1. b.event = e
        OBVIOUS
      <4>2. audit' = audit \cup {b}
        BY <1>11, <2>5 DEF Commit
      <4> HIDE DEF b
      <4> QED BY <4>1, <4>2
    <3>6. IngestedOnce'
      BY <2>1, <2>2, <3>3, <3>4, <3>5 DEF OnceInv, IngestedOnce
    <3> QED BY <2>4, <3>6 DEF OnceInv
  <2>6. CASE runner[n].target = 0 /\ CreateCase(e)
    <3>1. /\ Len(case') = Len(case) + 1 /\ case'[Len(case) + 1] = NewCase(e)
          /\ \A d \in 1..Len(case) : case'[d] = case[d]
      BY <2>6, AppendRow DEF Typed, RunnerType
    <3>2. NewCase(e).source = e
      BY DEF NewCase
    <3>3. \A d \in 1..Len(case') : d \in 1..Len(case) \/ (d = Len(case) + 1 /\ case'[d].source = e)
      BY <1>1, <3>1, <3>2
    <3>4. UNCHANGED audit
      BY <1>11, <2>6 DEF Commit
    <3>5. \A d \in 1..Len(case) : case[d].source # e
      BY <1>2, <2>1 DEF OnceInv, IngestedOnce
    <3>6. IngestedOnce'
      BY <2>1, <2>2, <3>1, <3>3, <3>4, <3>5 DEF OnceInv, IngestedOnce
    <3> QED BY <2>4, <3>6 DEF OnceInv
  <2>7. CASE runner[n].target = 0 /\ UNCHANGED case
    <3>1. UNCHANGED audit
      BY <1>11, <2>7 DEF Commit
    <3>2. IngestedOnce'
      BY <2>2, <2>7, <3>1 DEF OnceInv, IngestedOnce
    <3> QED BY <2>4, <3>2 DEF OnceInv
  <2> QED BY <1>11, <2>5, <2>6, <2>7 DEF Commit
<1> QED BY <1>5, <1>6, <1>7, <1>8, <1>9, <1>10, <1>11, RunnersOnly DEF Process

\* However often it is delivered and however its runs overlap, an event opens or
\* recovers at most one case, once, and is stored then.
THEOREM EventIngestedOnce == Spec => []IngestedOnce
<1>1. Spec => []OnceInv
  BY OnceInit, OnceStep, AlwaysTyped, PTL DEF Spec
<1> QED BY <1>1, PTL DEF OnceInv

-----------------------------------------------------------------------------
(* CompletedCaptureIsApplied *)

Captured(e) ==
    /\ e \in WebhookEvents
    /\ content[e].type = "captured"
    /\ content[e].case \in 1..InitialCases

\* The case of event e has been closed at some time.
HasClosed(e) ==
    \E v \in 1..case[content[e].case].version, s \in ClosedToCaptures :
      <<content[e].case, v, s>> \in log

\* There are always the first cases, whose versions start at 1.
Versioned ==
    /\ InitialCases <= Len(case)
    /\ \A c \in 1..Len(case) : case[c].version >= 1

\* A runner works on the case its event names, and has nothing more to write
\* only when a capture's case has been closed.
RunnerApplies(n) ==
    /\ runner[n].pc \in {"capture", "audit"} => runner[n].target = content[runner[n].event].case
    /\ runner[n].pc = "plan" => content[runner[n].event].type # "captured"
    /\ runner[n].pc \in {"audit", "return"} /\ Captured(runner[n].event) => HasClosed(runner[n].event)

AppliedInv ==
    /\ Versioned
    /\ \A n \in Runners : RunnerApplies(n)
    /\ CompletedCaptureIsApplied

LEMMA AppliedInit == Init => AppliedInv
<1> SUFFICES ASSUME Init PROVE AppliedInv
  OBVIOUS
<1>1. Versioned
  <2>1. InitialCases \in Nat
    BY WebhookConstants DEF WebhookConstants
  <2> QED BY <2>1 DEF Init, NewCase, Versioned
<1>2. CompletedCaptureIsApplied
  BY DEF Init, CompletedCaptureIsApplied, Events
<1>3. \A n \in Runners : RunnerApplies(n)
  BY DEF Init, RunnerApplies, IdleRunner
<1> QED BY <1>1, <1>2, <1>3 DEF AppliedInv

LEMMA ContentKept == [Next]_vars => UNCHANGED content
BY DEF Next, vars, Deliver, Serve, Register, AddJob, RequestFails, Take, Settle,
       Process, FindCase, Capture, AuditCapture, Plan, Begin, InsertEvent, FindActive, Commit,
       CallFails, Crash, GrowsStale, StallOrphan, StallLive, Stall, OtherWrite

\* A job is completed by a runner that has returned.
LEMMA CompletedBy ==
    ASSUME Typed, [Next]_vars, NEW e \in Events, job'[e].status = "completed"
    PROVE  \/ job[e].status = "completed"
           \/ \E n \in Runners : Settle(n) /\ runner[n].pc = "return" /\ runner[n].event = e
<1>1. job \in [Events -> Job] /\ \A n \in Runners : runner[n].pc # "idle" => runner[n].event \in Events
  BY DEF Typed, RunnerType, QueueType
<1>2. ASSUME NEW q \in Requests, AddJob(q)
      PROVE  job[e].status = "completed"
  BY <1>1, <1>2 DEF AddJob, Job
<1>3. ASSUME NEW n \in Runners, NEW f \in Events, Take(n, f)
      PROVE  job[e].status = "completed"
  BY <1>1, <1>3 DEF Take, Job
<1>4. ASSUME NEW n \in Runners, Settle(n)
      PROVE  job[e].status = "completed" \/ (runner[n].pc = "return" /\ runner[n].event = e)
  BY <1>1, <1>4 DEF Settle, Job
<1>5. ASSUME NEW f \in Events, Stall(f)
      PROVE  job[e].status = "completed"
  BY <1>1, <1>5 DEF Stall, Job
<1>6. \/ UNCHANGED job
      \/ \E q \in Requests : AddJob(q)
      \/ \E n \in Runners, f \in Events : Take(n, f)
      \/ \E n \in Runners : Settle(n)
      \/ \E f \in Events : Stall(f)
  BY DEF Next, vars, Deliver, Serve, Register, RequestFails, Process, FindCase, Capture,
         AuditCapture, Plan, Begin, InsertEvent, FindActive, Commit, CallFails, Crash,
         GrowsStale, StallOrphan, StallLive, OtherWrite
<1> QED BY <1>2, <1>3, <1>4, <1>5, <1>6

LEMMA VersionedStep ==
    ASSUME Typed, Versioned, [Next]_vars
    PROVE  Versioned'
<1>1. case \in Seq(Row) /\ log \subseteq Nat \X Nat \X CaseState
  BY DEF Typed, RunnerType
<1>2. Len(case) \in Nat /\ InitialCases \in Nat
  BY <1>1, WebhookConstants DEF WebhookConstants
<1>3. ASSUME NEW c \in 1..Len(case), NEW next \in CaseState, WriteCase(c, next)
      PROVE  Versioned'
  <2>1. /\ Len(case') = Len(case) /\ case'[c].version = case[c].version + 1
        /\ \A d \in 1..Len(case) : d # c => case'[d] = case[d]
    BY <1>1, <1>3, WriteRow
  <2>2. case[c] \in Row
    BY <1>1
  <2>3. case'[c].version >= 1
    BY <2>1, <2>2 DEF Row
  <2> QED BY <2>1, <2>3 DEF Versioned
<1>4. ASSUME NEW e \in Events, CreateCase(e)
      PROVE  Versioned'
  <2>1. /\ Len(case') = Len(case) + 1 /\ case'[Len(case) + 1] = NewCase(e)
        /\ \A d \in 1..Len(case) : case'[d] = case[d]
    BY <1>1, <1>4, AppendRow
  <2>2. NewCase(e).version = 1
    BY DEF NewCase
  <2>3. \A d \in 1..Len(case') : d \in 1..Len(case) \/ d = Len(case) + 1
    BY <1>2, <2>1
  <2>4. \A d \in 1..Len(case') : case'[d].version >= 1
    BY <2>1, <2>2, <2>3 DEF Versioned
  <2> QED BY <1>2, <2>1, <2>4 DEF Versioned
<1>5. CASE UNCHANGED <<case, log>>
  BY <1>5 DEF Versioned
<1> QED BY <1>3, <1>4, <1>5, RowChange

-----------------------------------------------------------------------------
(* RecoveryAuditIsPast *)

\* A transaction looks for the active case before it has a target, and what it has
\* found is a row there has been.
RunnerFound(n) ==
    /\ runner[n].pc \in {"begin", "insert", "findActive"} => runner[n].target = 0
    /\ runner[n].pc = "commit" /\ runner[n].target # 0 =>
         /\ <<runner[n].target, runner[n].version, runner[n].state>> \in log
         /\ runner[n].version \in 1..case[runner[n].target].version
         /\ runner[n].state \notin NotRecoverable

FoundInv == Versioned /\ (\A n \in Runners : RunnerFound(n)) /\ RecoveryAuditIsPast

LEMMA FoundInit == Init => FoundInv
<1> SUFFICES ASSUME Init PROVE FoundInv
  OBVIOUS
<1>1. Versioned
  <2>1. InitialCases \in Nat
    BY WebhookConstants DEF WebhookConstants
  <2> QED BY <2>1 DEF Init, NewCase, Versioned
<1> QED BY <1>1 DEF Init, FoundInv, RunnerFound, IdleRunner, RecoveryAuditIsPast

LEMMA FoundStep == Typed /\ RowsLogged /\ FoundInv /\ [Next]_vars => FoundInv'
<1> SUFFICES ASSUME Typed, RowsLogged, FoundInv, [Next]_vars PROVE FoundInv'
  OBVIOUS
<1>1. /\ runner \in [Runners -> Runner] /\ case \in Seq(Row) /\ case' \in Seq(Row)
      /\ \A m \in Runners : runner[m].target <= Len(case) /\ runner[m].target \in Nat
  BY NextType DEF Typed, RunnerType, Runner
<1>2. Versioned' /\ log \subseteq log' /\ Len(case) <= Len(case')
      /\ \A c \in 1..Len(case) : case[c].version <= case'[c].version
  BY VersionedStep, RowsStep DEF FoundInv
<1>3. ASSUME NEW c \in 1..Len(case), NEW v \in 1..case[c].version
      PROVE  v \in 1..case'[c].version
  <2>1. c \in 1..Len(case')
    BY <1>1, <1>2
  <2>2. case[c] \in Row /\ case'[c] \in Row
    BY <1>1, <2>1
  <2>3. case[c].version \in Nat /\ case'[c].version \in Nat
    BY <2>2 DEF Row
  <2> QED BY <1>2, <2>3
<1>4. ASSUME NEW m \in Runners, runner'[m] = runner[m]
      PROVE  RunnerFound(m)'
  <2>1. CASE runner[m].pc = "commit" /\ runner[m].target # 0
    <3>1. runner[m].target \in 1..Len(case)
      BY <1>1, <2>1
    <3>2. RunnerFound(m)
      BY DEF FoundInv
    <3> QED BY <1>2, <1>3, <1>4, <2>1, <3>1, <3>2 DEF RunnerFound
  <2>2. CASE ~(runner[m].pc = "commit" /\ runner[m].target # 0)
    BY <1>4, <2>2 DEF FoundInv, RunnerFound
  <2> QED BY <2>1, <2>2
<1>5. ASSUME \A a \in audit' : a \in audit \/ a.action # "CASE_RECOVERED_BY_EVENT"
      PROVE  RecoveryAuditIsPast'
  BY <1>2, <1>5 DEF FoundInv, RecoveryAuditIsPast
<1>6. ASSUME NEW n \in Runners, \A m \in Runners : m # n => runner'[m] = runner[m],
             RunnerFound(n)', RecoveryAuditIsPast'
      PROVE  FoundInv'
  BY <1>2, <1>4, <1>6 DEF FoundInv
<1>7. CASE UNCHANGED <<runner, stored, audit>>
  <2>1. \A m \in Runners : RunnerFound(m)'
    BY <1>4, <1>7
  <2> QED BY <1>2, <1>5, <1>7, <2>1 DEF FoundInv
<1>8. ASSUME NEW n \in Runners, FindActive(n)
      PROVE  FoundInv'
  <2>1. UNCHANGED <<case, log, audit>> /\ runner[n].pc = "findActive"
    BY <1>8 DEF FindActive, tables
  <2>2. runner[n].target = 0
    BY <2>1 DEF FoundInv, RunnerFound
  <2>3. CASE Goto(n, "commit")
    <3>1. /\ runner'[n].pc = "commit" /\ runner'[n].target = 0
          /\ \A m \in Runners : m # n => runner'[m] = runner[m]
      BY <1>1, <2>2, <2>3, GoOn DEF RunnerPC
    <3>2. RunnerFound(n)'
      BY <3>1 DEF RunnerFound
    <3> QED BY <1>5, <1>6, <2>1, <3>1, <3>2
  <2>4. CASE \E c \in 1..Len(case) : Finds(n, c)
    <3>1. PICK c \in 1..Len(case) : Finds(n, c)
      BY <2>4
    <3>2. runner' = [runner EXCEPT ![n] = ReadBy(runner[n], c, case[c].version, case[c].state, "commit")]
          /\ case[c].state \notin NotRecoverable
      BY <3>1 DEF Finds
    <3>3. runner'[n] = ReadBy(runner[n], c, case[c].version, case[c].state, "commit")
          /\ runner[n] \in Runner /\ \A m \in Runners : m # n => runner'[m] = runner[m]
      BY <1>1, <3>2
    <3>4. /\ runner'[n].pc = "commit" /\ runner'[n].target = c
          /\ runner'[n].version = case[c].version /\ runner'[n].state = case[c].state
      BY <3>3 DEF ReadBy, Runner
    <3>5. <<c, case[c].version, case[c].state>> \in log
      BY DEF RowsLogged
    <3>6. case[c].version \in 1..case[c].version
      <4>1. case[c] \in Row /\ case[c].version >= 1
        BY <1>1 DEF FoundInv, Versioned
      <4> QED BY <4>1 DEF Row
    <3>7. <<runner'[n].target, runner'[n].version, runner'[n].state>> \in log'
      BY <2>1, <3>4, <3>5
    <3>8. runner'[n].version \in 1..case'[runner'[n].target].version
      BY <2>1, <3>4, <3>6
    <3>9. runner'[n].state \notin NotRecoverable
      BY <3>2, <3>4
    <3>10. RunnerFound(n)'
      BY <3>4, <3>7, <3>8, <3>9 DEF RunnerFound
    <3> QED BY <1>5, <1>6, <2>1, <3>3, <3>10
  <2> QED BY <1>8, <2>3, <2>4, FindsOne
<1>9. ASSUME NEW n \in Runners, Commit(n)
      PROVE  FoundInv'
  <2>1. runner[n].pc = "commit" /\ Goto(n, "return")
    BY <1>9 DEF Commit
  <2>2. /\ runner'[n].pc = "return" /\ \A m \in Runners : m # n => runner'[m] = runner[m]
    BY <1>1, <2>1, GoOn DEF RunnerPC
  <2>3. RunnerFound(n)'
    BY <2>2 DEF RunnerFound
  <2>4. CASE runner[n].target = 0
    <3>1. UNCHANGED audit
      BY <1>9, <2>4 DEF Commit
    <3> QED BY <1>5, <1>6, <2>2, <2>3, <3>1
  <2>5. CASE runner[n].target # 0
    <3> PICK c \in 1..Len(case) : c = runner[n].target
      BY <1>1, <2>5
    <3> DEFINE a == [action |-> "CASE_RECOVERED_BY_EVENT", event |-> runner[n].event, case |-> c,
                     version |-> case[c].version, previous |-> runner[n].state]
    <3>1. audit' = audit \cup {a} /\ WriteCase(c, "RECOVERED")
      BY <1>9, <2>5 DEF Commit
    <3>2. a.case = c /\ a.version = case[c].version /\ a.previous = runner[n].state
      OBVIOUS
    <3> HIDE DEF a
    <3>3. /\ <<c, runner[n].version, runner[n].state>> \in log
          /\ runner[n].version \in 1..case[c].version
          /\ runner[n].state \notin NotRecoverable
      BY <2>1, <2>5 DEF FoundInv, RunnerFound
    <3>4. <<c, case[c].version + 1, "RECOVERED">> \in log'
      BY <3>1 DEF WriteCase
    <3>5. /\ <<a.case, a.version + 1, "RECOVERED">> \in log'
          /\ a.previous \notin NotRecoverable
          /\ \E v \in 1..a.version : <<a.case, v, a.previous>> \in log'
      BY <1>2, <3>2, <3>3, <3>4
    <3>6. RecoveryAuditIsPast'
      BY <1>2, <3>1, <3>5 DEF FoundInv, RecoveryAuditIsPast
    <3> QED BY <1>6, <2>2, <2>3, <3>6
  <2> QED BY <2>4, <2>5
<1>10. ASSUME NEW n \in Runners, Begin(n) \/ InsertEvent(n)
       PROVE  FoundInv'
  <2>1. runner[n].pc \in {"begin", "insert"} /\ UNCHANGED audit
    BY <1>10 DEF Begin, InsertEvent, tables
  <2>2. \E pc \in RunnerPC : Goto(n, pc)
    BY <1>10 DEF Begin, InsertEvent, RunnerPC
  <2>3. PICK pc \in RunnerPC : Goto(n, pc)
    BY <2>2
  <2>4. /\ runner'[n].target = runner[n].target
        /\ \A m \in Runners : m # n => runner'[m] = runner[m]
    BY <1>1, <2>3, GoOn
  <2>5. runner[n].target = 0
    BY <2>1 DEF FoundInv, RunnerFound
  <2>6. RunnerFound(n)'
    BY <2>4, <2>5 DEF RunnerFound
  <2> QED BY <1>5, <1>6, <2>1, <2>4, <2>6
<1>11. ASSUME NEW n \in Runners, \E e \in Events : Take(n, e)
       PROVE  FoundInv'
  <2>1. PICK e \in Events : Take(n, e)
    BY <1>11
  <2> DEFINE pc == IF e \in WebhookEvents THEN "find" ELSE "begin"
             r  == [IdleRunner EXCEPT !.pc = pc, !.event = e]
  <2>2. r.target = 0
    BY DEF IdleRunner
  <2>3. runner' = [runner EXCEPT ![n] = r] /\ UNCHANGED audit
    BY <2>1 DEF Take, tables
  <2> HIDE DEF r
  <2>4. runner'[n].target = 0 /\ \A m \in Runners : m # n => runner'[m] = runner[m]
    BY <1>1, <2>2, <2>3
  <2>5. RunnerFound(n)'
    BY <2>4 DEF RunnerFound
  <2> QED BY <1>5, <1>6, <2>3, <2>4, <2>5
<1>12. ASSUME NEW n \in Runners,
              \/ FindCase(n) \/ Capture(n) \/ AuditCapture(n) \/ Plan(n)
              \/ Settle(n) \/ CallFails(n) \/ Crash(n)
       PROVE  FoundInv'
  <2>1. /\ runner'[n].pc \in {"return", "capture", "plan", "audit", "throw", "idle"}
        /\ \A m \in Runners : m # n => runner'[m] = runner[m]
    <3>1. CASE FindCase(n)
      BY <1>1, <3>1 DEF FindCase, Runner
    <3>2. CASE Settle(n) \/ Crash(n)
      BY <1>1, <3>2 DEF Settle, Crash, IdleRunner
    <3>3. CASE Capture(n) \/ AuditCapture(n) \/ Plan(n) \/ CallFails(n)
      <4>1. \E pc \in {"audit", "return", "throw"} : Goto(n, pc)
        BY <3>3 DEF Capture, AuditCapture, Plan, CallFails, Rethrow
      <4> QED BY <1>1, <4>1, GoOn DEF RunnerPC
    <3> QED BY <1>12, <3>1, <3>2, <3>3
  <2>2. RunnerFound(n)'
    BY <2>1 DEF RunnerFound
  <2>3. \A a \in audit' : a \in audit \/ a.action # "CASE_RECOVERED_BY_EVENT"
    <3>1. CASE Capture(n)
      BY <3>1 DEF Capture
    <3>2. CASE AuditCapture(n)
      BY <3>2 DEF AuditCapture
    <3>3. CASE FindCase(n) \/ Plan(n) \/ Settle(n) \/ CallFails(n) \/ Crash(n)
      BY <3>3 DEF FindCase, Plan, Settle, CallFails, Crash, tables
    <3> QED BY <1>12, <3>1, <3>2, <3>3
  <2> QED BY <1>5, <1>6, <2>1, <2>2, <2>3
<1> QED BY <1>7, <1>8, <1>9, <1>10, <1>11, <1>12, RunnersOnly DEF Process

\* The audit row of a PAYMENT_RECOVERED names a state in which the case was when
\* it was found or before: out of date at worst, never made up, and never that of
\* a case that was closed when it was found.
THEOREM RecoveryAuditNamesThePast == Spec => []RecoveryAuditIsPast
<1>1. Spec => []LogInv
  BY LogInit, LogStep, AlwaysTyped, PTL DEF Spec
<1>2. LogInv => RowsLogged
  BY DEF LogInv
<1>3. Spec => []FoundInv
  BY <1>1, <1>2, FoundInit, FoundStep, AlwaysTyped, PTL DEF Spec
<1> QED BY <1>3, PTL DEF FoundInv

-----------------------------------------------------------------------------
(* CompletedCaptureIsApplied, continued *)

\* A case that has been closed has been closed for ever.
LEMMA ClosedStays ==
    ASSUME Typed, RowsLogged, Versioned, [Next]_vars, NEW e \in Events, Captured(e), HasClosed(e)
    PROVE  Captured(e)' /\ HasClosed(e)'
<1>1. PICK v \in 1..case[content[e].case].version, s \in ClosedToCaptures :
        <<content[e].case, v, s>> \in log
  BY DEF HasClosed
<1>2. UNCHANGED content
  BY ContentKept
<1>3. InitialCases \in Nat /\ case \in Seq(Row) /\ case' \in Seq(Row)
  BY WebhookConstants, NextType DEF WebhookConstants, Typed, RunnerType
<1> PICK c \in 1..InitialCases : c = content[e].case
  BY DEF Captured
<1>4. c \in 1..Len(case) /\ c \in 1..Len(case')
  BY <1>3, RowsStep DEF Versioned
<1>5. case[c] \in Row /\ case'[c] \in Row
  BY <1>3, <1>4
<1>6. case[c].version <= case'[c].version /\ case[c].version \in Nat /\ case'[c].version \in Nat
  <2>1. case[c].version \in Nat /\ case'[c].version \in Nat
    BY <1>5 DEF Row
  <2> QED BY <1>4, <2>1, RowsStep
<1>7. v \in 1..case'[c].version
  BY <1>1, <1>6
<1>8. <<c, v, s>> \in log'
  BY <1>1, RowsStep
<1>9. Captured(e)'
  BY <1>2 DEF Captured
<1>10. HasClosed(e)'
  BY <1>1, <1>2, <1>7, <1>8 DEF HasClosed
<1> QED BY <1>9, <1>10

LEMMA AppliedStep == Typed /\ LogInv /\ OnceInv /\ AppliedInv /\ [Next]_vars => AppliedInv'
<1> SUFFICES ASSUME Typed, LogInv, OnceInv, AppliedInv, [Next]_vars PROVE AppliedInv'
  OBVIOUS
<1>1. /\ runner \in [Runners -> Runner] /\ case \in Seq(Row)
      /\ \A n \in Runners : runner[n].pc # "idle" => runner[n].event \in Events
  BY DEF Typed, RunnerType
<1>2. UNCHANGED content /\ Versioned'
  BY ContentKept, VersionedStep DEF AppliedInv
<1>3. RowsLogged /\ RowsLogged' /\ log \subseteq log'
  BY RowsStep DEF LogInv
<1>4. \A e \in Events : /\ Captured(e) => Captured(e)'
                        /\ Captured(e)' => Captured(e)
                        /\ Captured(e) /\ HasClosed(e) => HasClosed(e)'
  <2>1. \A e \in Events : (Captured(e) => Captured(e)') /\ (Captured(e)' => Captured(e))
    BY <1>2 DEF Captured
  <2> QED BY <1>3, <2>1, ClosedStays DEF AppliedInv
<1>5. CompletedCaptureIsApplied'
  <2> SUFFICES ASSUME NEW e \in WebhookEvents, Captured(e), job'[e].status = "completed"
               PROVE  HasClosed(e)'
    BY <1>2 DEF CompletedCaptureIsApplied, Captured, HasClosed
  <2>1. e \in Events
    BY DEF Events
  <2>2. CASE job[e].status = "completed"
    <3>1. HasClosed(e)
      BY <2>2 DEF AppliedInv, CompletedCaptureIsApplied, Captured, HasClosed
    <3> QED BY <1>4, <2>1, <3>1
  <2>3. CASE \E n \in Runners : Settle(n) /\ runner[n].pc = "return" /\ runner[n].event = e
    <3>1. HasClosed(e)
      BY <2>3 DEF AppliedInv, RunnerApplies
    <3> QED BY <1>4, <2>1, <3>1
  <2> QED BY <2>1, <2>2, <2>3, CompletedBy
<1>6. ASSUME NEW m \in Runners, runner'[m] = runner[m]
      PROVE  RunnerApplies(m)'
  <2>1. runner[m].pc # "idle" => runner[m].event \in Events
    BY <1>1
  <2> QED BY <1>2, <1>4, <1>6, <2>1 DEF AppliedInv, RunnerApplies
<1>7. ASSUME NEW n \in Runners, \A m \in Runners : m # n => runner'[m] = runner[m],
             RunnerApplies(n)'
      PROVE  AppliedInv'
  BY <1>2, <1>5, <1>6, <1>7 DEF AppliedInv
<1>8. CASE UNCHANGED <<runner, stored, audit>>
  BY <1>2, <1>5, <1>6, <1>8 DEF AppliedInv
<1>9. ASSUME NEW n \in Runners, FindCase(n)
      PROVE  AppliedInv'
  <2> PICK e \in Events : e = runner[n].event
    BY <1>1, <1>9 DEF FindCase
  <2> DEFINE c == content[e].case
  <2>1. UNCHANGED <<case, log>> /\ \A m \in Runners : m # n => runner'[m] = runner[m]
    BY <1>1, <1>9 DEF FindCase, tables
  <2>2. CASE c \notin 1..Len(case)
    <3>1. runner'[n].pc = "return" /\ runner'[n].event = e
      BY <1>1, <1>9, <2>2 DEF FindCase, Runner
    <3>2. ~Captured(e)
      <4>1. InitialCases \in Nat /\ Len(case) \in Nat /\ InitialCases <= Len(case)
        BY <1>1, WebhookConstants DEF WebhookConstants, AppliedInv, Versioned
      <4> QED BY <2>2, <4>1 DEF Captured
    <3> QED BY <1>2, <1>4, <1>7, <2>1, <3>1, <3>2 DEF RunnerApplies
  <2>3. CASE c \in 1..Len(case)
    <3> DEFINE pc == CASE content[e].type = "captured" ->
                            IF case[c].state \in ClosedToCaptures THEN "return" ELSE "capture"
                       [] content[e].type = "failed" -> "plan"
                       [] OTHER -> "return"
    <3>1. runner' = [runner EXCEPT ![n] = ReadBy(runner[n], c, case[c].version, case[c].state, pc)]
      BY <1>9, <2>3 DEF FindCase, ReadBy
    <3>2. /\ pc \in {"return", "capture", "plan"}
          /\ pc = "plan" => content[e].type # "captured"
          /\ pc = "return" /\ content[e].type = "captured" => case[c].state \in ClosedToCaptures
      OBVIOUS
    <3> HIDE DEF pc
    <3>3. runner'[n].pc = pc /\ runner'[n].target = c /\ runner'[n].event = e
      BY <1>1, <3>1 DEF ReadBy, Runner
    <3>4. pc = "return" /\ Captured(e) => HasClosed(e)
      <4>1. <<c, case[c].version, case[c].state>> \in log
        BY <1>3, <2>3 DEF RowsLogged
      <4>2. case[c] \in Row /\ case[c].version >= 1
        BY <1>1, <2>3 DEF AppliedInv, Versioned
      <4>3. case[c].version \in 1..case[c].version
        BY <4>2 DEF Row
      <4> QED BY <3>2, <4>1, <4>3 DEF Captured, HasClosed
    <3>5. pc = "return" /\ Captured(e)' => HasClosed(e)'
      BY <1>4, <3>4
    <3>6. RunnerApplies(n)'
      BY <1>2, <3>2, <3>3, <3>5 DEF RunnerApplies
    <3> QED BY <1>7, <2>1, <3>6
  <2> QED BY <2>2, <2>3
<1>10. ASSUME NEW n \in Runners, Capture(n)
       PROVE  AppliedInv'
  <2> PICK e \in Events : e = runner[n].event
    BY <1>1, <1>10 DEF Capture
  <2> PICK c \in 1..Len(case) : c = runner[n].target
    BY <1>10 DEF Capture, Typed, RunnerType
  <2>1. PICK pc \in {"audit", "throw"} :
          Goto(n, pc) /\ (pc = "audit" => WriteCase(c, "RECOVERED"))
    BY <1>10 DEF Capture, Rethrow
  <2>2. /\ runner'[n].pc = pc /\ runner'[n].event = e /\ runner'[n].target = c
        /\ \A m \in Runners : m # n => runner'[m] = runner[m]
    BY <1>1, <2>1, GoOn DEF RunnerPC
  <2>3. c = content[e].case
    BY <1>10 DEF Capture, AppliedInv, RunnerApplies
  <2>4. pc = "audit" => HasClosed(e)'
    <3> SUFFICES ASSUME pc = "audit" PROVE HasClosed(e)'
      OBVIOUS
    <3>1. WriteCase(c, "RECOVERED") /\ "RECOVERED" \in CaseState
      BY <2>1 DEF CaseState
    <3>2. case'[c].version = case[c].version + 1 /\ <<c, case[c].version + 1, "RECOVERED">> \in log'
      BY <3>1, WriteRow DEF Typed, RunnerType
    <3>3. case[c] \in Row
      BY <1>1
    <3>4. case[c].version + 1 \in 1..case'[c].version
      BY <3>2, <3>3 DEF Row
    <3> QED BY <1>2, <2>3, <3>2, <3>4 DEF HasClosed, ClosedToCaptures
  <2>5. RunnerApplies(n)'
    BY <1>2, <2>2, <2>3, <2>4 DEF RunnerApplies
  <2> QED BY <1>7, <2>2, <2>5
<1>11. ASSUME NEW n \in Runners,
              \/ AuditCapture(n) \/ Plan(n) \/ Begin(n) \/ InsertEvent(n) \/ Commit(n) \/ CallFails(n)
       PROVE  AppliedInv'
  <2> PICK e \in Events : e = runner[n].event
    BY <1>1, <1>11 DEF AuditCapture, Plan, Begin, InsertEvent, Commit, CallFails
  <2>1. PICK pc \in {"return", "throw", "insert", "findActive", "commit"} : Goto(n, pc)
    BY <1>11 DEF AuditCapture, Plan, Begin, InsertEvent, Commit, CallFails, Rethrow
  <2>2. /\ runner'[n].pc = pc /\ runner'[n].event = e
        /\ \A m \in Runners : m # n => runner'[m] = runner[m]
    BY <1>1, <2>1, GoOn DEF RunnerPC
  <2>3. pc = "return" /\ Captured(e) => HasClosed(e)
    <3>1. CASE AuditCapture(n)
      BY <3>1 DEF AuditCapture, AppliedInv, RunnerApplies
    <3>2. CASE Plan(n)
      BY <3>2 DEF Plan, AppliedInv, RunnerApplies, Captured
    <3>3. CASE Begin(n) \/ InsertEvent(n) \/ Commit(n)
      BY <3>3, WebhookConstants
         DEF Begin, InsertEvent, Commit, OnceInv, RunnerOnce, Captured, WebhookConstants
    <3>4. CASE CallFails(n)
      <4>1. runner'[n].pc = "throw"
        BY <1>1, <3>4, GoOn DEF CallFails, Rethrow, RunnerPC
      <4> QED BY <2>2, <4>1
    <3> QED BY <1>11, <3>1, <3>2, <3>3, <3>4
  <2>4. RunnerApplies(n)'
    BY <1>4, <2>2, <2>3 DEF RunnerApplies
  <2> QED BY <1>7, <2>2, <2>4
<1>12. ASSUME NEW n \in Runners, (\E e \in Events : Take(n, e)) \/ FindActive(n) \/ Settle(n) \/ Crash(n)
       PROVE  AppliedInv'
  <2>1. /\ runner'[n].pc \in {"find", "begin", "commit", "idle"}
        /\ \A m \in Runners : m # n => runner'[m] = runner[m]
    <3>1. CASE \E e \in Events : Take(n, e)
      <4>1. PICK e \in Events : Take(n, e)
        BY <3>1
      <4> DEFINE pc == IF e \in WebhookEvents THEN "find" ELSE "begin"
                 r  == [IdleRunner EXCEPT !.pc = pc, !.event = e]
      <4>2. r.pc = pc
        BY DEF IdleRunner
      <4>3. runner' = [runner EXCEPT ![n] = r]
        BY <4>1 DEF Take
      <4> HIDE DEF r
      <4> QED BY <1>1, <4>2, <4>3
    <3>2. CASE FindActive(n)
      BY <1>1, <3>2 DEF FindActive, Goto, Runner
    <3>3. CASE Settle(n) \/ Crash(n)
      BY <1>1, <3>3 DEF Settle, Crash, IdleRunner
    <3> QED BY <1>12, <3>1, <3>2, <3>3
  <2> QED BY <1>7, <2>1 DEF RunnerApplies
<1> QED BY <1>8, <1>9, <1>10, <1>11, <1>12, RunnersOnly DEF Process

\* A capture whose job is completed has had its effect, now or before: one that
\* lost a race for its case is never reported as done.
THEOREM CompletedMeansApplied == Spec => []CompletedCaptureIsApplied
<1>1. Spec => []LogInv
  BY LogInit, LogStep, AlwaysTyped, PTL DEF Spec
<1>2. Spec => []OnceInv
  BY OnceInit, OnceStep, AlwaysTyped, PTL DEF Spec
<1>3. Spec => []AppliedInv
  BY <1>1, <1>2, AppliedInit, AppliedStep, AlwaysTyped, PTL DEF Spec
<1> QED BY <1>3, PTL DEF AppliedInv
=============================================================================
