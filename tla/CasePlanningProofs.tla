-------------------------- MODULE CasePlanningProofs --------------------------
(***************************************************************************)
(* Theorems about CasePlanning, for any number of cases, crons, requests,  *)
(* policies and interventions and any bounds.                              *)
(***************************************************************************)
EXTENDS CasePlanning, TLAPS

-----------------------------------------------------------------------------
(* The inductive invariant *)

Keyed     == {"read", "check", "write", "enqueue", "enqueueRead", "enqueueCheck", "enqueueWrite"}
Proposed  == {"read", "check", "write"}
Versioned == {"check", "write", "enqueueCheck", "enqueueWrite"}
Enqueuing == {"enqueueRead", "enqueueCheck", "enqueueWrite"}

\* What TypeOK says of one planner's record r.
Typed(r) ==
    /\ r \in Planner
    /\ r.pc \notin {"idle", "nextCase"} => r.case \in Cases
    /\ r.pc \in Keyed => r.key \in PlanKey

\* What a planner's record r means for the rows, plans and events of the moment:
\* the version it has read is not ahead of the row, and as long as it is the
\* row's version, what was found after reading it is still so.
Sound(r, rows, plans, events) ==
    /\ r.pc \in Keyed => CaseOf(r.key) = r.case
    /\ r.pc \in Proposed => r.decision \in Decisions
    /\ r.pc \in Versioned => r.seen <= rows[r.case].version
    /\ r.pc = "write" /\ rows[r.case].version = r.seen => plans[r.key] = "none"
    /\ r.pc = "enqueueWrite" /\ rows[r.case].version = r.seen => r.key \notin events
    /\ r.pc \in {"enqueueCheck", "enqueueWrite"} /\ rows[r.case].version = r.seen
          => rows[r.case].state = "POLICY_CHECKED"
    /\ r.pc \in Enqueuing => plans[r.key] = "approved"

PlannersSound == \A p \in Planners : Sound(planner[p], case, plan, outbox)

PlanInv ==
    /\ TypeOK
    /\ PlannersSound
    /\ OnlyApprovedPlansEnqueued
    /\ PolicyCheckedIsEnqueueable

LEMMA TypedPlanners == TypeOK => \A p \in Planners : Typed(planner[p])
BY DEF TypeOK, Typed, Keyed

LEMMA IdleType == Idle \in Planner /\ Typed(Idle)
<1>1. Idle \in Planner
  BY PlanningConstants DEF Idle, Planner, PC
<1>2. QED
  BY <1>1 DEF Idle, Typed, Keyed

-----------------------------------------------------------------------------
(* Steps by kind *)

\* A step that only moves one planner keeps the invariant if the planner's new
\* record is typed and sound.
LEMMA LocalStep ==
    ASSUME PlanInv, NEW p \in Planners, NEW r, Typed(r), Sound(r, case, plan, outbox),
           planner' = [planner EXCEPT ![p] = r],
           UNCHANGED <<case, policy, plan, outbox, external>>, faults' \in 0..MaxFaults
    PROVE  PlanInv'
<1>1. TypeOK'
  <2>1. planner' \in [Planners -> Planner]
    BY DEF PlanInv, TypeOK, Typed
  <2>2. \A q \in Planners : Typed(planner'[q])
    BY TypedPlanners DEF PlanInv, TypeOK
  <2>3. QED
    BY <2>1, <2>2 DEF PlanInv, TypeOK, Typed, Keyed
<1>2. PlannersSound'
  <2>1. ASSUME NEW q \in Planners PROVE Sound(planner'[q], case', plan', outbox')
    BY DEF PlanInv, TypeOK, PlannersSound
  <2>2. QED
    BY <2>1 DEF PlannersSound
<1>3. OnlyApprovedPlansEnqueued' /\ PolicyCheckedIsEnqueueable'
  BY DEF PlanInv, OnlyApprovedPlansEnqueued, PolicyCheckedIsEnqueueable, PlansOf
<1>4. QED
  BY <1>1, <1>2, <1>3 DEF PlanInv

\* A call that has ended has nothing to be wrong about.
LEMMA DoneStep ==
    ASSUME PlanInv, NEW p \in Planners, Done(p),
           UNCHANGED <<case, policy, plan, outbox, external>>, faults' \in 0..MaxFaults
    PROVE  PlanInv'
<1> DEFINE r == IF p \in Crons THEN [Idle EXCEPT !.pc = "nextCase", !.todo = planner[p].todo]
                               ELSE Idle
<1>1. Typed(r) /\ r.pc \in {"idle", "nextCase"}
  <2>1. planner[p].todo \in SUBSET Cases
    BY DEF PlanInv, TypeOK, Planner
  <2>2. QED
    BY <2>1, IdleType DEF Idle, Planner, PC, Typed, Keyed
<1>2. Sound(r, case, plan, outbox)
  BY <1>1 DEF Sound, Keyed, Proposed, Versioned, Enqueuing
<1>3. planner' = [planner EXCEPT ![p] = r]
  BY DEF Done
<1>4. QED
  <2> HIDE DEF r
  <2> QED
    BY <1>1, <1>2, <1>3, LocalStep

\* Moving on with what is known is all right if it is enough at the new place.
LEMMA GotoStep ==
    ASSUME PlanInv, NEW p \in Planners, NEW pc \in PC \ {"idle", "nextCase"},
           planner[p].pc \notin {"idle", "nextCase"},
           Goto(p, pc), pc \in Keyed => planner[p].key \in PlanKey,
           Sound([planner[p] EXCEPT !.pc = pc], case, plan, outbox),
           UNCHANGED <<case, policy, plan, outbox, external, faults>>
    PROVE  PlanInv'
<1> DEFINE r == [planner[p] EXCEPT !.pc = pc]
<1>1. planner[p] \in Planner /\ planner[p].case \in Cases
  BY DEF PlanInv, TypeOK
<1>2. r \in Planner /\ r.case = planner[p].case /\ r.key = planner[p].key /\ r.pc = pc
  BY <1>1 DEF Planner
<1>3. Typed(r)
  BY <1>1, <1>2 DEF Typed
<1>4. planner' = [planner EXCEPT ![p] = r]
  BY DEF Goto
<1>5. faults' \in 0..MaxFaults
  BY DEF PlanInv, TypeOK
<1>6. QED
  BY <1>3, <1>4, <1>5, LocalStep

\* A step that moves case c to state s, with the next version, keeps the
\* invariant (what another planner knows of the case is void: the version it has
\* read is over) if it stores and enqueues plans of this case only, keeps what is
\* stored, enqueues approved plans only, and leaves one to enqueue if s is
\* POLICY_CHECKED.
LEMMA CaseStep ==
    ASSUME PlanInv, NEW c \in Cases, NEW s \in CaseState, Transition(c, case[c].version, s),
           plan' \in [PlanKey -> PlanRow], outbox' \subseteq PlanKey,
           \A k \in PlanKey : plan[k] # "none" => plan'[k] = plan[k],
           \A k \in PlanKey : CaseOf(k) # c =>
               plan'[k] = plan[k] /\ (k \in outbox' => k \in outbox),
           \A k \in outbox' : plan'[k] = "approved",
           s = "POLICY_CHECKED" => \E k \in PlanKey :
               CaseOf(k) = c /\ plan'[k] = "approved" /\ k \notin outbox',
           planner' \in [Planners -> Planner],
           \A q \in Planners : \/ planner'[q] = planner[q]
                               \/ Typed(planner'[q]) /\ Sound(planner'[q], case', plan', outbox'),
           policy' \in Policies, external' \in 0..MaxExternal, faults' \in 0..MaxFaults
    PROVE  PlanInv'
<1>0. /\ case \in [Cases -> [state : CaseState, version : Nat]]
      /\ \A q \in Planners : Typed(planner[q]) /\ Sound(planner[q], case, plan, outbox)
      /\ case' = [case EXCEPT ![c] = [state |-> s, version |-> case[c].version + 1]]
  BY TypedPlanners DEF PlanInv, TypeOK, PlannersSound, Transition
<1>1. TypeOK'
  <2>1. case' \in [Cases -> [state : CaseState, version : Nat]]
    BY <1>0
  <2>2. \A q \in Planners : Typed(planner'[q])
    BY <1>0
  <2>3. QED
    BY <2>1, <2>2 DEF TypeOK, Typed, Keyed
<1>2. PlannersSound'
  <2>1. ASSUME NEW q \in Planners, planner'[q] = planner[q]
        PROVE  Sound(planner'[q], case', plan', outbox')
    <3> DEFINE r == planner[q]
    <3>1. Typed(r) /\ Sound(r, case, plan, outbox)
      BY <1>0
    <3> HIDE DEF r
    <3>2. ASSUME r.pc \in Keyed
          PROVE  r.key \in PlanKey /\ CaseOf(r.key) = r.case /\ r.case \in Cases
      BY <3>1, <3>2 DEF Typed, Sound, Keyed
    <3>3. ASSUME r.pc \in Versioned
          PROVE  /\ r.case \in Cases
                 /\ r.seen <= case'[r.case].version
                 /\ case'[r.case].version = r.seen => r.case # c /\ case'[r.case] = case[r.case]
      <4>1. r.case \in Cases /\ r.seen \in Nat /\ r.seen <= case[r.case].version
        BY <3>1, <3>3 DEF Typed, Sound, Planner, Versioned
      <4>2. case[r.case].version \in Nat /\ case[c].version \in Nat
        BY <1>0, <4>1
      <4>3. case'[r.case] = IF r.case = c THEN [state |-> s, version |-> case[c].version + 1]
                                          ELSE case[r.case]
        BY <1>0, <4>1
      <4>4. QED
        BY <4>1, <4>2, <4>3
    <3>4. Sound(r, case', plan', outbox')
      BY <3>1, <3>2, <3>3 DEF Sound, Keyed, Versioned, Enqueuing, Proposed
    <3>5. QED
      BY <2>1, <3>4 DEF r
  <2>2. QED
    BY <2>1 DEF PlannersSound
<1>3. OnlyApprovedPlansEnqueued'
  BY DEF OnlyApprovedPlansEnqueued
<1>4. PolicyCheckedIsEnqueueable'
  <2>1. ASSUME NEW d \in Cases, case'[d].state = "POLICY_CHECKED"
        PROVE  \E k \in PlanKey : CaseOf(k) = d /\ plan'[k] = "approved" /\ k \notin outbox'
    <3>1. CASE d = c
      BY <1>0, <2>1, <3>1
    <3>2. CASE d # c
      <4>1. case[d].state = "POLICY_CHECKED"
        BY <1>0, <2>1, <3>2
      <4>2. PICK k \in PlanKey : CaseOf(k) = d /\ plan[k] = "approved" /\ k \notin outbox
        BY <4>1 DEF PlanInv, PolicyCheckedIsEnqueueable, PlansOf
      <4>3. QED
        BY <3>2, <4>2
    <3>3. QED
      BY <3>1, <3>2
  <2>2. QED
    BY <2>1 DEF PolicyCheckedIsEnqueueable, PlansOf
<1>5. QED
  BY <1>1, <1>2, <1>3, <1>4 DEF PlanInv

-----------------------------------------------------------------------------
(* The steps *)

\* createPlan's answer is given when the plan is stored, and a cron may go on to
\* enqueue it.
LEMMA PlannedRecord ==
    ASSUME TypeOK, NEW p \in Planners, planner[p].pc \in {"check", "write"},
           CaseOf(planner[p].key) = planner[p].case, Planned(p),
           NEW rows, NEW plans, NEW events
    PROVE  /\ planner' \in [Planners -> Planner]
           /\ Typed(planner'[p]) /\ Sound(planner'[p], rows, plans, events)
           /\ \A q \in Planners \ {p} : planner'[q] = planner[q]
           /\ planner' = [planner EXCEPT ![p] = planner'[p]]
<1>1. /\ planner \in [Planners -> Planner] /\ planner[p] \in Planner
      /\ planner[p].case \in Cases /\ planner[p].key \in PlanKey
      /\ planner[p].todo \in SUBSET Cases
  BY DEF TypeOK, Planner
<1>2. CASE p \in Crons /\ planner[p].decision = "approved"
  <2> DEFINE r == [planner[p] EXCEPT !.pc = "enqueue", !.seen = 0]
  <2>1. planner' = [planner EXCEPT ![p] = r]
    BY <1>1, <1>2 DEF Planned
  <2>2. /\ r \in Planner /\ r.pc = "enqueue"
        /\ r.case = planner[p].case /\ r.key = planner[p].key
    BY <1>1 DEF Planner, PC
  <2> HIDE DEF r
  <2>3. Typed(r) /\ Sound(r, rows, plans, events)
    BY <1>1, <2>2 DEF Typed, Sound, Keyed, Proposed, Versioned, Enqueuing
  <2>4. QED
    BY <1>1, <2>1, <2>2, <2>3
<1>3. CASE ~(p \in Crons /\ planner[p].decision = "approved")
  <2> DEFINE r == IF p \in Crons THEN [Idle EXCEPT !.pc = "nextCase", !.todo = planner[p].todo]
                                 ELSE Idle
  <2>1. Typed(r) /\ r.pc \in {"idle", "nextCase"}
    BY <1>1, IdleType DEF Idle, Planner, PC, Typed, Keyed
  <2>2. planner' = [planner EXCEPT ![p] = r]
    BY <1>3 DEF Planned, Done
  <2> HIDE DEF r
  <2>3. Sound(r, rows, plans, events) /\ r \in Planner
    BY <2>1 DEF Typed, Sound, Keyed, Proposed, Versioned, Enqueuing
  <2>4. QED
    BY <1>1, <2>1, <2>2, <2>3
<1>4. QED
  BY <1>2, <1>3

\* The same for a call that ends.
LEMMA DoneRecord ==
    ASSUME TypeOK, NEW p \in Planners, Done(p), NEW rows, NEW plans, NEW events
    PROVE  /\ planner' \in [Planners -> Planner]
           /\ Typed(planner'[p]) /\ Sound(planner'[p], rows, plans, events)
           /\ \A q \in Planners \ {p} : planner'[q] = planner[q]
<1>1. planner \in [Planners -> Planner] /\ planner[p].todo \in SUBSET Cases
  BY DEF TypeOK, Planner
<1> DEFINE r == IF p \in Crons THEN [Idle EXCEPT !.pc = "nextCase", !.todo = planner[p].todo]
                               ELSE Idle
<1>2. Typed(r) /\ r.pc \in {"idle", "nextCase"}
  BY <1>1, IdleType DEF Idle, Planner, PC, Typed, Keyed
<1>3. planner' = [planner EXCEPT ![p] = r]
  BY DEF Done
<1> HIDE DEF r
<1>4. Sound(r, rows, plans, events) /\ r \in Planner
  BY <1>2 DEF Typed, Sound, Keyed, Proposed, Versioned, Enqueuing
<1>5. QED
  BY <1>1, <1>2, <1>3, <1>4

LEMMA InitInv == Init => PlanInv
<1> SUFFICES ASSUME Init PROVE PlanInv
  OBVIOUS
<1>1. case \in [Cases -> [state : CaseState, version : Nat]]
  BY DEF Init, CaseState
<1>2. \A p \in Planners : planner[p] = Idle
  BY DEF Init
<1>3. TypeOK
  <2>1. planner \in [Planners -> Planner]
    BY IdleType DEF Init
  <2>2. \A p \in Planners : Typed(planner[p])
    BY <1>2, IdleType
  <2>3. QED
    BY <1>1, <2>1, <2>2, PlanningConstants DEF Init, TypeOK, Typed, Keyed, PlanRow
<1>4. PlannersSound
  BY <1>2 DEF PlannersSound, Sound, Idle, Keyed, Proposed, Versioned, Enqueuing
<1>5. OnlyApprovedPlansEnqueued /\ PolicyCheckedIsEnqueueable
  BY DEF Init, OnlyApprovedPlansEnqueued, PolicyCheckedIsEnqueueable
<1>6. QED
  BY <1>3, <1>4, <1>5 DEF PlanInv

LEMMA ListCasesStep == PlanInv /\ (\E p \in Planners : ListCases(p)) => PlanInv'
<1> SUFFICES ASSUME PlanInv, NEW p \in Planners, ListCases(p) PROVE PlanInv'
  OBVIOUS
<1>1. planner[p] \in Planner /\ faults' \in 0..MaxFaults
  BY DEF PlanInv, TypeOK, ListCases
<1>2. PICK oldest \in SUBSET Cases :
         planner' = [planner EXCEPT ![p].pc = "nextCase", ![p].todo = oldest]
  BY DEF ListCases
<1> DEFINE r == [planner[p] EXCEPT !.pc = "nextCase", !.todo = oldest]
<1>3. planner' = [planner EXCEPT ![p] = r]
  BY <1>2 DEF PlanInv, TypeOK
<1>4. r \in Planner /\ r.pc = "nextCase"
  BY <1>1 DEF Planner, PC
<1> HIDE DEF r
<1>5. Typed(r) /\ Sound(r, case, plan, outbox)
  BY <1>4 DEF Typed, Sound, Keyed, Proposed, Versioned, Enqueuing
<1>6. QED
  BY <1>1, <1>3, <1>5, LocalStep DEF ListCases

LEMMA NextCaseStep == PlanInv /\ (\E p \in Planners : NextCase(p)) => PlanInv'
<1> SUFFICES ASSUME PlanInv, NEW p \in Planners, NextCase(p) PROVE PlanInv'
  OBVIOUS
<1>1. planner[p] \in Planner /\ faults' \in 0..MaxFaults /\ policy \in Policies
  BY DEF PlanInv, TypeOK, NextCase
<1>2. ASSUME NEW c \in Cases, Handle(p, c) PROVE PlanInv'
  <2> DEFINE r == [Idle EXCEPT !.pc = "load", !.todo = planner[p].todo \ {c}, !.case = c,
                               !.policy = policy]
  <2>1. planner' = [planner EXCEPT ![p] = r]
    BY <1>2 DEF Handle
  <2>2. r \in Planner /\ r.pc = "load" /\ r.case = c
    <3>1. planner[p].todo \ {c} \in SUBSET Cases
      BY <1>1 DEF Planner
    <3>2. QED
      BY <1>1, <3>1, IdleType DEF Idle, Planner, PC
  <2> HIDE DEF r
  <2>3. Typed(r) /\ Sound(r, case, plan, outbox)
    BY <2>2 DEF Typed, Sound, Keyed, Proposed, Versioned, Enqueuing
  <2>4. QED
    BY <1>1, <2>1, <2>3, LocalStep DEF NextCase
<1>3. ASSUME planner' = [planner EXCEPT ![p] = Idle] PROVE PlanInv'
  <2>1. Sound(Idle, case, plan, outbox)
    BY DEF Idle, Sound, Keyed, Proposed, Versioned, Enqueuing
  <2>2. QED
    BY <1>1, <1>3, <2>1, IdleType, LocalStep DEF NextCase
<1>4. QED
  BY <1>2, <1>3 DEF NextCase

LEMMA RequestStep ==
    PlanInv /\ (\E p \in Planners : RequestPlan(p) \/ RequestEnqueue(p)) => PlanInv'
<1> SUFFICES ASSUME PlanInv, NEW p \in Planners, RequestPlan(p) \/ RequestEnqueue(p)
             PROVE PlanInv'
  OBVIOUS
<1>1. /\ planner \in [Planners -> Planner] /\ planner[p] \in Planner
      /\ faults' \in 0..MaxFaults
  BY DEF PlanInv, TypeOK, RequestPlan, RequestEnqueue
<1>2. CASE RequestPlan(p)
  <2>1. PICK c \in Cases, version \in Policies :
           planner' = [planner EXCEPT ![p].pc = "load", ![p].case = c, ![p].policy = version]
    BY <1>2 DEF RequestPlan
  <2> DEFINE r == [planner[p] EXCEPT !.pc = "load", !.case = c, !.policy = version]
  <2>2. planner' = [planner EXCEPT ![p] = r]
    BY <1>1, <2>1
  <2>3. r \in Planner /\ r.pc = "load" /\ r.case = c
    BY <1>1 DEF Planner, PC
  <2> HIDE DEF r
  <2>4. Typed(r) /\ Sound(r, case, plan, outbox)
    BY <2>3 DEF Typed, Sound, Keyed, Proposed, Versioned, Enqueuing
  <2>5. QED
    BY <1>1, <1>2, <2>2, <2>4, LocalStep DEF RequestPlan
<1>3. CASE RequestEnqueue(p)
  <2>1. PICK k \in PlanKey :
           planner' = [planner EXCEPT ![p].pc = "enqueue", ![p].case = CaseOf(k), ![p].key = k]
    BY <1>3 DEF RequestEnqueue
  <2>2. CaseOf(k) \in Cases
    BY DEF PlanKey, CaseOf
  <2> DEFINE r == [planner[p] EXCEPT !.pc = "enqueue", !.case = CaseOf(k), !.key = k]
  <2>3. planner' = [planner EXCEPT ![p] = r]
    BY <1>1, <2>1
  <2>4. r \in Planner /\ r.pc = "enqueue" /\ r.case = CaseOf(k) /\ r.key = k
    BY <1>1, <2>2 DEF Planner, PC
  <2> HIDE DEF r
  <2>5. Typed(r) /\ Sound(r, case, plan, outbox)
    BY <2>2, <2>4 DEF Typed, Sound, Keyed, Proposed, Versioned, Enqueuing
  <2>6. QED
    BY <1>1, <1>3, <2>3, <2>5, LocalStep DEF RequestEnqueue
<1>4. QED
  BY <1>2, <1>3

\* The steps of createPlan before its transaction, and the two checks of
\* enqueuePlan, end the call or move on.
LEMMA CheckingStep ==
    PlanInv /\ (\E p \in Planners : Load(p) \/ LoadPolicy(p) \/ Enqueue(p) \/ EnqueueCheck(p))
        => PlanInv'
<1> SUFFICES ASSUME PlanInv, NEW p \in Planners,
                    Load(p) \/ LoadPolicy(p) \/ Enqueue(p) \/ EnqueueCheck(p)
             PROVE PlanInv'
  OBVIOUS
<1>1. /\ Typed(planner[p]) /\ Sound(planner[p], case, plan, outbox)
      /\ UNCHANGED <<case, policy, plan, outbox, external, faults>>
      /\ faults' \in 0..MaxFaults
  BY TypedPlanners DEF PlanInv, PlannersSound, TypeOK, Load, LoadPolicy, Enqueue, EnqueueCheck
<1>2. ASSUME Done(p) PROVE PlanInv'
  BY <1>1, <1>2, DoneStep
<1>3. ASSUME NEW pc \in {"loadPolicy", "propose", "enqueueRead", "enqueueWrite"},
             planner[p].pc \notin {"idle", "nextCase"},
             pc = "enqueueRead" => planner[p].pc = "enqueue" /\ plan[planner[p].key] = "approved",
             pc = "enqueueWrite" => planner[p].pc = "enqueueCheck" /\ planner[p].key \notin outbox,
             Goto(p, pc)
      PROVE  PlanInv'
  <2> DEFINE r == [planner[p] EXCEPT !.pc = pc]
  <2>1. /\ r.pc = pc /\ r.case = planner[p].case /\ r.key = planner[p].key
        /\ r.seen = planner[p].seen /\ r.decision = planner[p].decision
    BY <1>1 DEF Typed, Planner
  <2> HIDE DEF r
  <2>2. Sound(r, case, plan, outbox)
    BY <1>1, <1>3, <2>1 DEF Sound, Keyed, Proposed, Versioned, Enqueuing
  <2>3. pc \in Keyed => planner[p].key \in PlanKey
    BY <1>1, <1>3 DEF Typed, Keyed
  <2>4. pc \in PC \ {"idle", "nextCase"}
    BY DEF PC
  <2>5. QED
    BY <1>1, <1>3, <2>2, <2>3, <2>4, GotoStep DEF r
<1>4. CASE Load(p)
  <2>1. planner[p].pc = "load" /\ (Goto(p, "loadPolicy") \/ Done(p))
    BY <1>4 DEF Load
  <2>2. QED
    BY <1>2, <1>3, <2>1
<1>5. CASE LoadPolicy(p)
  <2>1. planner[p].pc = "loadPolicy" /\ (Goto(p, "propose") \/ Done(p))
    BY <1>5 DEF LoadPolicy
  <2>2. QED
    BY <1>2, <1>3, <2>1
<1>6. CASE Enqueue(p)
  <2>1. /\ planner[p].pc = "enqueue"
        /\ (Goto(p, "enqueueRead") /\ plan[planner[p].key] = "approved") \/ Done(p)
    BY <1>6 DEF Enqueue
  <2>2. QED
    BY <1>2, <1>3, <2>1
<1>7. CASE EnqueueCheck(p)
  <2>1. /\ planner[p].pc = "enqueueCheck"
        /\ (Goto(p, "enqueueWrite") /\ planner[p].key \notin outbox) \/ Done(p)
    BY <1>7 DEF EnqueueCheck
  <2>2. QED
    BY <1>2, <1>3, <2>1
<1>8. QED
  BY <1>4, <1>5, <1>6, <1>7

LEMMA ProposeStep == PlanInv /\ (\E p \in Planners : Propose(p)) => PlanInv'
<1> SUFFICES ASSUME PlanInv, NEW p \in Planners, Propose(p) PROVE PlanInv'
  OBVIOUS
<1>1. /\ planner \in [Planners -> Planner] /\ planner[p] \in Planner
      /\ planner[p].case \in Cases /\ planner[p].policy \in Policies
      /\ faults' \in 0..MaxFaults
  BY DEF PlanInv, TypeOK, Planner, Propose
<1>2. PICK i \in Interventions, decision \in Decisions :
         planner' = [planner EXCEPT ![p].pc = "read", ![p].decision = decision,
                       ![p].key = <<planner[p].case, planner[p].policy, i>>]
  BY DEF Propose
<1> DEFINE k == <<planner[p].case, planner[p].policy, i>>
<1>3. k \in PlanKey /\ CaseOf(k) = planner[p].case
  BY <1>1 DEF PlanKey, CaseOf
<1> HIDE DEF k
<1> DEFINE r == [planner[p] EXCEPT !.pc = "read", !.decision = decision, !.key = k]
<1>4. planner' = [planner EXCEPT ![p] = r]
  BY <1>1, <1>2 DEF k
<1>5. /\ r \in Planner /\ r.pc = "read" /\ r.case = planner[p].case /\ r.key = k
      /\ r.decision \in Decisions
  BY <1>1, <1>3 DEF Planner, PC
<1> HIDE DEF r
<1>6. Typed(r) /\ Sound(r, case, plan, outbox)
  BY <1>1, <1>3, <1>5 DEF Typed, Sound, Keyed, Proposed, Versioned, Enqueuing
<1>7. QED
  BY <1>1, <1>4, <1>6, LocalStep DEF Propose

\* The reads of the two transactions take over the row's version.
LEMMA ReadStep ==
    PlanInv /\ (\E p \in Planners : Read(p) \/ EnqueueRead(p)) => PlanInv'
<1> SUFFICES ASSUME PlanInv, NEW p \in Planners, Read(p) \/ EnqueueRead(p) PROVE PlanInv'
  OBVIOUS
<1> DEFINE c == planner[p].case
<1>1. /\ planner \in [Planners -> Planner] /\ planner[p] \in Planner
      /\ Typed(planner[p]) /\ Sound(planner[p], case, plan, outbox)
      /\ faults' \in 0..MaxFaults
      /\ UNCHANGED <<case, policy, plan, outbox, external>>
  BY TypedPlanners DEF PlanInv, PlannersSound, TypeOK, Read, EnqueueRead
<1>2. c \in Cases /\ case[c].version \in Nat
  BY DEF PlanInv, TypeOK, Read, EnqueueRead
<1>3. ASSUME NEW pc \in {"check", "enqueueCheck"},
             planner' = [planner EXCEPT ![p].pc = pc, ![p].seen = case[c].version],
             pc = "check" => planner[p].pc = "read",
             pc = "enqueueCheck" => planner[p].pc = "enqueueRead"
                                       /\ case[c].state = "POLICY_CHECKED"
      PROVE  PlanInv'
  <2> DEFINE r == [planner[p] EXCEPT !.pc = pc, !.seen = case[c].version]
  <2>1. planner' = [planner EXCEPT ![p] = r]
    BY <1>1, <1>3
  <2>2. /\ r \in Planner /\ r.pc = pc /\ r.case = c /\ r.key = planner[p].key
        /\ r.decision = planner[p].decision /\ r.seen = case[c].version
    BY <1>1, <1>2 DEF Planner, PC
  <2> HIDE DEF r
  <2>3. Typed(r)
    BY <1>1, <1>2, <1>3, <2>2 DEF Typed, Keyed
  <2>4. Sound(r, case, plan, outbox)
    BY <1>1, <1>2, <1>3, <2>2 DEF Sound, Keyed, Proposed, Versioned, Enqueuing
  <2>5. QED
    BY <1>1, <2>1, <2>3, <2>4, LocalStep
<1>4. ASSUME Done(p) PROVE PlanInv'
  BY <1>1, <1>4, DoneStep
<1>5. QED
  BY <1>3, <1>4 DEF Read, EnqueueRead

LEMMA CheckStep == PlanInv /\ (\E p \in Planners : Check(p)) => PlanInv'
<1> SUFFICES ASSUME PlanInv, NEW p \in Planners, Check(p) PROVE PlanInv'
  OBVIOUS
<1>1. /\ TypeOK /\ planner[p].pc = "check"
      /\ Typed(planner[p]) /\ Sound(planner[p], case, plan, outbox)
      /\ faults' \in 0..MaxFaults
      /\ UNCHANGED <<case, policy, plan, outbox, external, faults>>
  BY TypedPlanners DEF PlanInv, PlannersSound, TypeOK, Check
<1>2. CASE plan[planner[p].key] = "none" /\ Goto(p, "write")
  <2> DEFINE r == [planner[p] EXCEPT !.pc = "write"]
  <2>1. /\ r.pc = "write" /\ r.case = planner[p].case /\ r.key = planner[p].key
        /\ r.seen = planner[p].seen /\ r.decision = planner[p].decision
    BY <1>1 DEF Typed, Planner
  <2> HIDE DEF r
  <2>2. Sound(r, case, plan, outbox)
    BY <1>1, <1>2, <2>1 DEF Sound, Keyed, Proposed, Versioned, Enqueuing
  <2>3. planner[p].key \in PlanKey /\ "write" \in PC \ {"idle", "nextCase"}
    BY <1>1 DEF Typed, Keyed, PC
  <2>4. QED
    BY <1>1, <1>2, <2>2, <2>3, GotoStep DEF r
<1>3. CASE Planned(p)
  <2>1. CaseOf(planner[p].key) = planner[p].case
    BY <1>1 DEF Sound, Keyed
  <2>2. /\ planner' = [planner EXCEPT ![p] = planner'[p]]
        /\ Typed(planner'[p]) /\ Sound(planner'[p], case, plan, outbox)
    BY <1>1, <1>3, <2>1, PlannedRecord
  <2> DEFINE r == planner'[p]
  <2> HIDE DEF r
  <2>3. planner' = [planner EXCEPT ![p] = r] /\ Typed(r) /\ Sound(r, case, plan, outbox)
    BY <2>2 DEF r
  <2>4. QED
    BY <1>1, <2>3, LocalStep
<1>4. QED
  BY <1>2, <1>3 DEF Check

LEMMA FaultStep ==
    PlanInv /\ (\E p \in Planners : CallFails(p) \/ Crash(p)) => PlanInv'
<1> SUFFICES ASSUME PlanInv, NEW p \in Planners, CallFails(p) \/ Crash(p) PROVE PlanInv'
  OBVIOUS
<1>1. faults' \in 0..MaxFaults /\ UNCHANGED <<case, policy, plan, outbox, external>>
  BY PlanningConstants DEF PlanInv, TypeOK, CallFails, Crash, Fault
<1>2. CASE CallFails(p)
  BY <1>1, <1>2, DoneStep DEF CallFails
<1>3. CASE Crash(p)
  <2>1. Sound(Idle, case, plan, outbox)
    BY DEF Idle, Sound, Keyed, Proposed, Versioned, Enqueuing
  <2>2. QED
    BY <1>1, <1>3, <2>1, IdleType, LocalStep DEF Crash
<1>4. QED
  BY <1>2, <1>3

\* createPlan's write: the plan is new, the case moves by the decision.
LEMMA WriteStep == PlanInv /\ (\E p \in Planners : Write(p)) => PlanInv'
<1> SUFFICES ASSUME PlanInv, NEW p \in Planners, Write(p) PROVE PlanInv'
  OBVIOUS
<1> DEFINE c == planner[p].case   k == planner[p].key
           s == ResolvePlanningOutcome(planner[p].decision)
<1>1. /\ TypeOK /\ planner[p].pc = "write" /\ c \in Cases /\ k \in PlanKey
      /\ Typed(planner[p]) /\ Sound(planner[p], case, plan, outbox)
      /\ policy' \in Policies /\ external' \in 0..MaxExternal /\ faults' \in 0..MaxFaults
      /\ UNCHANGED <<policy, outbox, external, faults>>
  BY TypedPlanners DEF PlanInv, PlannersSound, TypeOK, Write
<1>2. CaseOf(k) = c /\ planner[p].decision \in Decisions
  BY <1>1 DEF Sound, Keyed, Proposed
<1>3. ASSUME Done(p), UNCHANGED <<case, plan>> PROVE PlanInv'
  BY <1>1, <1>3, DoneStep
<1>4. ASSUME case[c].version = planner[p].seen, plan[k] = "none",
             Transition(c, planner[p].seen, s),
             plan' = [plan EXCEPT ![k] = PlanStatus(planner[p].decision)],
             Planned(p)
      PROVE  PlanInv'
  <2>1. /\ s \in CaseState
        /\ s = "POLICY_CHECKED" => planner[p].decision = "approved"
        /\ PlanStatus(planner[p].decision) \in PlanRow
        /\ planner[p].decision = "approved" => PlanStatus(planner[p].decision) = "approved"
    BY <1>2, PlanningConstants DEF ResolvePlanningOutcome, PlanStatus, CaseState, PlanRow
  <2>2. /\ planner' \in [Planners -> Planner]
        /\ Typed(planner'[p]) /\ Sound(planner'[p], case', plan', outbox')
        /\ \A q \in Planners \ {p} : planner'[q] = planner[q]
    BY <1>1, <1>2, <1>4, PlannedRecord
  <2> DEFINE status == PlanStatus(planner[p].decision)
  <2> HIDE DEF s, status
  <2>3. plan \in [PlanKey -> PlanRow] /\ plan' = [plan EXCEPT ![k] = status]
    BY <1>1, <1>4 DEF TypeOK, status
  <2>4. k \notin outbox /\ outbox' = outbox /\ outbox \subseteq PlanKey
    BY <1>1, <1>4 DEF PlanInv, OnlyApprovedPlansEnqueued, TypeOK
  <2>5. /\ plan' \in [PlanKey -> PlanRow]
        /\ \A l \in PlanKey : plan[l] # "none" => plan'[l] = plan[l]
        /\ \A l \in PlanKey : CaseOf(l) # c =>
              plan'[l] = plan[l] /\ (l \in outbox' => l \in outbox)
    BY <1>1, <1>2, <1>4, <2>1, <2>3, <2>4 DEF status
  <2>6. \A l \in outbox' : plan'[l] = "approved"
    BY <2>3, <2>4 DEF PlanInv, OnlyApprovedPlansEnqueued
  <2>7. s = "POLICY_CHECKED" => \E l \in PlanKey :
            CaseOf(l) = c /\ plan'[l] = "approved" /\ l \notin outbox'
    <3>1. s = "POLICY_CHECKED" => plan'[k] = "approved"
      BY <1>1, <2>1, <2>3 DEF s, status
    <3>2. QED
      BY <1>1, <1>2, <2>4, <3>1
  <2>8. Transition(c, case[c].version, s)
    BY <1>4
  <2>9. \A q \in Planners : \/ planner'[q] = planner[q]
                            \/ Typed(planner'[q]) /\ Sound(planner'[q], case', plan', outbox')
    BY <2>2
  <2> HIDE DEF c
  <2>10. QED
    BY <1>1, <2>1, <2>2, <2>4, <2>5, <2>6, <2>7, <2>8, <2>9, CaseStep DEF s
<1>5. QED
  BY <1>3, <1>4 DEF Write

\* enqueuePlan's write: the plan is approved and its event new.
LEMMA EnqueueWriteStep == PlanInv /\ (\E p \in Planners : EnqueueWrite(p)) => PlanInv'
<1> SUFFICES ASSUME PlanInv, NEW p \in Planners, EnqueueWrite(p) PROVE PlanInv'
  OBVIOUS
<1> DEFINE c == planner[p].case   k == planner[p].key
<1>1. /\ TypeOK /\ planner[p].pc = "enqueueWrite" /\ c \in Cases /\ k \in PlanKey
      /\ Typed(planner[p]) /\ Sound(planner[p], case, plan, outbox) /\ Done(p)
      /\ policy' \in Policies /\ external' \in 0..MaxExternal /\ faults' \in 0..MaxFaults
      /\ UNCHANGED <<policy, plan, external, faults>>
  BY TypedPlanners DEF PlanInv, PlannersSound, TypeOK, EnqueueWrite
<1>2. CaseOf(k) = c /\ plan[k] = "approved"
  BY <1>1 DEF Sound, Keyed, Enqueuing
<1>3. ASSUME UNCHANGED <<case, outbox>> PROVE PlanInv'
  BY <1>1, <1>3, DoneStep
<1>4. ASSUME Transition(c, case[c].version, "QUEUED"), outbox' = outbox \cup {k}
      PROVE  PlanInv'
  <2>1. "QUEUED" \in CaseState
    BY DEF CaseState
  <2>2. /\ planner' \in [Planners -> Planner]
        /\ \A q \in Planners : \/ planner'[q] = planner[q]
                               \/ Typed(planner'[q]) /\ Sound(planner'[q], case', plan', outbox')
    BY <1>1, DoneRecord
  <2>3. /\ plan' \in [PlanKey -> PlanRow] /\ outbox' \subseteq PlanKey
        /\ \A l \in PlanKey : plan[l] # "none" => plan'[l] = plan[l]
        /\ \A l \in PlanKey : CaseOf(l) # c =>
              plan'[l] = plan[l] /\ (l \in outbox' => l \in outbox)
    BY <1>1, <1>2, <1>4 DEF TypeOK
  <2>4. \A l \in outbox' : plan'[l] = "approved"
    BY <1>1, <1>2, <1>4 DEF PlanInv, OnlyApprovedPlansEnqueued
  <2> HIDE DEF c, k
  <2>5. QED
    BY <1>1, <1>4, <2>1, <2>2, <2>3, <2>4, CaseStep
<1>5. QED
  BY <1>1, <1>3, <1>4 DEF EnqueueWrite

\* Payments, policy updates and the worker.
LEMMA ExternalStep ==
    PlanInv /\ (UpdatePolicy \/ \E c \in Cases : PaymentCaptured(c) \/ Execute(c)) => PlanInv'
<1> SUFFICES ASSUME PlanInv,
                    UpdatePolicy \/ \E c \in Cases : PaymentCaptured(c) \/ Execute(c)
             PROVE PlanInv'
  OBVIOUS
<1>1. CASE UpdatePolicy
  <2>1. external' \in 0..MaxExternal /\ policy' \in Policies
    BY <1>1, PlanningConstants DEF UpdatePolicy, PlanInv, TypeOK
  <2>2. TypeOK'
    BY <1>1, <2>1 DEF UpdatePolicy, PlanInv, TypeOK
  <2>3. QED
    BY <1>1, <2>2 DEF UpdatePolicy, PlanInv, PlannersSound, OnlyApprovedPlansEnqueued,
                      PolicyCheckedIsEnqueueable, PlansOf
<1>2. ASSUME NEW c \in Cases, PaymentCaptured(c) \/ Execute(c) PROVE PlanInv'
  <2>1. PICK s \in CaseState : Transition(c, case[c].version, s) /\ s # "POLICY_CHECKED"
    BY <1>2, PlanningConstants DEF PaymentCaptured, Execute, CaseState
  <2>2. /\ policy' \in Policies /\ external' \in 0..MaxExternal /\ faults' \in 0..MaxFaults
        /\ UNCHANGED <<plan, outbox, planner>>
    BY <1>2, PlanningConstants DEF PaymentCaptured, Execute, PlanInv, TypeOK
  <2>3. /\ plan' \in [PlanKey -> PlanRow] /\ outbox' \subseteq PlanKey
        /\ planner' \in [Planners -> Planner]
        /\ \A l \in outbox' : plan'[l] = "approved"
    BY <2>2 DEF PlanInv, TypeOK, OnlyApprovedPlansEnqueued
  <2>4. QED
    BY <2>1, <2>2, <2>3, CaseStep
<1>3. QED
  BY <1>1, <1>2

LEMMA StepInv == PlanInv /\ [Next]_vars => PlanInv'
<1> SUFFICES ASSUME PlanInv, [Next]_vars PROVE PlanInv'
  OBVIOUS
<1>1. CASE UNCHANGED vars
  BY <1>1 DEF vars, PlanInv, TypeOK, PlannersSound, OnlyApprovedPlansEnqueued,
              PolicyCheckedIsEnqueueable, PlansOf
<1>2. CASE Next
  BY <1>2, ListCasesStep, NextCaseStep, RequestStep, CheckingStep, ProposeStep, ReadStep,
     CheckStep, WriteStep, EnqueueWriteStep, FaultStep, ExternalStep DEF Next, Step
<1>3. QED
  BY <1>1, <1>2

LEMMA PlanInvariant == Spec => []PlanInv
BY InitInv, StepInv, PTL DEF Spec

-----------------------------------------------------------------------------
(* The theorems *)

\* Every variable keeps its type.
THEOREM PlanningTypeCorrect == Spec => []TypeOK
<1>1. PlanInv => TypeOK
  BY DEF PlanInv
<1>2. QED
  BY <1>1, PlanInvariant, PTL

\* The two inserts of createPlan and enqueuePlan never hit a unique key while
\* the version read before the check is current, however many planners there are.
THEOREM InsertsApart == Spec => []InsertsNeverCollide
<1>1. PlanInv => InsertsNeverCollide
  BY DEF PlanInv, PlannersSound, Sound, InsertsNeverCollide
<1>2. QED
  BY <1>1, PlanInvariant, PTL

\* A plan that was rejected or waits for a human never gets an outbox event.
THEOREM ApprovedOnly == Spec => []OnlyApprovedPlansEnqueued
<1>1. PlanInv => OnlyApprovedPlansEnqueued
  BY DEF PlanInv
<1>2. QED
  BY <1>1, PlanInvariant, PTL

\* A POLICY_CHECKED case always has an approved plan left to enqueue.
THEOREM NoDeadEnd == Spec => []PolicyCheckedIsEnqueueable
<1>1. PlanInv => PolicyCheckedIsEnqueueable
  BY DEF PlanInv
<1>2. QED
  BY <1>1, PlanInvariant, PTL

\* A case enters QUEUED from POLICY_CHECKED only: the state was checked before
\* the version was, but the version checked is the one read with that state.
THEOREM QueuedInOrder == Spec => QueuedFromPolicyChecked
<1> DEFINE InOrder == \A c \in Cases :
        case[c].state # "QUEUED" /\ case'[c].state = "QUEUED" => case[c].state = "POLICY_CHECKED"
<1>1. PlanInv /\ [Next]_vars => [InOrder]_vars
  <2> SUFFICES ASSUME PlanInv, Next PROVE InOrder
    BY DEF vars
  <2>1. case \in [Cases -> [state : CaseState, version : Nat]]
    BY DEF PlanInv, TypeOK
  <2>2. ASSUME UNCHANGED case PROVE InOrder
    BY <2>2
  <2>3. ASSUME NEW c \in Cases, NEW seen, NEW s, Transition(c, seen, s),
               s = "QUEUED" => case[c].state = "POLICY_CHECKED"
        PROVE  InOrder
    BY <2>1, <2>3 DEF Transition
  <2>4. ASSUME NEW p \in Planners, Write(p) PROVE InOrder
    <3>1. planner[p].case \in Cases /\ planner[p].decision \in Decisions
      BY <2>4 DEF PlanInv, PlannersSound, Sound, Proposed, TypeOK, Write
    <3>2. ResolvePlanningOutcome(planner[p].decision) # "QUEUED"
      BY <3>1, PlanningConstants DEF ResolvePlanningOutcome
    <3> HIDE DEF InOrder
    <3>3. QED
      BY <2>2, <2>3, <2>4, <3>1, <3>2 DEF Write
  <2>5. ASSUME NEW p \in Planners, EnqueueWrite(p) PROVE InOrder
    <3>1. /\ planner[p].case \in Cases
          /\ case[planner[p].case].version = planner[p].seen
                => case[planner[p].case].state = "POLICY_CHECKED"
      BY <2>5 DEF PlanInv, PlannersSound, Sound, TypeOK, EnqueueWrite
    <3> HIDE DEF InOrder
    <3>2. QED
      BY <2>2, <2>3, <2>5, <3>1 DEF EnqueueWrite
  <2>6. ASSUME NEW c \in Cases, PaymentCaptured(c) \/ Execute(c) PROVE InOrder
    <3>1. \E s : Transition(c, case[c].version, s) /\ s # "QUEUED"
      BY <2>6, PlanningConstants DEF PaymentCaptured, Execute
    <3> HIDE DEF InOrder
    <3>2. QED
      BY <2>3, <3>1
  <2>7. ASSUME NEW p \in Planners,
               Step(p) \/ RequestPlan(p) \/ RequestEnqueue(p) \/ CallFails(p) \/ Crash(p)
        PROVE  Write(p) \/ EnqueueWrite(p) \/ UNCHANGED case
    BY <2>7 DEF Step, ListCases, NextCase, Load, LoadPolicy, Propose, Read, Check, Enqueue,
                EnqueueRead, EnqueueCheck, RequestPlan, RequestEnqueue, CallFails, Crash
  <2>8. UpdatePolicy => UNCHANGED case
    BY DEF UpdatePolicy
  <2> HIDE DEF InOrder
  <2>9. QED
    BY <2>2, <2>4, <2>5, <2>6, <2>7, <2>8 DEF Next
<1>2. QED
  BY <1>1, PlanInvariant, PTL DEF Spec, QueuedFromPolicyChecked
-----------------------------------------------------------------------------
(* The refinement *)

\* Atomic's states, before and after a step that moves one case.
LEMMA StatesMove ==
    ASSUME TypeOK, NEW c \in Cases, NEW seen, NEW s, Transition(c, seen, s)
    PROVE  [d \in Cases |-> case'[d].state]
              = [[d \in Cases |-> case[d].state] EXCEPT ![c] = s]
BY DEF TypeOK, Transition

\* createPlan's write, when it writes, is Atomic's Plan.
LEMMA WriteIsPlan ==
    ASSUME TypeOK, NEW k \in PlanKey, NEW decision \in Decisions, NEW seen,
           plan[k] = "none",
           Transition(CaseOf(k), seen, ResolvePlanningOutcome(decision)),
           plan' = [plan EXCEPT ![k] = PlanStatus(decision)], outbox' = outbox
    PROVE  Atomic!Plan(k)
<1> DEFINE status == PlanStatus(decision)   s == ResolvePlanningOutcome(decision)
<1>1. <<status, s>> \in Atomic!Outcomes
  BY PlanningConstants DEF PlanStatus, ResolvePlanningOutcome, Atomic!Outcomes
<1>2. CaseOf(k) \in Cases /\ Atomic!CaseOf(k) = CaseOf(k)
  BY DEF PlanKey, CaseOf, Atomic!CaseOf
<1>3. plan' = [plan EXCEPT ![k] = status] /\ Transition(CaseOf(k), seen, s)
  OBVIOUS
<1> HIDE DEF status, s
<1>4. [d \in Cases |-> case'[d].state]
         = [[d \in Cases |-> case[d].state] EXCEPT ![Atomic!CaseOf(k)] = s]
  BY <1>2, <1>3, StatesMove
<1> DEFINE o == <<status, s>>
<1>5. o \in Atomic!Outcomes /\ o[1] = status /\ o[2] = s
  BY <1>1
<1> HIDE DEF o
<1>6. QED
  BY <1>3, <1>4, <1>5 DEF Atomic!Plan

\* enqueuePlan's write, when it writes, is Atomic's Enqueue.
LEMMA EnqueueWriteIsEnqueue ==
    ASSUME TypeOK, NEW k \in PlanKey, NEW seen,
           plan[k] = "approved", k \notin outbox, case[CaseOf(k)].state = "POLICY_CHECKED",
           Transition(CaseOf(k), seen, "QUEUED"), outbox' = outbox \cup {k}, plan' = plan
    PROVE  Atomic!Enqueue(k)
<1>1. CaseOf(k) \in Cases /\ Atomic!CaseOf(k) = CaseOf(k)
  BY DEF PlanKey, CaseOf, Atomic!CaseOf
<1>2. [d \in Cases |-> case'[d].state]
         = [[d \in Cases |-> case[d].state] EXCEPT ![Atomic!CaseOf(k)] = "QUEUED"]
  BY <1>1, StatesMove
<1>3. QED
  BY <1>1, <1>2 DEF Atomic!Enqueue

\* Planning is atomic: the versions make each transaction, whose statements others
\* interleave, one step of AtomicPlanning, or none if it aborts.
THEOREM PlanningIsAtomic == Spec => PlanningImplemented
<1>1. Init => Atomic!Init
  BY DEF Init, Atomic!Init
<1>2. PlanInv /\ [Next]_vars => [Atomic!Next]_(Atomic!vars)
  <2> SUFFICES ASSUME PlanInv, [Next]_vars PROVE [Atomic!Next]_(Atomic!vars)
    OBVIOUS
  <2>1. TypeOK
    BY DEF PlanInv
  <2>2. ASSUME UNCHANGED <<case, plan, outbox>> PROVE UNCHANGED Atomic!vars
    BY <2>2 DEF Atomic!vars
  <2>3. ASSUME NEW p \in Planners, Write(p) PROVE Atomic!Next \/ UNCHANGED Atomic!vars
    <3>1. CASE case[planner[p].case].version = planner[p].seen /\ plan[planner[p].key] = "none"
      <4>1. PICK k \in PlanKey : k = planner[p].key /\ CaseOf(k) = planner[p].case
        BY <2>1, <2>3 DEF PlanInv, PlannersSound, Sound, Keyed, TypeOK, Write
      <4>2. PICK decision \in Decisions : decision = planner[p].decision
        BY <2>3 DEF PlanInv, PlannersSound, Sound, Proposed, Write
      <4>3. /\ Transition(CaseOf(k), planner[p].seen, ResolvePlanningOutcome(decision))
            /\ plan' = [plan EXCEPT ![k] = PlanStatus(decision)]
            /\ plan[k] = "none" /\ outbox' = outbox
        BY <2>3, <3>1, <4>1, <4>2 DEF Write
      <4>4. Atomic!Plan(k)
        BY <2>1, <4>3, WriteIsPlan
      <4>5. QED
        BY <4>4 DEF Atomic!Next
    <3>2. CASE ~(case[planner[p].case].version = planner[p].seen
                    /\ plan[planner[p].key] = "none")
      BY <2>2, <2>3, <3>2 DEF Write
    <3>3. QED
      BY <3>1, <3>2
  <2>4. ASSUME NEW p \in Planners, EnqueueWrite(p) PROVE Atomic!Next \/ UNCHANGED Atomic!vars
    <3>1. CASE case[planner[p].case].version = planner[p].seen /\ planner[p].key \notin outbox
      <4>1. PICK k \in PlanKey : k = planner[p].key /\ CaseOf(k) = planner[p].case
        BY <2>1, <2>4 DEF PlanInv, PlannersSound, Sound, Keyed, TypeOK, EnqueueWrite
      <4>2. plan[k] = "approved" /\ case[CaseOf(k)].state = "POLICY_CHECKED"
        BY <2>4, <3>1, <4>1 DEF PlanInv, PlannersSound, Sound, Enqueuing, EnqueueWrite
      <4>3. /\ Transition(CaseOf(k), planner[p].seen, "QUEUED")
            /\ outbox' = outbox \cup {k} /\ k \notin outbox /\ plan' = plan
        BY <2>4, <3>1, <4>1 DEF EnqueueWrite
      <4>4. Atomic!Enqueue(k)
        BY <2>1, <4>2, <4>3, EnqueueWriteIsEnqueue
      <4>5. QED
        BY <4>4 DEF Atomic!Next
    <3>2. CASE ~(case[planner[p].case].version = planner[p].seen
                    /\ planner[p].key \notin outbox)
      BY <2>2, <2>4, <3>2 DEF EnqueueWrite
    <3>3. QED
      BY <3>1, <3>2
  <2>5. ASSUME NEW c \in Cases, PaymentCaptured(c) PROVE Atomic!Next
    <3>1. /\ [d \in Cases |-> case'[d].state]
                = [[d \in Cases |-> case[d].state] EXCEPT ![c] = "RECOVERED"]
          /\ case[c].state \notin {"RECOVERED", "FAILED", "STOPPED"}
          /\ plan' = plan /\ outbox' = outbox
      BY <2>1, <2>5, StatesMove DEF PaymentCaptured
    <3>2. Atomic!Recover(c)
      BY <3>1 DEF Atomic!Recover
    <3>3. QED
      BY <3>2 DEF Atomic!Next
  <2>6. ASSUME NEW c \in Cases, Execute(c) PROVE Atomic!Next
    <3>1. PICK s \in WorkerResults : Transition(c, case[c].version, s)
      BY <2>6 DEF Execute
    <3>2. /\ [d \in Cases |-> case'[d].state]
                = [[d \in Cases |-> case[d].state] EXCEPT ![c] = s]
          /\ case[c].state = "QUEUED" /\ plan' = plan /\ outbox' = outbox
      BY <2>1, <2>6, <3>1, StatesMove DEF Execute
    <3>3. Atomic!Execute(c)
      BY <3>2 DEF Atomic!Execute
    <3>4. QED
      BY <3>3 DEF Atomic!Next
  <2>7. ASSUME NEW p \in Planners,
               Step(p) \/ RequestPlan(p) \/ RequestEnqueue(p) \/ CallFails(p) \/ Crash(p)
        PROVE  Write(p) \/ EnqueueWrite(p) \/ UNCHANGED <<case, plan, outbox>>
    BY <2>7 DEF Step, ListCases, NextCase, Load, LoadPolicy, Propose, Read, Check, Enqueue,
                EnqueueRead, EnqueueCheck, RequestPlan, RequestEnqueue, CallFails, Crash
  <2>8. UpdatePolicy \/ UNCHANGED vars => UNCHANGED <<case, plan, outbox>>
    BY DEF UpdatePolicy, vars
  <2>9. QED
    BY <2>2, <2>3, <2>4, <2>5, <2>6, <2>7, <2>8 DEF Next
<1>3. QED
  BY <1>1, <1>2, PlanInvariant, PTL DEF Spec, PlanningImplemented, Atomic!Spec
=============================================================================
