--------------------------- MODULE OutboxRelayProofs ---------------------------
(***************************************************************************)
(* Theorems about OutboxRelay, for any number of events and relays, any    *)
(* batch size and any number of retries and faults.                        *)
(***************************************************************************)
EXTENDS OutboxRelay, TLAPS

-----------------------------------------------------------------------------
(* The inductive invariant *)

Working == {"add", "mark", "fix"}

\* What TypeOK says of one relay's record q.
Typed(q) ==
    /\ q \in Relay
    /\ q.batch # {} <=> q.pc \in Working
    /\ q.pc \in {"mark", "fix"} => q.current \in q.batch

\* What a relay's record q means for the rows and the jobs added so far: its
\* batch has existing rows, each once, and it marks only what has been added.
Sound(q, rows, jobs) ==
    /\ \A b \in q.batch : rows[b.event].status # "NONE"
    /\ \A a, b \in q.batch : a.event = b.event => a = b
    /\ q.pc = "mark" => jobs[q.current.event] > 0

RelaysSound == \A r \in Relays : Sound(relay[r], event, added)

\* As long as batches are finished in time, what a relay holds is pending and
\* locked, so nobody claims it, and nobody else holds it.
HeldIsLocked ==
    timely => \A r \in Relays : \A b \in relay[r].batch :
        event[b.event].status = "PENDING" /\ event[b.event].lock = "held"

HeldOnce ==
    timely => \A r, s \in Relays : \A a \in relay[r].batch, b \in relay[s].batch :
        a.event = b.event => r = s

\* A job that exists has been added, so a relay may count it as delivered.
QueuedWasAdded == \A e \in Events : queue[e] = "present" => added[e] > 0

RelayInv == TypeOK /\ RelaysSound /\ QueuedWasAdded /\ HeldIsLocked /\ HeldOnce

LEMMA TypedRelays == TypeOK => \A r \in Relays : Typed(relay[r])
BY DEF TypeOK, Typed, Working

LEMMA InitInv == Init => RelayInv
<1> SUFFICES ASSUME Init PROVE RelayInv
  OBVIOUS
<1>1. Stopped \in Relay /\ Stopped.batch = {} /\ Stopped.pc = "down"
  BY DEF Stopped, Relay
<1>2. \A r \in Relays : relay[r] = Stopped
  BY DEF Init
<1>3. event \in [Events -> Row]
  BY DEF Init, Row, NewRow
<1>4. TypeOK
  <2>1. relay \in [Relays -> Relay]
    BY <1>1 DEF Init
  <2>2. \A r \in Relays : /\ relay[r].batch # {} <=> relay[r].pc \in {"add", "mark", "fix"}
                          /\ relay[r].pc \in {"mark", "fix"} => relay[r].current \in relay[r].batch
    BY <1>1, <1>2
  <2>3. QED
    BY <1>3, <2>1, <2>2, RelayConstants DEF Init, TypeOK
<1>5. RelaysSound /\ HeldIsLocked /\ HeldOnce
  BY <1>1, <1>2 DEF RelaysSound, Sound, HeldIsLocked, HeldOnce
<1>6. QueuedWasAdded
  BY DEF Init, QueuedWasAdded
<1>7. QED
  BY <1>4, <1>5, <1>6 DEF RelayInv

-----------------------------------------------------------------------------
(* Steps by kind *)

\* A step that moves relay r to record q, keeping or dropping its batch, without
\* touching the rows.
LEMMA RelayStep ==
    ASSUME RelayInv, NEW r \in Relays, NEW q, Typed(q), q.batch \subseteq relay[r].batch,
           q.pc = "mark" => added'[q.current.event] > 0,
           relay' = [relay EXCEPT ![r] = q], UNCHANGED <<event, created, timely>>,
           queue' \in [Events -> {"absent", "present"}], notice' \in [Relays -> BOOLEAN],
           added' \in [Events -> Nat], \A e \in Events : added'[e] >= added[e],
           QueuedWasAdded',
           faults' \in 0..MaxFaults
    PROVE  RelayInv'
<1>1. /\ relay \in [Relays -> Relay] /\ added \in [Events -> Nat]
      /\ \A s \in Relays : Typed(relay[s]) /\ Sound(relay[s], event, added)
  BY TypedRelays DEF RelayInv, TypeOK, RelaysSound
<1>2. TypeOK'
  <2>1. relay' \in [Relays -> Relay] /\ \A s \in Relays : Typed(relay'[s])
    BY <1>1 DEF Typed
  <2>2. QED
    BY <2>1 DEF RelayInv, TypeOK, Typed, Working
<1>3. RelaysSound'
  <2>1. Sound(q, event', added')
    BY <1>1 DEF Sound
  <2>2. ASSUME NEW s \in Relays, s # r PROVE Sound(relay[s], event', added')
    <3>1. relay[s].pc = "mark" => relay[s].current.event \in Events
      BY <1>1 DEF Typed, Relay, Claimed
    <3>2. QED
      BY <1>1, <3>1 DEF Sound
  <2>3. \A s \in Relays : Sound(relay'[s], event', added')
    BY <1>1, <2>1, <2>2
  <2>4. QED
    BY <2>3 DEF RelaysSound
<1>4. HeldIsLocked' /\ HeldOnce'
  <2>1. \A s \in Relays : relay'[s].batch \subseteq relay[s].batch
    BY <1>1
  <2>2. QED
    BY <2>1 DEF RelayInv, HeldIsLocked, HeldOnce
<1>5. QED
  BY <1>2, <1>3, <1>4 DEF RelayInv

\* A step of time or of the writing side that changes the row of e: if a relay
\* that is in time holds e, it stays pending and locked.
LEMMA RowStep ==
    ASSUME RelayInv, NEW e \in Events, NEW row \in Row, event' = [event EXCEPT ![e] = row],
           row.status # "NONE" \/ row.status = event[e].status,
           timely /\ (\E r \in Relays : Holds(r, e)) => row.status = "PENDING" /\ row.lock = "held",
           created' \in Seq(Events), notice' \in [Relays -> BOOLEAN],
           UNCHANGED <<queue, relay, added, timely, faults>>
    PROVE  RelayInv'
<1>1. /\ relay \in [Relays -> Relay] /\ event \in [Events -> Row]
      /\ \A s \in Relays : Sound(relay[s], event, added)
  BY DEF RelayInv, TypeOK, RelaysSound
<1>2. \A s \in Relays : \A b \in relay[s].batch : b.event \in Events
  BY <1>1 DEF Relay, Claimed
<1>3. TypeOK' /\ QueuedWasAdded'
  BY <1>1 DEF RelayInv, TypeOK, QueuedWasAdded
<1>4. RelaysSound'
  BY <1>1, <1>2 DEF RelaysSound, Sound
<1>5. HeldIsLocked'
  <2>1. ASSUME timely, NEW r \in Relays, NEW b \in relay[r].batch
        PROVE  event'[b.event].status = "PENDING" /\ event'[b.event].lock = "held"
    <3>1. CASE b.event = e
      BY <1>1, <2>1, <3>1 DEF Holds
    <3>2. CASE b.event # e
      BY <1>1, <1>2, <2>1, <3>2 DEF RelayInv, HeldIsLocked
    <3>3. QED
      BY <3>1, <3>2
  <2>2. QED
    BY <2>1 DEF HeldIsLocked
<1>6. HeldOnce'
  BY DEF RelayInv, HeldOnce
<1>7. QED
  BY <1>3, <1>4, <1>5, <1>6 DEF RelayInv

\* The end of one event of the batch: its row is changed and unlocked, and the
\* relay lets go of it.
LEMMA SettleStep ==
    ASSUME RelayInv, NEW r \in Relays, relay[r].pc \in {"mark", "fix"}, NextEvent(r),
           NEW row \in Row, row.status # "NONE",
           event' = [event EXCEPT ![relay[r].current.event] = row],
           UNCHANGED <<created, queue, notice, added, timely, faults>>
    PROVE  RelayInv'
<1> DEFINE b == relay[r].current   rest == relay[r].batch \ {b}
           q == [relay[r] EXCEPT !.batch = rest, !.current = <<>>,
                                 !.pc = IF rest = {} THEN "idle" ELSE "add"]
<1>1. /\ relay \in [Relays -> Relay] /\ event \in [Events -> Row] /\ relay[r] \in Relay
      /\ \A s \in Relays : Typed(relay[s]) /\ Sound(relay[s], event, added)
      /\ b \in relay[r].batch
  BY TypedRelays DEF RelayInv, TypeOK, RelaysSound
<1>2. \A s \in Relays : \A a \in relay[s].batch : a.event \in Events
  BY <1>1 DEF Relay, Claimed
<1>3. relay' = [relay EXCEPT ![r] = q]
  BY <1>1 DEF NextEvent
<1>4. /\ q \in Relay /\ q.batch = rest
      /\ q.pc = IF rest = {} THEN "idle" ELSE "add"
  BY <1>1 DEF Relay
<1> DEFINE e == b.event
<1>5. event' = [event EXCEPT ![e] = row] /\ e \in Events
  BY <1>1, <1>2
<1>6. \A a \in rest : a.event # e
  BY <1>1 DEF Sound
<1> HIDE DEF q, e
<1>7. TypeOK' /\ QueuedWasAdded'
  <2>1. relay' \in [Relays -> Relay] /\ Typed(q)
    BY <1>1, <1>3, <1>4 DEF Typed, Working
  <2>2. \A s \in Relays : Typed(relay'[s])
    BY <1>1, <1>3, <2>1
  <2>3. event' \in [Events -> Row]
    BY <1>1, <1>5
  <2>4. QED
    BY <2>1, <2>2, <2>3 DEF RelayInv, TypeOK, Typed, Working, QueuedWasAdded
<1>8. RelaysSound'
  <2>1. Sound(q, event', added')
    BY <1>1, <1>2, <1>4, <1>5 DEF Sound
  <2>2. \A s \in Relays \ {r} : Sound(relay[s], event', added')
    BY <1>1, <1>2, <1>5 DEF Sound
  <2>3. QED
    BY <1>1, <1>3, <2>1, <2>2 DEF RelaysSound
<1>9. HeldIsLocked'
  <2>1. ASSUME timely, NEW s \in Relays, NEW a \in relay'[s].batch
        PROVE  a \in relay[s].batch /\ a.event # e
    <3>1. CASE s = r
      BY <1>1, <1>3, <1>4, <1>6, <2>1, <3>1
    <3>2. CASE s # r
      <4>1. a \in relay[s].batch
        BY <1>1, <1>3, <2>1, <3>2
      <4>2. QED
        BY <1>1, <2>1, <3>2, <4>1 DEF RelayInv, HeldOnce, e
    <3>3. QED
      BY <3>1, <3>2
  <2>2. QED
    BY <1>1, <1>2, <1>5, <2>1 DEF RelayInv, HeldIsLocked
<1>10. HeldOnce'
  <2>1. \A s \in Relays : relay'[s].batch \subseteq relay[s].batch
    BY <1>1, <1>3, <1>4
  <2>2. QED
    BY <2>1 DEF RelayInv, HeldOnce
<1>11. QED
  BY <1>7, <1>8, <1>9, <1>10 DEF RelayInv

-----------------------------------------------------------------------------
(* The steps *)

\* What a claim takes is claimable, so no relay in time holds it.
LEMMA ClaimStep == RelayInv /\ (\E r \in Relays : Claim(r)) => RelayInv'
<1> SUFFICES ASSUME RelayInv, NEW r \in Relays, Claim(r) PROVE RelayInv'
  OBVIOUS
<1>1. /\ relay \in [Relays -> Relay] /\ event \in [Events -> Row] /\ relay[r] \in Relay
      /\ \A s \in Relays : Typed(relay[s]) /\ Sound(relay[s], event, added)
      /\ relay[r].pc = "claim" /\ relay[r].batch = {}
      /\ UNCHANGED <<created, queue, notice, added, timely, faults>>
  BY TypedRelays DEF RelayInv, TypeOK, RelaysSound, Claim, Typed, Working
<1>2. \A s \in Relays : \A b \in relay[s].batch : b.event \in Events
  BY <1>1 DEF Relay, Claimed
<1>3. PICK rows \in SUBSET Events :
         /\ \A e \in rows : Claimable(e)
         /\ event' = [e \in Events |->
              IF e \in rows THEN [event[e] EXCEPT !.lock = "held"] ELSE event[e]]
         /\ relay' = [relay EXCEPT
              ![r].batch = {[event |-> e, attempts |-> event[e].attempts] : e \in rows},
              ![r].pc = IF rows = {} THEN "idle" ELSE "add"]
  BY DEF Claim
<1> DEFINE batch == {[event |-> e, attempts |-> event[e].attempts] : e \in rows}
           q == [relay[r] EXCEPT !.batch = batch, !.pc = IF rows = {} THEN "idle" ELSE "add"]
<1>4. /\ batch \subseteq Claimed /\ (batch = {} <=> rows = {})
      /\ \A b \in batch : b.event \in rows
      /\ \A a, b \in batch : a.event = b.event => a = b
  <2>1. \A e \in rows : e \in Events /\ event[e].attempts \in Nat
    BY <1>1 DEF Row
  <2>2. \A e \in rows : [event |-> e, attempts |-> event[e].attempts] \in Claimed
    BY <2>1 DEF Claimed
  <2>3. batch \subseteq Claimed
    BY <2>2
  <2>4. \A b \in batch : \E e \in rows : b = [event |-> e, attempts |-> event[e].attempts]
    OBVIOUS
  <2>5. \A b \in batch : b.event \in rows /\ b = [event |-> b.event, attempts |-> event[b.event].attempts]
    BY <2>4
  <2>6. batch = {} <=> rows = {}
    OBVIOUS
  <2> HIDE DEF batch
  <2>7. \A a, b \in batch : a.event = b.event => a = b
    BY <2>5
  <2>8. QED
    BY <2>3, <2>5, <2>6, <2>7
<1> HIDE DEF batch
<1>5. relay' = [relay EXCEPT ![r] = q]
  BY <1>1, <1>3 DEF batch
<1>6. q \in Relay /\ q.batch = batch /\ q.pc = IF rows = {} THEN "idle" ELSE "add"
  BY <1>1, <1>4 DEF Relay
<1> HIDE DEF q
<1>7. \A e \in Events : /\ event'[e] \in Row
                        /\ event'[e].status = event[e].status
                        /\ event'[e].lock = IF e \in rows THEN "held" ELSE event[e].lock
  BY <1>1, <1>3 DEF Row
<1>8. \A e \in rows : event[e].status = "PENDING" /\ event[e].lock # "held"
  BY <1>3 DEF Claimable
<1>9. TypeOK' /\ QueuedWasAdded'
  <2>1. relay' \in [Relays -> Relay] /\ Typed(q)
    BY <1>1, <1>4, <1>5, <1>6 DEF Typed, Working
  <2>2. \A s \in Relays : Typed(relay'[s])
    BY <1>1, <1>5, <2>1
  <2>3. event' \in [Events -> Row]
    BY <1>3, <1>7
  <2>4. QED
    BY <1>1, <2>1, <2>2, <2>3 DEF RelayInv, TypeOK, Typed, Working, QueuedWasAdded
<1>10. RelaysSound'
  <2>1. Sound(q, event', added')
    BY <1>4, <1>6, <1>7, <1>8 DEF Sound
  <2>2. \A s \in Relays \ {r} : Sound(relay[s], event', added')
    BY <1>1, <1>2, <1>7 DEF Sound
  <2>3. QED
    BY <1>1, <1>5, <2>1, <2>2 DEF RelaysSound
<1>11. HeldIsLocked' /\ HeldOnce'
  <2>1. ASSUME timely, NEW s \in Relays, NEW b \in relay'[s].batch
        PROVE  /\ b.event \in Events
               /\ event'[b.event].status = "PENDING" /\ event'[b.event].lock = "held"
               /\ b.event \in rows => s = r
    <3>1. CASE s = r
      BY <1>1, <1>4, <1>5, <1>6, <1>7, <1>8, <2>1, <3>1
    <3>2. CASE s # r
      <4>1. b \in relay[s].batch
        BY <1>1, <1>5, <2>1, <3>2
      <4>2. event[b.event].status = "PENDING" /\ event[b.event].lock = "held"
        BY <2>1, <4>1 DEF RelayInv, HeldIsLocked
      <4>3. QED
        BY <1>2, <1>7, <1>8, <4>1, <4>2
    <3>3. QED
      BY <3>1, <3>2
  <2>2. ASSUME timely, NEW s \in Relays, NEW t \in Relays, NEW a \in relay'[s].batch,
               NEW b \in relay'[t].batch, a.event = b.event
        PROVE  s = t
    <3>1. CASE s = r \/ t = r
      <4>1. a.event \in rows
        BY <1>1, <1>4, <1>5, <1>6, <2>2, <3>1
      <4>2. QED
        BY <2>1, <2>2, <4>1
    <3>2. CASE s # r /\ t # r
      <4>1. a \in relay[s].batch /\ b \in relay[t].batch
        BY <1>1, <1>5, <2>2, <3>2
      <4>2. QED
        BY <2>2, <4>1 DEF RelayInv, HeldOnce
    <3>3. QED
      BY <3>1, <3>2
  <2>3. QED
    BY <1>1, <2>1, <2>2 DEF HeldIsLocked, HeldOnce
<1>12. QED
  BY <1>9, <1>10, <1>11 DEF RelayInv

LEMMA AddStep == RelayInv /\ (\E r \in Relays : Add(r)) => RelayInv'
<1> SUFFICES ASSUME RelayInv, NEW r \in Relays, Add(r) PROVE RelayInv'
  OBVIOUS
<1>1. PICK b \in relay[r].batch :
         /\ relay[r].pc = "add"
         /\ relay' = [relay EXCEPT ![r].pc = "mark", ![r].current = b]
         /\ IF queue[b.event] = "absent"
              THEN /\ queue' = [queue EXCEPT ![b.event] = "present"]
                   /\ added' = [added EXCEPT ![b.event] = @ + 1]
              ELSE UNCHANGED <<queue, added>>
         /\ UNCHANGED <<event, created, notice, timely, faults>>
  BY DEF Add
<1>2. relay \in [Relays -> Relay] /\ relay[r] \in Relay /\ b \in Claimed /\ b.event \in Events
  BY <1>1 DEF RelayInv, TypeOK, Relay, Claimed
<1> DEFINE q == [relay[r] EXCEPT !.pc = "mark", !.current = b]
<1>3. relay' = [relay EXCEPT ![r] = q]
  BY <1>1, <1>2
<1>4. q \in Relay /\ q.pc = "mark" /\ q.current = b /\ q.batch = relay[r].batch
  BY <1>2 DEF Relay
<1> HIDE DEF q
<1>5. /\ queue' \in [Events -> {"absent", "present"}] /\ added' \in [Events -> Nat]
      /\ \A e \in Events : added'[e] >= added[e]
      /\ QueuedWasAdded' /\ added'[b.event] > 0
  <2>1. queue \in [Events -> {"absent", "present"}] /\ added \in [Events -> Nat]
    BY DEF RelayInv, TypeOK
  <2>2. CASE queue[b.event] = "absent"
    BY <1>1, <1>2, <2>1, <2>2 DEF RelayInv, QueuedWasAdded
  <2>3. CASE queue[b.event] # "absent"
    BY <1>1, <1>2, <2>1, <2>3 DEF RelayInv, QueuedWasAdded
  <2>4. QED
    BY <2>2, <2>3
<1>6. Typed(q)
  BY <1>1, <1>4 DEF Typed, Working
<1>7. notice' \in [Relays -> BOOLEAN] /\ faults' \in 0..MaxFaults
  BY <1>1 DEF RelayInv, TypeOK
<1>8. QED
  BY <1>1, <1>3, <1>4, <1>5, <1>6, <1>7, RelayStep

\* Steps of a relay that leave rows and jobs alone.
LEMMA MoveStep ==
    RelayInv /\ (\E r \in Relays :
        \/ Start(r) \/ WakeIdle(r) \/ WakeBusy(r) \/ AddFails(r) \/ MarkFails(r)
        \/ PollFails(r) \/ Crash(r) \/ ListenerLost(r)) => RelayInv'
<1> SUFFICES ASSUME RelayInv, NEW r \in Relays,
                    \/ Start(r) \/ WakeIdle(r) \/ WakeBusy(r) \/ AddFails(r) \/ MarkFails(r)
                    \/ PollFails(r) \/ Crash(r) \/ ListenerLost(r)
             PROVE RelayInv'
  OBVIOUS
<1>1. /\ relay \in [Relays -> Relay] /\ relay[r] \in Relay /\ Typed(relay[r])
      /\ added \in [Events -> Nat]
      /\ Sound(relay[r], event, added)
  BY TypedRelays DEF RelayInv, TypeOK, RelaysSound
<1>2. UNCHANGED <<event, created, queue, added, timely>>
  BY DEF Start, WakeIdle, WakeBusy, AddFails, MarkFails, PollFails, Crash, ListenerLost
<1>3. notice' \in [Relays -> BOOLEAN] /\ faults' \in 0..MaxFaults
  <2>1. notice \in [Relays -> BOOLEAN] /\ faults \in 0..MaxFaults
    BY DEF RelayInv, TypeOK
  <2>2. notice' = notice \/ notice' = [notice EXCEPT ![r] = FALSE]
    BY DEF Start, WakeIdle, WakeBusy, AddFails, MarkFails, PollFails, Crash, ListenerLost
  <2>3. faults' = faults \/ Fault
    BY DEF Start, WakeIdle, WakeBusy, AddFails, MarkFails, PollFails, Crash, ListenerLost
  <2>4. notice' \in [Relays -> BOOLEAN]
    BY <2>1, <2>2
  <2>5. faults' \in 0..MaxFaults
    BY <2>1, <2>3, RelayConstants DEF Fault
  <2>6. QED
    BY <2>4, <2>5
<1>4. /\ queue' \in [Events -> {"absent", "present"}] /\ added' \in [Events -> Nat]
      /\ \A e \in Events : added'[e] >= added[e]
      /\ QueuedWasAdded'
  BY <1>1, <1>2 DEF RelayInv, TypeOK, QueuedWasAdded
<1>5. ASSUME NEW q, Typed(q), q.batch \subseteq relay[r].batch, q.pc # "mark",
             relay' = [relay EXCEPT ![r] = q]
      PROVE  RelayInv'
  BY <1>2, <1>3, <1>4, <1>5, RelayStep
<1>6. CASE Start(r) \/ WakeIdle(r)
  <2>1. PICK listening \in BOOLEAN : relay' = [relay EXCEPT ![r] =
           [relay[r] EXCEPT !.pc = "claim", !.listening = listening]]
    <3>1. CASE Start(r)
      BY <1>1, <3>1 DEF Start
    <3>2. CASE WakeIdle(r)
      <4>1. relay[r].listening \in BOOLEAN
        BY <1>1 DEF Relay
      <4>2. [relay[r] EXCEPT !.pc = "claim", !.listening = relay[r].listening]
                = [relay[r] EXCEPT !.pc = "claim"]
        BY <1>1 DEF Relay
      <4>3. relay' = [relay EXCEPT ![r] = [relay[r] EXCEPT !.pc = "claim"]]
        BY <1>1, <3>2 DEF WakeIdle
      <4>4. QED
        BY <4>1, <4>2, <4>3
    <3>3. QED
      BY <1>6, <3>1, <3>2
  <2>2. relay[r].pc \in {"down", "idle"}
    BY <1>6 DEF Start, WakeIdle
  <2> DEFINE q == [relay[r] EXCEPT !.pc = "claim", !.listening = listening]
  <2>3. q \in Relay /\ q.pc = "claim" /\ q.batch = relay[r].batch
    BY <1>1 DEF Relay
  <2> HIDE DEF q
  <2>4. Typed(q)
    BY <1>1, <2>2, <2>3 DEF Typed, Working
  <2>5. QED
    BY <1>5, <2>1, <2>3, <2>4 DEF q
<1>7. CASE WakeBusy(r)
  BY <1>2, <1>3, <1>7 DEF WakeBusy, RelayInv, TypeOK, RelaysSound, HeldIsLocked, HeldOnce,
                          QueuedWasAdded
<1>8. CASE AddFails(r) \/ MarkFails(r)
  <2>1. PICK b \in relay[r].batch :
           relay' = [relay EXCEPT ![r] = [relay[r] EXCEPT !.pc = "fix", !.current = b]]
    <3>1. CASE AddFails(r)
      BY <1>1, <3>1 DEF AddFails
    <3>2. CASE MarkFails(r)
      <4>1. relay[r].current \in relay[r].batch
        BY <1>1, <3>2 DEF MarkFails, Typed
      <4>2. [relay[r] EXCEPT !.pc = "fix", !.current = relay[r].current]
                = [relay[r] EXCEPT !.pc = "fix"]
        BY <1>1 DEF Relay
      <4>3. relay' = [relay EXCEPT ![r] = [relay[r] EXCEPT !.pc = "fix"]]
        BY <1>1, <3>2 DEF MarkFails
      <4>4. QED
        BY <4>1, <4>2, <4>3
    <3>3. QED
      BY <1>8, <3>1, <3>2
  <2> DEFINE q == [relay[r] EXCEPT !.pc = "fix", !.current = b]
  <2>2. q \in Relay /\ q.pc = "fix" /\ q.batch = relay[r].batch /\ q.current = b
    BY <1>1 DEF Relay
  <2> HIDE DEF q
  <2>3. Typed(q)
    BY <2>2 DEF Typed, Working
  <2>4. QED
    BY <1>5, <2>1, <2>2, <2>3 DEF q
<1>9. CASE PollFails(r)
  <2> DEFINE q == [relay[r] EXCEPT !.pc = "idle", !.batch = {}, !.current = <<>>]
  <2>1. relay' = [relay EXCEPT ![r] = q]
    BY <1>1, <1>9 DEF PollFails
  <2>2. q \in Relay /\ q.pc = "idle" /\ q.batch = {}
    BY <1>1 DEF Relay
  <2> HIDE DEF q
  <2>3. Typed(q)
    BY <2>2 DEF Typed, Working
  <2>4. QED
    BY <1>5, <2>1, <2>2, <2>3
<1>10. CASE Crash(r)
  <2>1. relay' = [relay EXCEPT ![r] = Stopped]
    BY <1>10 DEF Crash
  <2>2. Typed(Stopped) /\ Stopped.batch = {} /\ Stopped.pc # "mark"
    BY DEF Stopped, Typed, Working, Relay
  <2>3. QED
    BY <1>5, <2>1, <2>2
<1>11. CASE ListenerLost(r)
  <2> DEFINE q == [relay[r] EXCEPT !.listening = FALSE]
  <2>1. relay' = [relay EXCEPT ![r] = q]
    BY <1>1, <1>11 DEF ListenerLost
  <2>2. /\ q \in Relay /\ q.pc = relay[r].pc /\ q.batch = relay[r].batch
        /\ q.current = relay[r].current
    BY <1>1 DEF Relay
  <2> HIDE DEF q
  <2>3. Typed(q)
    BY <1>1, <2>2 DEF Typed
  <2>4. q.pc = "mark" => added'[q.current.event] > 0
    BY <1>1, <1>2, <2>2 DEF Sound
  <2>5. QED
    BY <1>2, <1>3, <1>4, <2>1, <2>2, <2>3, <2>4, RelayStep
<1>12. QED
  BY <1>6, <1>7, <1>8, <1>9, <1>10, <1>11

\* The ends of an event: marked, given up or rescheduled.
LEMMA EndStep == RelayInv /\ (\E r \in Relays : Mark(r) \/ Fix(r)) => RelayInv'
<1> SUFFICES ASSUME RelayInv, NEW r \in Relays, Mark(r) \/ Fix(r) PROVE RelayInv'
  OBVIOUS
<1> DEFINE e == relay[r].current.event
<1>1. /\ relay[r].pc \in {"mark", "fix"} /\ relay[r].current \in relay[r].batch
      /\ NextEvent(r) /\ UNCHANGED <<created, queue, notice, added, timely, faults>>
  BY DEF RelayInv, TypeOK, Mark, Fix
<1>2. /\ event \in [Events -> Row] /\ relay[r].current \in Claimed /\ e \in Events
      /\ event[e] \in Row /\ event[e].status # "NONE"
  BY <1>1 DEF RelayInv, TypeOK, RelaysSound, Sound, Relay, Claimed
<1>3. ASSUME NEW row \in Row, row.status # "NONE", event' = [event EXCEPT ![e] = row]
      PROVE  RelayInv'
  BY <1>1, <1>3, SettleStep
<1>4. CASE Mark(r)
  <2> DEFINE row == [event[e] EXCEPT !.status = "PUBLISHED", !.lock = "free"]
  <2>1. row \in Row /\ row.status # "NONE"
    BY <1>2 DEF Row
  <2>2. event' = [event EXCEPT ![e] = row]
    BY <1>2, <1>4 DEF Mark
  <2> HIDE DEF row, e
  <2>3. QED
    BY <1>3, <2>1, <2>2
<1>5. CASE Fix(r)
  <2> DEFINE late      == relay[r].current.attempts >= MaxRetries
             status    == IF late THEN "FAILED" ELSE event[e].status
             available == IF late THEN event[e].available ELSE FALSE
             attempts  == event[e].attempts + 1
             row == [event[e] EXCEPT !.attempts = attempts, !.lock = "free",
                                     !.status = status, !.available = available]
  <2>1. event' = [event EXCEPT ![e] = row]
    BY <1>2, <1>5 DEF Fix
  <2>2. /\ status \in {"PENDING", "PUBLISHED", "FAILED"}
        /\ available \in BOOLEAN /\ attempts \in Nat
    <3>1. event[e].available \in BOOLEAN /\ event[e].attempts \in Nat
      BY <1>2 DEF Row
    <3>2. event[e].status \in {"PENDING", "PUBLISHED", "FAILED"}
      BY <1>2 DEF Row
    <3> HIDE DEF late, e
    <3>3. status \in {"PENDING", "PUBLISHED", "FAILED"}
      BY <3>2
    <3>4. available \in BOOLEAN
      BY <3>1, Zenon
    <3>5. attempts \in Nat
      BY <3>1
    <3>6. QED
      BY <3>3, <3>4, <3>5
  <2> HIDE DEF late, status, available, attempts
  <2>3. row \in Row /\ row.status = status
    BY <1>2, <2>2 DEF Row
  <2> HIDE DEF row, e
  <2>4. QED
    BY <1>3, <2>1, <2>2, <2>3
<1>6. QED
  BY <1>4, <1>5

\* The writing side and time.
LEMMA RowsStep ==
    RelayInv /\ (\E e \in Events : Enqueue(e) \/ LockExpires(e) \/ BecomesAvailable(e))
        => RelayInv'
<1> SUFFICES ASSUME RelayInv, NEW e \in Events,
                    Enqueue(e) \/ LockExpires(e) \/ BecomesAvailable(e)
             PROVE RelayInv'
  OBVIOUS
<1>1. /\ event \in [Events -> Row] /\ event[e] \in Row
      /\ created \in Seq(Events) /\ notice \in [Relays -> BOOLEAN]
  BY DEF RelayInv, TypeOK
<1>2. \A r \in Relays : Holds(r, e) => event[e].status # "NONE"
  BY DEF RelayInv, RelaysSound, Sound, Holds
<1>3. timely /\ (\E r \in Relays : Holds(r, e))
          => event[e].status = "PENDING" /\ event[e].lock = "held"
  BY DEF RelayInv, HeldIsLocked, Holds
<1>4. CASE Enqueue(e)
  <2> DEFINE row == [event[e] EXCEPT !.status = "PENDING"]
  <2>1. row \in Row /\ row.status = "PENDING" /\ event' = [event EXCEPT ![e] = row]
    BY <1>1, <1>4 DEF Enqueue, Row
  <2>2. event[e].status = "NONE" /\ UNCHANGED <<queue, relay, added, timely, faults>>
    BY <1>4 DEF Enqueue
  <2>3. created' \in Seq(Events)
    BY <1>1, <1>4 DEF Enqueue
  <2>4. notice' \in [Relays -> BOOLEAN]
    <3>1. relay \in [Relays -> Relay]
      BY DEF RelayInv, TypeOK
    <3>2. \A r \in Relays : (notice[r] \/ relay[r].listening) \in BOOLEAN
      BY <1>1, <3>1 DEF Relay
    <3>3. notice' = [r \in Relays |-> notice[r] \/ relay[r].listening]
      BY <1>4 DEF Enqueue, Notify
    <3>4. QED
      BY <3>2, <3>3
  <2> HIDE DEF row
  <2>5. QED
    BY <1>2, <2>1, <2>2, <2>3, <2>4, RowStep
<1>5. CASE LockExpires(e)
  <2> DEFINE row == [event[e] EXCEPT !.lock = "expired"]
  <2>1. row \in Row /\ row.status = event[e].status /\ event' = [event EXCEPT ![e] = row]
    BY <1>1, <1>5 DEF LockExpires, Row
  <2>2. /\ UNCHANGED <<created, queue, relay, notice, added, timely, faults>>
        /\ timely => ~\E r \in Relays : Holds(r, e)
    BY <1>5 DEF LockExpires
  <2> HIDE DEF row
  <2>3. QED
    BY <1>1, <2>1, <2>2, RowStep
<1>6. CASE BecomesAvailable(e)
  <2> DEFINE row == [event[e] EXCEPT !.available = TRUE]
  <2>1. /\ row \in Row /\ row.status = event[e].status /\ row.lock = event[e].lock
        /\ event' = [event EXCEPT ![e] = row]
    BY <1>1, <1>6 DEF BecomesAvailable, Row
  <2>2. UNCHANGED <<created, queue, relay, notice, added, timely, faults>>
    BY <1>6 DEF BecomesAvailable
  <2> HIDE DEF row
  <2>3. QED
    BY <1>1, <1>3, <2>1, <2>2, RowStep
<1>7. QED
  BY <1>4, <1>5, <1>6

LEMMA QueueStep ==
    RelayInv /\ (OtherTraffic \/ \E e \in Events : JobCompletes(e)) => RelayInv'
<1> SUFFICES ASSUME RelayInv, OtherTraffic \/ \E e \in Events : JobCompletes(e) PROVE RelayInv'
  OBVIOUS
<1>1. UNCHANGED <<event, created, relay, added, timely, faults>>
  BY DEF OtherTraffic, JobCompletes
<1>2. notice' \in [Relays -> BOOLEAN]
  <2>1. notice \in [Relays -> BOOLEAN] /\ relay \in [Relays -> Relay]
    BY DEF RelayInv, TypeOK
  <2>2. \A r \in Relays : (notice[r] \/ relay[r].listening) \in BOOLEAN
    BY <2>1 DEF Relay
  <2>3. notice' = notice \/ notice' = [r \in Relays |-> notice[r] \/ relay[r].listening]
    BY DEF OtherTraffic, JobCompletes, Notify
  <2>4. QED
    BY <2>1, <2>2, <2>3
<1>3. queue' \in [Events -> {"absent", "present"}]
  BY DEF RelayInv, TypeOK, OtherTraffic, JobCompletes
<1>4. \A e \in Events : queue'[e] = "present" => queue[e] = "present"
  BY DEF RelayInv, TypeOK, OtherTraffic, JobCompletes
<1>5. QED
  BY <1>1, <1>2, <1>3, <1>4 DEF RelayInv, TypeOK, RelaysSound, QueuedWasAdded, HeldIsLocked,
                                HeldOnce

LEMMA StepInv == RelayInv /\ [Next]_vars => RelayInv'
<1> SUFFICES ASSUME RelayInv, [Next]_vars PROVE RelayInv'
  OBVIOUS
<1>1. CASE UNCHANGED vars
  BY <1>1 DEF vars, RelayInv, TypeOK, RelaysSound, QueuedWasAdded, HeldIsLocked, HeldOnce
<1>2. CASE Next
  BY <1>2, ClaimStep, AddStep, MoveStep, EndStep, RowsStep, QueueStep DEF Next, Poll
<1>3. QED
  BY <1>1, <1>2

LEMMA RelayInvariant == Spec => []RelayInv
BY InitInv, StepInv, PTL DEF Spec

-----------------------------------------------------------------------------
(* The theorems *)

\* Every variable keeps its type.
THEOREM RelayTypeCorrect == Spec => []TypeOK
<1>1. RelayInv => TypeOK
  BY DEF RelayInv
<1>2. QED
  BY <1>1, RelayInvariant, PTL

\* As long as batches are finished in time, no two relays hold the same event.
THEOREM ClaimsExclusive == Spec => []ExclusiveClaim
<1>1. RelayInv => ExclusiveClaim
  BY DEF RelayInv, HeldOnce, ExclusiveClaim, Holds
<1>2. QED
  BY <1>1, RelayInvariant, PTL

\* What the steps that end or add an event do to its row.
LEMMA EventSteps ==
    ASSUME RelayInv, NEW r \in Relays
    PROVE  /\ Add(r) => \E b \in relay[r].batch :
                 /\ b.event \in Events
                 /\ \A e \in Events : e # b.event => added'[e] = added[e]
                 /\ added'[b.event] >= added[b.event] /\ added'[b.event] > 0
                 /\ UNCHANGED event
           /\ Mark(r) => \E b \in relay[r].batch :
                 /\ b.event \in Events /\ added[b.event] > 0
                 /\ event'[b.event].status = "PUBLISHED"
                 /\ \A e \in Events : e # b.event => event'[e] = event[e]
                 /\ UNCHANGED added
           /\ Fix(r) => \E b \in relay[r].batch :
                 /\ b.event \in Events
                 /\ event'[b.event].status \in {"FAILED", event[b.event].status}
                 /\ \A e \in Events : e # b.event => event'[e] = event[e]
                 /\ UNCHANGED added
<1>1. /\ relay[r] \in Relay /\ Sound(relay[r], event, added) /\ Typed(relay[r])
      /\ event \in [Events -> Row] /\ added \in [Events -> Nat]
      /\ queue \in [Events -> {"absent", "present"}]
  BY TypedRelays DEF RelayInv, TypeOK, RelaysSound
<1>2. \A b \in relay[r].batch : b.event \in Events
  BY <1>1 DEF Relay, Claimed
<1>3. ASSUME Add(r)
      PROVE  \E b \in relay[r].batch :
                 /\ b.event \in Events
                 /\ \A e \in Events : e # b.event => added'[e] = added[e]
                 /\ added'[b.event] >= added[b.event] /\ added'[b.event] > 0
                 /\ UNCHANGED event
  <2>1. PICK b \in relay[r].batch :
          /\ IF queue[b.event] = "absent" THEN added' = [added EXCEPT ![b.event] = @ + 1]
                                          ELSE UNCHANGED <<queue, added>>
          /\ UNCHANGED event
    BY <1>3 DEF Add
  <2>2. queue[b.event] # "absent" => added[b.event] > 0
    BY <1>1, <1>2 DEF RelayInv, QueuedWasAdded
  <2>3. QED
    BY <1>1, <1>2, <2>1, <2>2
<1>4. relay[r].pc \in {"mark", "fix"} => relay[r].current \in relay[r].batch
  BY <1>1 DEF Typed
<1>5. ASSUME Mark(r)
      PROVE  \E b \in relay[r].batch :
                 /\ b.event \in Events /\ added[b.event] > 0
                 /\ event'[b.event].status = "PUBLISHED"
                 /\ \A e \in Events : e # b.event => event'[e] = event[e]
                 /\ UNCHANGED added
  <2> DEFINE b == relay[r].current
  <2>1. b \in relay[r].batch /\ b.event \in Events /\ added[b.event] > 0
    BY <1>1, <1>2, <1>4, <1>5 DEF Mark, Sound
  <2>2. /\ event' = [event EXCEPT ![b.event].status = "PUBLISHED", ![b.event].lock = "free"]
        /\ UNCHANGED added
    BY <1>5 DEF Mark
  <2>3. event[b.event] \in Row
    BY <1>1, <2>1
  <2> HIDE DEF b
  <2>4. event'[b.event].status = "PUBLISHED"
    BY <1>1, <2>1, <2>2, <2>3 DEF Row
  <2>5. QED
    BY <1>1, <2>1, <2>2, <2>4
<1>6. ASSUME Fix(r)
      PROVE  \E b \in relay[r].batch :
                 /\ b.event \in Events
                 /\ event'[b.event].status \in {"FAILED", event[b.event].status}
                 /\ \A e \in Events : e # b.event => event'[e] = event[e]
                 /\ UNCHANGED added
  <2> DEFINE b == relay[r].current   e == b.event   late == b.attempts >= MaxRetries
             row == [event[e] EXCEPT !.attempts = event[e].attempts + 1, !.lock = "free",
                       !.status    = IF late THEN "FAILED" ELSE event[e].status,
                       !.available = IF late THEN event[e].available ELSE FALSE]
  <2>1. b \in relay[r].batch /\ e \in Events /\ event[e] \in Row
    BY <1>1, <1>2, <1>4, <1>6 DEF Fix
  <2>2. event' = [event EXCEPT ![e] = row] /\ UNCHANGED added
    BY <1>1, <1>6, <2>1 DEF Fix
  <2> HIDE DEF late
  <2>3. row.status \in {"FAILED", event[e].status}
    BY <2>1 DEF Row
  <2> HIDE DEF row
  <2>4. QED
    BY <1>1, <2>1, <2>2, <2>3
<1>7. QED
  BY <1>3, <1>5, <1>6

\* As long as batches are finished in time, a published event stays published and
\* is not added again: what a relay adds, marks or reschedules is pending.
THEOREM PublishedStays == Spec => PublishedIsFinal
<1> DEFINE Final == timely => \A e \in Events : event[e].status = "PUBLISHED" =>
                        /\ event'[e].status = "PUBLISHED"
                        /\ added'[e] = added[e]
<1>1. RelayInv /\ [Next]_vars => [Final]_vars
  <2> SUFFICES ASSUME RelayInv, Next, timely,
                      NEW e \in Events, event[e].status = "PUBLISHED"
               PROVE  event'[e].status = "PUBLISHED" /\ added'[e] = added[e]
    BY DEF vars
  <2>1. event \in [Events -> Row] /\ event[e] \in Row
    BY DEF RelayInv, TypeOK
  <2>2. \A r \in Relays : \A b \in relay[r].batch : b.event # e
    BY DEF RelayInv, HeldIsLocked
  <2>3. ASSUME NEW r \in Relays, Add(r) \/ Mark(r) \/ Fix(r)
        PROVE  event'[e].status = "PUBLISHED" /\ added'[e] = added[e]
    BY <2>2, <2>3, EventSteps
  <2>4. ASSUME NEW r \in Relays, Claim(r)
        PROVE  event'[e].status = "PUBLISHED" /\ added'[e] = added[e]
    <3>1. PICK rows \in SUBSET Events :
            event' = [d \in Events |->
              IF d \in rows THEN [event[d] EXCEPT !.lock = "held"] ELSE event[d]]
      BY <2>4 DEF Claim
    <3>2. UNCHANGED added
      BY <2>4 DEF Claim
    <3>3. QED
      BY <2>1, <3>1, <3>2 DEF Row
  <2>5. ASSUME NEW d \in Events, Enqueue(d) \/ LockExpires(d) \/ BecomesAvailable(d)
        PROVE  event'[e].status = "PUBLISHED" /\ added'[e] = added[e]
    <3>1. UNCHANGED added
      BY <2>5 DEF Enqueue, LockExpires, BecomesAvailable
    <3>2. CASE Enqueue(d)
      BY <2>1, <3>1, <3>2 DEF Enqueue
    <3>3. CASE LockExpires(d)
      BY <2>1, <3>1, <3>3 DEF LockExpires, Row
    <3>4. CASE BecomesAvailable(d)
      BY <2>1, <3>1, <3>4 DEF BecomesAvailable, Row
    <3>5. QED
      BY <2>5, <3>2, <3>3, <3>4
  <2>6. ASSUME UNCHANGED <<event, added>>
        PROVE  event'[e].status = "PUBLISHED" /\ added'[e] = added[e]
    BY <2>6
  <2>7. ASSUME NEW r \in Relays, \/ Start(r) \/ WakeIdle(r) \/ WakeBusy(r) \/ AddFails(r)
                                 \/ MarkFails(r) \/ PollFails(r) \/ Crash(r) \/ ListenerLost(r)
        PROVE  UNCHANGED <<event, added>>
    BY <2>7 DEF Start, WakeIdle, WakeBusy, AddFails, MarkFails, PollFails, Crash, ListenerLost
  <2>8. OtherTraffic \/ (\E d \in Events : JobCompletes(d)) => UNCHANGED <<event, added>>
    BY DEF OtherTraffic, JobCompletes
  <2>9. QED
    BY <2>3, <2>4, <2>5, <2>6, <2>7, <2>8 DEF Next, Poll
<1>2. QED
  BY <1>1, RelayInvariant, PTL DEF Spec, PublishedIsFinal

\* The relay implements at-least-once delivery: its initial states are initial
\* states of AtLeastOnce, and each step records, delivers, publishes or gives up
\* an event, or changes nothing AtLeastOnce sees.
THEOREM RelayDelivers == Spec => DeliveryImplemented
<1> DEFINE status == [e \in Events |-> event[e].status]
           delivered == {e \in Events : added[e] > 0}
<1>1. Init => Delivery!Init
  <2> SUFFICES ASSUME Init PROVE status = [e \in Events |-> "NONE"] /\ delivered = {}
    BY DEF Delivery!Init
  <2>1. \A e \in Events : event[e].status = "NONE" /\ ~(added[e] > 0)
    BY DEF Init, NewRow
  <2>2. QED
    BY <2>1
<1>2. RelayInv /\ [Next]_vars => [Delivery!Next]_(Delivery!vars)
  <2> SUFFICES ASSUME RelayInv, [Next]_vars PROVE [Delivery!Next]_(Delivery!vars)
    OBVIOUS
  <2>1. event \in [Events -> Row] /\ added \in [Events -> Nat]
    BY DEF RelayInv, TypeOK
  <2>2. \A r \in Relays : \A b \in relay[r].batch : event[b.event].status # "NONE"
    BY DEF RelayInv, RelaysSound, Sound
  <2>3. ASSUME \A e \in Events : event'[e].status = event[e].status, UNCHANGED added
        PROVE  UNCHANGED Delivery!vars
    BY <2>3 DEF Delivery!vars
  <2>4. ASSUME NEW r \in Relays, Add(r) PROVE [Delivery!Next]_(Delivery!vars)
    <3>1. PICK b \in relay[r].batch :
            /\ b.event \in Events
            /\ \A e \in Events : e # b.event => added'[e] = added[e]
            /\ added'[b.event] > 0
            /\ UNCHANGED event
      BY <2>4, EventSteps
    <3>2. delivered' = delivered \cup {b.event} /\ status' = status
      BY <3>1
    <3>3. status[b.event] # "NONE"
      BY <2>2, <3>1
    <3>4. Delivery!Deliver(b.event)
      BY <3>2, <3>3 DEF Delivery!Deliver
    <3>5. QED
      BY <3>1, <3>4 DEF Delivery!Next
  <2>5. ASSUME NEW r \in Relays, Mark(r) PROVE [Delivery!Next]_(Delivery!vars)
    <3>1. PICK b \in relay[r].batch :
            /\ b.event \in Events /\ added[b.event] > 0
            /\ event'[b.event].status = "PUBLISHED"
            /\ \A e \in Events : e # b.event => event'[e] = event[e]
            /\ UNCHANGED added
      BY <2>5, EventSteps
    <3>2. status' = [status EXCEPT ![b.event] = "PUBLISHED"] /\ delivered' = delivered
      BY <3>1
    <3>3. b.event \in delivered
      BY <3>1
    <3>4. Delivery!Publish(b.event)
      BY <3>2, <3>3 DEF Delivery!Publish
    <3>5. QED
      BY <3>1, <3>4 DEF Delivery!Next
  <2>6. ASSUME NEW r \in Relays, Fix(r) PROVE [Delivery!Next]_(Delivery!vars)
    <3>1. PICK b \in relay[r].batch :
            /\ b.event \in Events
            /\ event'[b.event].status \in {"FAILED", event[b.event].status}
            /\ \A e \in Events : e # b.event => event'[e] = event[e]
            /\ UNCHANGED added
      BY <2>6, EventSteps
    <3>2. CASE event'[b.event].status = event[b.event].status
      BY <2>3, <3>1, <3>2
    <3>3. CASE event'[b.event].status = "FAILED"
      <4>1. status' = [status EXCEPT ![b.event] = "FAILED"] /\ delivered' = delivered
        BY <3>1, <3>3
      <4>2. status[b.event] # "NONE"
        BY <2>2, <3>1
      <4>3. Delivery!GiveUp(b.event)
        BY <4>1, <4>2 DEF Delivery!GiveUp
      <4>4. QED
        BY <3>1, <4>3 DEF Delivery!Next
    <3>4. QED
      BY <3>1, <3>2, <3>3
  <2>7. ASSUME NEW e \in Events, Enqueue(e) PROVE [Delivery!Next]_(Delivery!vars)
    <3>1. /\ event[e].status = "NONE" /\ event' = [event EXCEPT ![e].status = "PENDING"]
          /\ UNCHANGED added
      BY <2>7 DEF Enqueue
    <3>2. event'[e].status = "PENDING" /\ \A d \in Events \ {e} : event'[d] = event[d]
      BY <2>1, <3>1 DEF Row
    <3>3. status' = [status EXCEPT ![e] = "PENDING"]
      BY <3>2
    <3>4. delivered' = delivered
      BY <3>1
    <3>5. status[e] = "NONE"
      BY <3>1
    <3>6. Delivery!Record(e)
      BY <3>3, <3>4, <3>5 DEF Delivery!Record
    <3>7. QED
      BY <3>6 DEF Delivery!Next
  <2>8. ASSUME NEW r \in Relays, Claim(r) PROVE UNCHANGED Delivery!vars
    <3>1. PICK rows \in SUBSET Events :
            event' = [d \in Events |->
              IF d \in rows THEN [event[d] EXCEPT !.lock = "held"] ELSE event[d]]
      BY <2>8 DEF Claim
    <3>2. UNCHANGED added
      BY <2>8 DEF Claim
    <3>3. \A d \in Events : event'[d].status = event[d].status
      BY <2>1, <3>1 DEF Row
    <3>4. QED
      BY <2>3, <3>2, <3>3
  <2>9. ASSUME NEW d \in Events, LockExpires(d) \/ BecomesAvailable(d)
        PROVE  UNCHANGED Delivery!vars
    <3>1. UNCHANGED added
      BY <2>9 DEF LockExpires, BecomesAvailable
    <3>2. CASE LockExpires(d)
      <4>1. \A e \in Events : event'[e].status = event[e].status
        BY <2>1, <3>2 DEF LockExpires, Row
      <4>2. QED
        BY <2>3, <3>1, <4>1
    <3>3. CASE BecomesAvailable(d)
      <4>1. \A e \in Events : event'[e].status = event[e].status
        BY <2>1, <3>3 DEF BecomesAvailable, Row
      <4>2. QED
        BY <2>3, <3>1, <4>1
    <3>4. QED
      BY <2>9, <3>2, <3>3
  <2>10. ASSUME NEW r \in Relays, \/ Start(r) \/ WakeIdle(r) \/ WakeBusy(r) \/ AddFails(r)
                                  \/ MarkFails(r) \/ PollFails(r) \/ Crash(r) \/ ListenerLost(r)
         PROVE  UNCHANGED <<event, added>>
    BY <2>10 DEF Start, WakeIdle, WakeBusy, AddFails, MarkFails, PollFails, Crash, ListenerLost
  <2>11. OtherTraffic \/ (\E d \in Events : JobCompletes(d)) \/ UNCHANGED vars
            => UNCHANGED <<event, added>>
    BY DEF OtherTraffic, JobCompletes, vars
  <2>12. UNCHANGED <<event, added>> => UNCHANGED Delivery!vars
    BY <2>3
  <2>13. QED
    BY <2>4, <2>5, <2>6, <2>7, <2>8, <2>9, <2>10, <2>11, <2>12 DEF Next, Poll
<1>3. QED
  BY <1>1, <1>2, RelayInvariant, PTL DEF Spec, DeliveryImplemented, Delivery!Spec
=============================================================================
