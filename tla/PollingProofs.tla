--------------------------- MODULE PollingProofs ---------------------------
(***************************************************************************)
(* Theorems about Polling, for every set of devices, every backoff and     *)
(* every bound that satisfy its assumptions.                               *)
(***************************************************************************)
EXTENDS Polling, TLAPS

-----------------------------------------------------------------------------
(***************************************************************************)
(* Backoff.                                                                *)
(***************************************************************************)
\* next_poll_interval never leaves BASE_INTERVAL_SECONDS .. MAX_INTERVAL_SECONDS
\* upwards: an interval is positive and at most the ceiling.
LEMMA IntervalBounds ==
    ASSUME NEW f \in 0 .. MaxFailures
    PROVE  /\ next_poll_interval(f) \in Nat \ {0}
           /\ next_poll_interval(f) <= MaxInterval
  BY BackoffAssumption DEF next_poll_interval

\* A counted failure stays within its bound and is never lost.
LEMMA FailureBounds ==
    ASSUME NEW f \in 0 .. MaxFailures
    PROVE  OneMoreFailure(f) \in 1 .. MaxFailures
  BY BackoffAssumption DEF OneMoreFailure

-----------------------------------------------------------------------------
(***************************************************************************)
(* Rows and events.                                                        *)
(***************************************************************************)
\* _apply_ping_result writes a well-formed row.
LEMMA NewRowType ==
    ASSUME NEW row \in Row, NEW online \in BOOLEAN, NEW now \in Time
    PROVE  NewRow(row, online, now) \in Row
<1>1. now \in Nat
  BY BoundsAssumption DEF Time
<1> DEFINE failures == IF online THEN 0 ELSE OneMoreFailure(row.consecutive_failures)
<1>2. failures \in 0 .. MaxFailures
  BY FailureBounds, BackoffAssumption DEF Row
<1>3. next_poll_interval(failures) \in Nat
  BY <1>2, IntervalBounds
<1>4. NewStatus(online) \in DeviceStatus
  BY DEF NewStatus, DeviceStatus
<1> HIDE DEF failures
<1> DEFINE interval == next_poll_interval(failures)
<1>5. NewRow(row, online, now) =
        [row EXCEPT !.status = NewStatus(online),
                    !.consecutive_failures = failures,
                    !.poll_interval_seconds = interval,
                    !.next_poll_at = now + interval,
                    !.last_checked_at = now]
  BY DEF NewRow, failures
<1>6. interval \in Nat /\ now + interval \in Nat
  BY <1>1, <1>3
<1> HIDE DEF interval
<1> QED
  BY <1>2, <1>4, <1>5, <1>6 DEF Row

\* Ending the open event keeps the events well formed, and their number.
LEMMA CloseType ==
    ASSUME NEW log \in Seq(Event), NEW now \in Time
    PROVE  /\ close_open_event(log, now) \in Seq(Event)
           /\ Len(close_open_event(log, now)) = Len(log)
<1>1. \A i \in 1 .. Len(log) : log[i] \in Event
  OBVIOUS
<1>2. \A i \in 1 .. Len(log) : [log[i] EXCEPT !.ended_at = now] \in Event
  BY <1>1 DEF Event
<1> QED
  BY <1>1, <1>2 DEF close_open_event

\* The events after a poll are well formed.
LEMMA NewEventsType ==
    ASSUME NEW log \in Seq(Event), NEW old, NEW online \in BOOLEAN, NEW now \in Time
    PROVE  NewEvents(log, old, online, now) \in Seq(Event)
<1>1. [status |-> NewStatus(online), started_at |-> now, ended_at |-> NULL] \in Event
  BY DEF NewStatus, Event
<1> QED
  BY <1>1, CloseType DEF NewEvents, open_event
-----------------------------------------------------------------------------
(***************************************************************************)
(* Type correctness.                                                       *)
(***************************************************************************)
\* The initial state is well formed.
LEMMA InitType == Init => TypeOK
  BY BackoffAssumption, BoundsAssumption
  DEF Init, TypeOK, Time, Row, DefaultRow, DeviceStatus, NoWork, UNKNOWN, NULL

\* A scan's row is well formed.
LEMMA DefaultRowType ==
    ASSUME NEW now \in Nat, NEW identified \in BOOLEAN
    PROVE  [DefaultRow(now) EXCEPT !.snmp_supported = identified] \in Row
  BY BackoffAssumption DEF DefaultRow, Row, DeviceStatus, UNKNOWN, NULL

\* Every step of the loop, the clock and the scans keeps the state well formed.
LEMMA NextType == TypeOK /\ [Next]_vars => TypeOK'
<1> SUFFICES ASSUME TypeOK, [Next]_vars PROVE TypeOK'
  OBVIOUS
<1> USE DEF TypeOK
<1>1. CASE Tick
  BY <1>1, BoundsAssumption DEF Tick, Time
<1>2. ASSUME NEW d \in Devices, Register(d) PROVE TypeOK'
  <2>1. PICK flushed \in 0 .. clock, identified \in BOOLEAN :
          device' = [device EXCEPT ![d] =
                       [DefaultRow(flushed) EXCEPT !.snmp_supported = identified]]
    BY <1>2 DEF Register
  <2>2. flushed \in Nat
    BY BoundsAssumption DEF Time
  <2>3. device' \in [Devices -> Row]
    BY <2>1, <2>2, DefaultRowType
  <2> QED
    BY <1>2, <2>3 DEF Register
<1>3. ASSUME NEW d \in Devices, IdentifySnmp(d) PROVE TypeOK'
  <2>1. [device[d] EXCEPT !.snmp_supported = TRUE] \in Row
    BY DEF Row
  <2>2. device' \in [Devices -> Row]
    BY <1>3, <2>1 DEF IdentifySnmp
  <2> QED
    BY <1>3, <2>2 DEF IdentifySnmp
<1>4. CASE BeginCycle
  <2>1. list_due_for_poll(clock) \subseteq registered
    BY DEF list_due_for_poll
  <2>2. DOMAIN work' = list_due_for_poll(clock)
    BY <1>4 DEF BeginCycle
  <2>3. work' \in [DOMAIN work' -> Work]
    BY <1>4, <2>1, <2>2 DEF BeginCycle, Work
  <2> QED
    BY <1>4, <2>1, <2>2, <2>3 DEF BeginCycle
<1>5. ASSUME NEW answered \in SUBSET due, PingsReturn(answered) PROVE TypeOK'
  <2>1. DOMAIN work' = DOMAIN work
    BY <1>5 DEF PingsReturn, due
  <2>2. \A d \in due : ApplyPing(work[d], events[d], d \in answered, clock) \in Work
    <3> TAKE d \in due
    <3>1. /\ work[d].row \in Row /\ events[d] \in Seq(Event)
          /\ (d \in answered) \in BOOLEAN
      BY DEF due, Work
    <3>2. NewRow(work[d].row, d \in answered, clock) \in Row
      BY <3>1, NewRowType
    <3>3. NewEvents(events[d], work[d].row.status, d \in answered, clock) \in Seq(Event)
      BY <3>1, NewEventsType
    <3> QED
      BY <3>1, <3>2, <3>3 DEF ApplyPing, Work
  <2>3. work' \in [DOMAIN work' -> Work]
    BY <1>5, <2>1, <2>2 DEF PingsReturn, due
  <2>4. pc' \in {"committing", "getting"}
    BY <1>5 DEF PingsReturn
  <2> QED
    BY <1>5, <2>1, <2>3, <2>4 DEF PingsReturn
<1>6. ASSUME NEW answered, SaveReadings(answered)
      PROVE  work' \in [DOMAIN work' -> Work] /\ DOMAIN work' = DOMAIN work
  <2>1. \A d \in due : [work[d] EXCEPT !.samples = @ \cup {clock}] \in Work
    BY DEF due, Work
  <2> QED
    BY <1>6, <2>1 DEF SaveReadings, due
<1>7. ASSUME NEW answered, CatalogGetReturns(answered) PROVE TypeOK'
  BY <1>6, <1>7 DEF CatalogGetReturns
<1>8. ASSUME NEW answered, WalksReturn(answered) PROVE TypeOK'
  BY <1>6, <1>8 DEF WalksReturn
<1>9. ASSUME Rollback, faults' \in 0 .. MaxFaults PROVE TypeOK'
  BY <1>9 DEF Rollback, NoWork
<1>10. ASSUME NEW answered, ReadingsRaise(answered) PROVE TypeOK'
  BY <1>9, <1>10 DEF ReadingsRaise
<1>11. CASE Commit
  <2>1. \A d \in due : WrittenRow(d) \in Row /\ work[d].events \in Seq(Event)
                        /\ work[d].samples \in SUBSET Time
    BY DEF due, Work, WrittenRow, Row
  <2>2. /\ device' \in [Devices -> Row]
        /\ events' \in [Devices -> Seq(Event)]
        /\ history' \in [Devices -> SUBSET Time]
    BY <1>11, <2>1 DEF Commit
  <2> QED
    BY <1>11, <2>2 DEF Commit, NoWork
<1>12. CASE CycleFails
  BY <1>9, <1>12, BoundsAssumption DEF CycleFails
<1>13. CASE UNCHANGED vars
  BY <1>13 DEF vars
<1> QED
  BY <1>1, <1>2, <1>3, <1>4, <1>5, <1>7, <1>8, <1>10, <1>11, <1>12, <1>13 DEF Next

\* In every behaviour the state stays well formed.
THEOREM TypeCorrect == Spec => []TypeOK
<1>1. Init => TypeOK
  BY InitType
<1>2. TypeOK /\ [Next]_vars => TypeOK'
  BY NextType
<1> QED
  BY <1>1, <1>2, PTL DEF Spec
-----------------------------------------------------------------------------
(***************************************************************************)
(* What a poll does to the events of one device.                           *)
(***************************************************************************)
\* Where only the last event is open, close_open_event ends that one.
LEMMA CloseLast ==
    ASSUME NEW log \in Seq(Event), NEW now \in Time, log # <<>>,
           OpenEvents(log) = {Len(log)}
    PROVE  close_open_event(log, now) = [log EXCEPT ![Len(log)].ended_at = now]
<1>1. \A i \in 1 .. Len(log) : IsOpen(log[i]) <=> i = Len(log)
  BY DEF OpenEvents
<1> QED
  BY <1>1 DEF close_open_event

\* With no event, there is nothing to end.
LEMMA CloseNone == ASSUME NEW now PROVE close_open_event(<<>>, now) = <<>>
  BY DEF close_open_event

\* After ending the open event no event is open.
LEMMA CloseLeavesNoneOpen ==
    ASSUME NEW log \in Seq(Event), NEW now \in Time
    PROVE  \A i \in 1 .. Len(log) : ~IsOpen(close_open_event(log, now)[i])
<1> TAKE i \in 1 .. Len(log)
<1>1. log[i] \in Event /\ now # NULL
  BY DEF Time, NULL
<1>2. [log[i] EXCEPT !.ended_at = now].ended_at = now
  BY <1>1 DEF Event
<1> QED
  BY <1>1, <1>2 DEF close_open_event, IsOpen

\* _apply_ping_result keeps the log of a device in step with its status.
LEMMA NewEventsLogged ==
    ASSUME NEW log \in Seq(Event), NEW old, NEW online \in BOOLEAN, NEW now \in Time,
           Logged(log, old)
    PROVE  Logged(NewEvents(log, old, online, now), NewStatus(online))
<1>1. NewStatus(online) # UNKNOWN
  BY DEF NewStatus, UNKNOWN, ONLINE, OFFLINE
<1>2. CASE NewStatus(online) = old
  BY <1>2 DEF NewEvents
<1>3. CASE NewStatus(online) # old
  <2> DEFINE closed == close_open_event(log, now)
             opened == [status |-> NewStatus(online), started_at |-> now, ended_at |-> NULL]
             new == Append(closed, opened)
  <2>1. closed \in Seq(Event) /\ Len(closed) = Len(log)
    BY CloseType
  <2>2. \A i \in 1 .. Len(closed) : ~IsOpen(closed[i])
    BY <2>1, CloseLeavesNoneOpen
  <2>3. NewEvents(log, old, online, now) = new
    BY <1>3 DEF NewEvents, open_event
  <2> HIDE DEF closed
  <2>4. opened \in Event /\ opened.status = NewStatus(online) /\ IsOpen(opened)
    BY DEF Event, NewStatus, IsOpen
  <2> HIDE DEF opened
  <2>5. /\ Len(new) = Len(closed) + 1
        /\ \A i \in 1 .. Len(closed) : new[i] = closed[i]
        /\ new[Len(new)] = opened
        /\ new # <<>>
    BY <2>1, <2>4
  <2> HIDE DEF new
  <2>6. OpenEvents(new) = {Len(new)}
    BY <2>1, <2>2, <2>4, <2>5 DEF OpenEvents
  <2> QED
    BY <1>1, <2>3, <2>4, <2>5, <2>6 DEF Logged
<1> QED
  BY <1>2, <1>3

\* No event of the new log starts after the poll.
LEMMA NewEventsStarted ==
    ASSUME NEW log \in Seq(Event), NEW old, NEW online \in BOOLEAN, NEW now \in Time,
           StartedBy(log, now)
    PROVE  StartedBy(NewEvents(log, old, online, now), now)
<1>1. CASE NewStatus(online) = old
  BY <1>1 DEF NewEvents
<1>2. CASE NewStatus(online) # old
  <2> DEFINE closed == close_open_event(log, now)
             opened == [status |-> NewStatus(online), started_at |-> now, ended_at |-> NULL]
  <2>1. closed \in Seq(Event) /\ Len(closed) = Len(log)
    BY CloseType
  <2>2. \A i \in 1 .. Len(log) : closed[i].started_at = log[i].started_at
    BY DEF close_open_event, Event
  <2>3. NewEvents(log, old, online, now) = Append(closed, opened)
    BY <1>2 DEF NewEvents, open_event
  <2>4. opened \in Event /\ opened.started_at = now
    BY DEF Event, NewStatus
  <2> HIDE DEF closed, opened
  <2> QED
    BY <2>1, <2>2, <2>3, <2>4 DEF StartedBy, Time
<1> QED
  BY <1>1, <1>2
-----------------------------------------------------------------------------
(***************************************************************************)
(* The inductive invariant.                                                *)
(***************************************************************************)
\* Initially nothing is registered, logged or in progress.
LEMMA InitIInv == Init => IInv
<1> SUFFICES ASSUME Init PROVE IInv
  OBVIOUS
<1>1. TypeOK
  BY InitType
<1>2. OpenEventIsStatus
  BY DEF Init, OpenEventIsStatus, Logged, DefaultRow
<1>3. SessionIsCurrent
  BY DEF Init, SessionIsCurrent
<1>4. NothingUnregistered
  BY DEF Init, NothingUnregistered, DefaultRow
<1>5. NoFutureEvent
  BY DEF Init, NoFutureEvent, StartedBy
<1> QED
  BY <1>1, <1>2, <1>3, <1>4, <1>5 DEF IInv

\* A due row written back is the committed row with the columns of the cycle:
\* identifying the device meanwhile changes both sides alike.
LEMMA NewRowKeepsIdentity ==
    ASSUME NEW row \in Row, NEW online \in BOOLEAN, NEW now \in Time, NEW b \in BOOLEAN
    PROVE  NewRow([row EXCEPT !.snmp_supported = b], online, now)
             = [NewRow(row, online, now) EXCEPT !.snmp_supported = b]
<1> DEFINE failures == IF online THEN 0 ELSE OneMoreFailure(row.consecutive_failures)
           interval == next_poll_interval(failures)
           Written(r) == [r EXCEPT !.status = NewStatus(online),
                                   !.consecutive_failures = failures,
                                   !.poll_interval_seconds = interval,
                                   !.next_poll_at = now + interval,
                                   !.last_checked_at = now]
<1>1. NewRow(row, online, now) = Written(row)
  BY DEF NewRow
<1>2. NewRow([row EXCEPT !.snmp_supported = b], online, now)
        = Written([row EXCEPT !.snmp_supported = b])
  <2>1. [row EXCEPT !.snmp_supported = b].consecutive_failures = row.consecutive_failures
    BY DEF Row
  <2> QED
    BY <2>1 DEF NewRow
<1> HIDE DEF failures, interval
<1>3. Written([row EXCEPT !.snmp_supported = b])
        = [Written(row) EXCEPT !.snmp_supported = b]
  BY DEF Row
<1> QED
  BY <1>1, <1>2, <1>3

\* A session is about registered devices and holds well-formed rows.
LEMMA SessionType ==
    ASSUME TypeOK, NEW d \in due
    PROVE  /\ d \in Devices /\ d \in registered
           /\ work[d] \in Work /\ device[d] \in Row /\ events[d] \in Seq(Event)
           /\ WrittenRow(d).status = work[d].row.status
  BY DEF TypeOK, due, WrittenRow, Row, Work

\* Steps of the environment leave the session current: time only makes due
\* rows more due, and a scan changes a column both sides agree on.
LEMMA EnvironmentIsCurrent ==
    ASSUME IInv,
           Tick \/ (\E d \in Devices : Register(d) \/ IdentifySnmp(d)) \/ UNCHANGED vars
    PROVE  SessionIsCurrent'
<1> USE DEF IInv
<1>1. CASE Tick \/ UNCHANGED vars
  <2>1. /\ UNCHANGED <<device, events, pc, work>>
        /\ clock \in Nat /\ clock' \in Nat /\ clock <= clock'
    BY <1>1, BoundsAssumption DEF Tick, vars, TypeOK, Time
  <2>2. \A d \in due : device[d].next_poll_at \in Nat
    BY SessionType DEF Row
  <2>3. ASSUME pc = "pinging", NEW d \in due
        PROVE  WrittenRow(d) = device[d] /\ device[d].next_poll_at <= clock'
    BY <2>1, <2>2, <2>3 DEF SessionIsCurrent
  <2>4. ASSUME pc \in {"getting", "walking", "committing"}
        PROVE  \E now \in 0 .. clock' : \A d \in due : PingApplied(d, now)
    BY <2>1, <2>4 DEF SessionIsCurrent
  <2> QED
    BY <2>1, <2>3, <2>4 DEF SessionIsCurrent, PingApplied, WrittenRow, due
<1>2. ASSUME NEW d \in Devices, Register(d) \/ IdentifySnmp(d) PROVE SessionIsCurrent'
  <2>1. UNCHANGED <<clock, events, pc, work>>
    BY <1>2 DEF Register, IdentifySnmp
  <2>2. \A e \in due : e # d => device'[e] = device[e]
    <3> TAKE e \in due
    <3>1. e \in Devices
      BY SessionType
    <3> QED
      BY <1>2, <3>1 DEF Register, IdentifySnmp, TypeOK
  <2>3. CASE d \notin due
    BY <2>1, <2>2, <2>3 DEF SessionIsCurrent, PingApplied, WrittenRow, due
  <2>4. CASE d \in due
    <3>1. IdentifySnmp(d)
      BY <1>2, <2>4, SessionType DEF Register
    <3>2. pc \notin {"getting", "walking", "committing"}
      BY <2>4, <3>1 DEF IdentifySnmp, RowLocked
    <3>3. device'[d] = [device[d] EXCEPT !.snmp_supported = TRUE]
      BY <3>1 DEF IdentifySnmp, TypeOK
    <3>4. ASSUME pc = "pinging"
          PROVE  \A e \in due : /\ [work[e].row EXCEPT !.snmp_supported = device'[e].snmp_supported]
                                    = device'[e]
                                /\ device'[e].next_poll_at <= clock
      <4> TAKE e \in due
      <4>1. WrittenRow(e) = device[e] /\ device[e].next_poll_at <= clock
        BY <3>4 DEF SessionIsCurrent
      <4>2. work[e].row \in Row /\ device[e] \in Row
        BY SessionType DEF Work
      <4>3. CASE e # d
        BY <2>2, <4>1, <4>3 DEF WrittenRow
      <4>4. CASE e = d
        BY <3>3, <4>1, <4>2, <4>4 DEF WrittenRow, Row
      <4> QED
        BY <4>3, <4>4
    <3> QED
      BY <2>1, <3>2, <3>4 DEF SessionIsCurrent, WrittenRow, due
  <2> QED
    BY <2>3, <2>4
<1> QED
  BY <1>1, <1>2

\* When the pings return, all of them are applied at the current instant.
LEMMA PingsAreCurrent ==
    ASSUME IInv, NEW answered \in SUBSET due, PingsReturn(answered)
    PROVE  SessionIsCurrent'
<1> USE DEF IInv
<1>1. /\ UNCHANGED <<clock, device, events>>
      /\ pc = "pinging" /\ pc' \in {"committing", "getting"}
      /\ DOMAIN work' = due
      /\ \A d \in due : work'[d] = ApplyPing(work[d], events[d], d \in answered, clock)
  BY DEF PingsReturn
<1>2. clock \in Time
  BY DEF TypeOK
<1>3. ASSUME NEW d \in due PROVE PingApplied(d, clock)'
  <2> DEFINE online == d \in answered
  <2>1. /\ work'[d].row = NewRow(work[d].row, online, clock)
        /\ work'[d].events = NewEvents(events[d], work[d].row.status, online, clock)
        /\ work'[d].online = online
    BY <1>1 DEF ApplyPing
  <2>2. /\ d \in Devices /\ work[d].row \in Row /\ device[d] \in Row
        /\ WrittenRow(d).status = work[d].row.status
    BY SessionType DEF Work
  <2>3. /\ WrittenRow(d) = device[d]
        /\ device[d].next_poll_at <= clock
    BY <1>1 DEF SessionIsCurrent
  <2>4. StartedBy(events[d], clock)
    BY <2>2 DEF NoFutureEvent
  <2>5. device[d].snmp_supported \in BOOLEAN /\ online \in BOOLEAN
    BY <2>2 DEF Row
  <2> HIDE DEF online
  <2>6. [NewRow(work[d].row, online, clock) EXCEPT !.snmp_supported = device[d].snmp_supported]
          = NewRow(WrittenRow(d), online, clock)
    BY <1>2, <2>2, <2>5, NewRowKeepsIdentity DEF WrittenRow
  <2>7. WrittenRow(d)' = NewRow(device[d], online, clock)
    BY <1>1, <2>1, <2>3, <2>6 DEF WrittenRow
  <2>8. work'[d].events = NewEvents(events[d], device[d].status, online, clock)
    BY <2>1, <2>2, <2>3
  <2> QED
    BY <1>1, <2>1, <2>3, <2>4, <2>7, <2>8 DEF PingApplied
<1>4. clock \in 0 .. clock
  BY <1>2, BoundsAssumption DEF Time
<1> QED
  BY <1>1, <1>3, <1>4 DEF SessionIsCurrent, due

\* Saving readings leaves the rows and the events of the session alone.
LEMMA ReadingsAreCurrent ==
    ASSUME IInv, NEW answered, CatalogGetReturns(answered) \/ WalksReturn(answered)
    PROVE  SessionIsCurrent'
<1>1. /\ UNCHANGED <<clock, device, events>>
      /\ pc \in {"getting", "walking"} /\ pc' \in {"walking", "committing"}
      /\ SaveReadings(answered)
  BY DEF CatalogGetReturns, WalksReturn
<1>2. DOMAIN work' = due
  BY <1>1 DEF SaveReadings
<1>3. \A d \in due : /\ work'[d].row = work[d].row
                     /\ work'[d].events = work[d].events
                     /\ work'[d].online = work[d].online
  BY <1>1, SessionType DEF SaveReadings, IInv, Work
<1>4. \A d \in due, now \in 0 .. clock : PingApplied(d, now) => PingApplied(d, now)'
  BY <1>1, <1>3 DEF PingApplied, WrittenRow
<1>5. PICK now \in 0 .. clock : \A d \in due : PingApplied(d, now)
  BY <1>1 DEF IInv, SessionIsCurrent
<1>6. \A d \in due : PingApplied(d, now)'
  BY <1>4, <1>5
<1> QED
  BY <1>1, <1>2, <1>5, <1>6 DEF SessionIsCurrent, due

\* A commit writes, for the due devices, what the pings of one instant make of
\* the committed rows and events, and nothing else.
LEMMA CommitAppliesPings ==
    ASSUME IInv, Commit
    PROVE  \E now \in Time :
             /\ now <= clock
             /\ \A d \in due :
                  /\ device'[d] = NewRow(device[d], work[d].online, now)
                  /\ events'[d] = NewEvents(events[d], device[d].status, work[d].online, now)
                  /\ StartedBy(events[d], now)
                  /\ device[d].next_poll_at <= now
<1>1. PICK now \in 0 .. clock : \A d \in due : PingApplied(d, now)
  BY DEF IInv, SessionIsCurrent, Commit
<1>2. now \in Time /\ now <= clock
  BY <1>1, BoundsAssumption DEF IInv, TypeOK, Time
<1>3. \A d \in due : device'[d] = WrittenRow(d) /\ events'[d] = work[d].events
  BY SessionType DEF Commit, IInv
<1> QED
  BY <1>1, <1>2, <1>3 DEF PingApplied

\* The start of an event is a number.
LEMMA StartIsInt ==
    ASSUME NEW log \in Seq(Event)
    PROVE  \A i \in 1 .. Len(log) : log[i].started_at \in Int
<1>1. \A i \in 1 .. Len(log) : log[i] \in Event
  OBVIOUS
<1>2. \A e \in Event : e.started_at \in Int
  BY DEF Event, Time
<1> QED
  BY <1>1, <1>2

\* The committed tables change in two ways only: a scan writes a row without
\* touching a status, or a cycle commits.
LEMMA OnlyCommitsLog ==
    ASSUME IInv, [Next]_vars, ~Commit
    PROVE  /\ events' = events
           /\ \A d \in Devices : device'[d].status = device[d].status
<1> USE DEF IInv, TypeOK
<1>1. ASSUME NEW d \in Devices, Register(d)
      PROVE  \A e \in Devices : device'[e].status = device[e].status
  <2>1. PICK flushed \in 0 .. clock, identified \in BOOLEAN :
          device' = [device EXCEPT ![d] =
                       [DefaultRow(flushed) EXCEPT !.snmp_supported = identified]]
    BY <1>1 DEF Register
  <2>2. device[d].status = UNKNOWN
    BY <1>1 DEF Register, NothingUnregistered
  <2>3. device'[d].status = UNKNOWN
    BY <2>1 DEF DefaultRow
  <2>4. \A e \in Devices : e # d => device'[e] = device[e]
    BY <2>1
  <2> QED
    BY <2>2, <2>3, <2>4
<1>2. ASSUME NEW d \in Devices, IdentifySnmp(d)
      PROVE  \A e \in Devices : device'[e].status = device[e].status
  BY <1>2 DEF IdentifySnmp, Row
<1> QED
  BY <1>1, <1>2
  DEF Next, vars, Tick, Register, IdentifySnmp, BeginCycle, PingsReturn, CatalogGetReturns,
      WalksReturn, ReadingsRaise, CycleFails, Rollback

\* The invariant survives every step.
LEMMA NextIInv == IInv /\ [Next]_vars => IInv'
<1> SUFFICES ASSUME IInv, [Next]_vars PROVE IInv'
  OBVIOUS
<1>1. TypeOK'
  BY NextType DEF IInv
<1>2. SessionIsCurrent'
  <2>1. CASE Tick \/ (\E d \in Devices : Register(d) \/ IdentifySnmp(d)) \/ UNCHANGED vars
    BY <2>1, EnvironmentIsCurrent
  <2>2. CASE BeginCycle
    <3>1. /\ UNCHANGED <<clock, device>> /\ pc' = "pinging"
          /\ DOMAIN work' = list_due_for_poll(clock)
          /\ \A d \in list_due_for_poll(clock) : work'[d].row = device[d]
      BY <2>2 DEF BeginCycle
    <3>2. \A d \in list_due_for_poll(clock) :
            /\ device[d].next_poll_at <= clock
            /\ [device[d] EXCEPT !.snmp_supported = device[d].snmp_supported] = device[d]
      BY DEF list_due_for_poll, IInv, TypeOK, Row
    <3> QED
      BY <3>1, <3>2 DEF SessionIsCurrent, WrittenRow, due
  <2>3. CASE \E answered \in SUBSET due : PingsReturn(answered)
    BY <2>3, PingsAreCurrent
  <2>4. CASE \E answered \in SUBSET Targets(work) :
               CatalogGetReturns(answered) \/ WalksReturn(answered)
    BY <2>4, ReadingsAreCurrent
  <2>5. CASE pc' = "sleeping"
    BY <2>5 DEF SessionIsCurrent
  <2> QED
    BY <2>1, <2>2, <2>3, <2>4, <2>5 DEF Next, ReadingsRaise, Commit, CycleFails, Rollback
<1>3. CASE Commit
  <2>1. PICK now \in Time :
          /\ now <= clock
          /\ \A d \in due :
               /\ device'[d] = NewRow(device[d], work[d].online, now)
               /\ events'[d] = NewEvents(events[d], device[d].status, work[d].online, now)
               /\ StartedBy(events[d], now)
    BY <1>3, CommitAppliesPings
  <2>2. \A d \in Devices \ due : device'[d] = device[d] /\ events'[d] = events[d]
    BY <1>3 DEF Commit
  <2>3. \A d \in due : /\ d \in Devices /\ d \in registered /\ events[d] \in Seq(Event)
                       /\ device[d] \in Row /\ work[d].online \in BOOLEAN
    BY SessionType DEF IInv, Work
  <2>4. \A d \in due : device'[d].status = NewStatus(work[d].online)
    BY <2>1, <2>3 DEF NewRow, Row
  <2>5. OpenEventIsStatus'
    <3> SUFFICES ASSUME NEW d \in Devices PROVE Logged(events'[d], device'[d].status)
      BY DEF OpenEventIsStatus, Logged, OpenEvents, IsOpen
    <3>1. Logged(events[d], device[d].status)
      BY DEF IInv, OpenEventIsStatus
    <3> QED
      BY <2>1, <2>2, <2>3, <2>4, <3>1, NewEventsLogged
  <2>6. NothingUnregistered'
    BY <1>3, <2>2, <2>3 DEF Commit, IInv, NothingUnregistered
  <2>7. NoFutureEvent'
    <3>1. clock' = clock
      BY <1>3 DEF Commit
    <3> SUFFICES ASSUME NEW d \in Devices PROVE StartedBy(events'[d], clock)
      BY <3>1 DEF NoFutureEvent, StartedBy
    <3>2. CASE d \notin due
      BY <2>2, <3>2 DEF IInv, NoFutureEvent
    <3>3. CASE d \in due
      <4>1. StartedBy(events'[d], now) /\ events'[d] \in Seq(Event)
        BY <2>1, <2>3, <3>3, NewEventsStarted, NewEventsType
      <4>2. \A i \in 1 .. Len(events'[d]) : events'[d][i].started_at \in Int
        BY <4>1, StartIsInt
      <4> QED
        BY <2>1, <4>1, <4>2, BoundsAssumption DEF StartedBy, IInv, TypeOK, Time
    <3> QED
      BY <3>2, <3>3
  <2> QED
    BY <1>1, <1>2, <2>5, <2>6, <2>7 DEF IInv
<1>4. CASE ~Commit
  <2>1. events' = events /\ \A d \in Devices : device'[d].status = device[d].status
    BY <1>4, OnlyCommitsLog
  <2>2. OpenEventIsStatus'
    BY <2>1 DEF IInv, OpenEventIsStatus
  <2>3. registered \subseteq registered'
    BY <1>4 DEF Next, vars, Tick, Register, IdentifySnmp, BeginCycle, PingsReturn,
                CatalogGetReturns, WalksReturn, ReadingsRaise, CycleFails, Rollback
  <2>4. NothingUnregistered'
    <3>1. \A d \in Devices \ registered' : device'[d] = device[d]
      BY <1>4 DEF IInv, TypeOK, Next, vars, Tick, Register, IdentifySnmp, BeginCycle,
                  PingsReturn, CatalogGetReturns, WalksReturn, ReadingsRaise, CycleFails,
                  Rollback
    <3> QED
      BY <2>3, <3>1 DEF IInv, NothingUnregistered
  <2>5. clock \in Nat /\ clock' \in Nat /\ clock <= clock'
    BY <1>1, <1>4, BoundsAssumption
    DEF IInv, TypeOK, Time, Next, vars, Tick, Register, IdentifySnmp, BeginCycle, PingsReturn,
        CatalogGetReturns, WalksReturn, ReadingsRaise, CycleFails, Rollback
  <2>6. \A d \in Devices : \A i \in 1 .. Len(events[d]) : events[d][i].started_at \in Int
    BY StartIsInt DEF IInv, TypeOK
  <2>7. NoFutureEvent'
    BY <2>1, <2>5, <2>6 DEF IInv, NoFutureEvent, StartedBy
  <2> QED
    BY <1>1, <1>2, <2>2, <2>4, <2>7 DEF IInv
<1> QED
  BY <1>3, <1>4

\* In every behaviour the open event of a device is its status, and a session
\* that waited still fits the committed rows.
THEOREM Safety == Spec => [](OpenEventIsStatus /\ SessionIsCurrent)
<1>1. Init => IInv
  BY InitIInv
<1>2. IInv /\ [Next]_vars => IInv'
  BY NextIInv
<1>3. IInv => OpenEventIsStatus /\ SessionIsCurrent
  BY DEF IInv
<1> QED
  BY <1>1, <1>2, <1>3, PTL DEF Spec

\* A session that has waited never writes what is stale: what it holds is what
\* its pings make of the rows committed now.
THEOREM NeverStale == Spec => []SessionIsCurrent
<1>1. OpenEventIsStatus /\ SessionIsCurrent => SessionIsCurrent
  OBVIOUS
<1> QED
  BY Safety, <1>1, PTL
-----------------------------------------------------------------------------
(***************************************************************************)
(* Polling keeps an availability log.                                      *)
(***************************************************************************)
\* Nothing is logged initially.
LEMMA InitLog == Init => Log!Init
  BY DEF Init, Log!Init, DefaultRow, UNKNOWN, Log!UNKNOWN

\* A commit changes the log of each due device by one transition or not at all.
LEMMA CommitChanges ==
    ASSUME IInv, Commit, NEW now \in Time, NEW d \in due,
           device'[d] = NewRow(device[d], work[d].online, now),
           events'[d] = NewEvents(events[d], device[d].status, work[d].online, now),
           StartedBy(events[d], now)
    PROVE  \/ device'[d].status = device[d].status /\ events'[d] = events[d]
           \/ /\ device'[d].status \in {ONLINE, OFFLINE} \ {device[d].status}
              /\ Log!NotBefore(events[d], now)
              /\ events'[d] = Append(IF events[d] = <<>> THEN <<>>
                                      ELSE Log!Ended(events[d], now),
                                     Log!Opened(device'[d].status, now))
<1> DEFINE status == NewStatus(work[d].online)
<1>1. /\ d \in Devices /\ device[d] \in Row /\ events[d] \in Seq(Event)
      /\ Logged(events[d], device[d].status)
  BY SessionType DEF IInv, OpenEventIsStatus
<1>2. device'[d].status = status /\ status \in {ONLINE, OFFLINE}
  BY <1>1 DEF NewRow, NewStatus, Row
<1>3. CASE status = device[d].status
  BY <1>2, <1>3 DEF NewEvents
<1>4. CASE status # device[d].status
  <2>1. events'[d] = Append(close_open_event(events[d], now), Log!Opened(status, now))
    BY <1>4 DEF NewEvents, open_event, Log!Opened, NULL, Log!NULL
  <2>2. close_open_event(events[d], now)
          = IF events[d] = <<>> THEN <<>> ELSE Log!Ended(events[d], now)
    <3>1. CASE events[d] = <<>>
      BY <3>1, CloseNone
    <3>2. CASE events[d] # <<>>
      BY <1>1, <3>2, CloseLast DEF Logged, Log!Ended
    <3> QED
      BY <3>1, <3>2
  <2>3. Log!NotBefore(events[d], now)
    BY <1>1 DEF Log!NotBefore, StartedBy
  <2> QED
    BY <1>2, <1>4, <2>1, <2>2, <2>3
<1> QED
  BY <1>3, <1>4

\* Every step of Polling is a step of the log or leaves it alone.
LEMMA NextLog == IInv /\ [Next]_vars => [Log!Next]_Log!vars
<1> SUFFICES ASSUME IInv, [Next]_vars PROVE [Log!Next]_Log!vars
  OBVIOUS
<1>1. CASE ~Commit
  <2>1. events' = events /\ \A d \in Devices : device'[d].status = device[d].status
    BY <1>1, OnlyCommitsLog
  <2>2. [d \in Devices |-> device'[d].status] = [d \in Devices |-> device[d].status]
    BY <2>1
  <2> QED
    BY <2>1, <2>2 DEF Log!vars
<1>2. CASE Commit
  <2>1. PICK now \in Time :
          /\ now <= clock
          /\ \A d \in due :
               /\ device'[d] = NewRow(device[d], work[d].online, now)
               /\ events'[d] = NewEvents(events[d], device[d].status, work[d].online, now)
               /\ StartedBy(events[d], now)
    BY <1>2, CommitAppliesPings
  <2>2. \A d \in Devices : Log!Keeps(d) \/ Log!Changes(d, now)
    <3> TAKE d \in Devices
    <3>1. CASE d \notin due
      BY <1>2, <3>1 DEF Commit, Log!Keeps
    <3>2. CASE d \in due
      BY <1>2, <2>1, <3>2, CommitChanges
      DEF Log!Keeps, Log!Changes, ONLINE, OFFLINE, Log!ONLINE, Log!OFFLINE
    <3> QED
      BY <3>1, <3>2
  <2>3. events' = [d \in Devices |-> events'[d]]
    BY <1>2 DEF Commit
  <2>4. now \in Log!Time
    BY DEF Time, Log!Time
  <2> QED
    BY <2>2, <2>3, <2>4 DEF Log!Next
<1> QED
  BY <1>1, <1>2

\* The committed rows, whatever fails, are an availability log.
THEOREM Refinement == Spec => ImplementsAvailabilityLog
<1>1. Init => IInv /\ Log!Init
  BY InitIInv, InitLog
<1>2. IInv /\ [Next]_vars => IInv'
  BY NextIInv
<1>3. IInv /\ [Next]_vars => [Log!Next]_Log!vars
  BY NextLog
<1> QED
  BY <1>1, <1>2, <1>3, PTL DEF Spec, ImplementsAvailabilityLog, Log!Spec

\* The events of a device leave no gap and no overlap, because Polling keeps an
\* availability log and an availability log promises that.
THEOREM NoGapNoOverlap == Spec => []TimelinesAreContiguous
<1>1. Spec => Log!Spec
  BY Refinement DEF ImplementsAvailabilityLog
<1>2. Log!Spec => [](Log!LastIsOpen /\ Log!Contiguous)
  BY Log!Promise
<1>3. Log!Contiguous => TimelinesAreContiguous
  BY DEF Log!Contiguous, TimelinesAreContiguous, Timeline
<1> QED
  BY <1>1, <1>2, <1>3, PTL

-----------------------------------------------------------------------------
(***************************************************************************)
(* What a step may never do.                                               *)
(***************************************************************************)
\* Only a commit tells that a device was polled, and only of a due one.
LEMMA OnlyCommitsPoll ==
    ASSUME IInv, [Next]_vars, NEW d \in Devices, Polled(d)
    PROVE  Commit /\ d \in due
<1> USE DEF IInv, TypeOK
<1>1. ASSUME NEW e \in Devices, Register(e) PROVE FALSE
  <2>1. PICK flushed \in 0 .. clock, identified \in BOOLEAN :
          device' = [device EXCEPT ![e] =
                       [DefaultRow(flushed) EXCEPT !.snmp_supported = identified]]
    BY <1>1 DEF Register
  <2>2. device'[e].last_checked_at = NULL
    BY <2>1 DEF DefaultRow
  <2>3. device[e].last_checked_at = NULL
    BY <1>1 DEF Register, NothingUnregistered
  <2> QED
    BY <2>1, <2>2, <2>3 DEF Polled
<1>2. ASSUME NEW e \in Devices, IdentifySnmp(e) PROVE FALSE
  BY <1>2 DEF IdentifySnmp, Row, Polled
<1>3. CASE ~Commit
  BY <1>1, <1>2, <1>3
  DEF Next, vars, Tick, Register, IdentifySnmp, BeginCycle, PingsReturn, CatalogGetReturns,
      WalksReturn, ReadingsRaise, CycleFails, Rollback, Polled
<1>4. CASE Commit
  BY <1>4 DEF Commit, Polled
<1> QED
  BY <1>3, <1>4

\* What a commit writes in the row of a due device.
LEMMA CommitSchedules ==
    ASSUME IInv, Commit, NEW d \in due
    PROVE  /\ device'[d].last_checked_at # NULL
           /\ device'[d].next_poll_at > device[d].next_poll_at
           /\ OnSchedule(d)
<1>1. PICK now \in Time :
        \A e \in due : /\ device'[e] = NewRow(device[e], work[e].online, now)
                       /\ device[e].next_poll_at <= now
  BY CommitAppliesPings
<1>2. device[d] \in Row /\ work[d].online \in BOOLEAN
  BY SessionType DEF IInv, Work
<1> DEFINE failures == IF work[d].online THEN 0
                       ELSE OneMoreFailure(device[d].consecutive_failures)
           interval == next_poll_interval(failures)
<1>3. failures \in 0 .. MaxFailures
  BY <1>2, FailureBounds, BackoffAssumption DEF Row
<1>4. interval \in Nat \ {0}
  BY <1>3, IntervalBounds
<1>5. /\ device'[d].last_checked_at = now
      /\ device'[d].poll_interval_seconds = interval
      /\ device'[d].next_poll_at = now + interval
  BY <1>1, <1>2 DEF NewRow, Row
<1> HIDE DEF failures, interval
<1>6. now \in Nat /\ now # NULL /\ device[d].next_poll_at \in Nat
  BY <1>2, BoundsAssumption DEF Time, NULL, Row
<1> QED
  BY <1>1, <1>4, <1>5, <1>6 DEF OnSchedule

\* No device is polled before its time, and each poll schedules the next.
THEOREM Schedule == Spec => PolledWhenDue
<1>1. Init => IInv
  BY InitIInv
<1>2. IInv /\ [Next]_vars => IInv'
  BY NextIInv
<1>3. IInv /\ [Next]_vars => [\A d \in Devices : Polled(d) => OnSchedule(d)]_vars
  BY OnlyCommitsPoll, CommitSchedules
<1> QED
  BY <1>1, <1>2, <1>3, PTL DEF Spec, PolledWhenDue

\* A cycle reschedules every device it found due, or none.
THEOREM Atomicity == Spec => CycleIsAtomic
<1>1. Init => IInv
  BY InitIInv
<1>2. IInv /\ [Next]_vars => IInv'
  BY NextIInv
<1>3. IInv /\ [Next]_vars => [(\E d \in Devices : Polled(d)) => AllRescheduled]_vars
  BY OnlyCommitsPoll, CommitSchedules DEF AllRescheduled
<1> QED
  BY <1>1, <1>2, <1>3, PTL DEF Spec, CycleIsAtomic

-----------------------------------------------------------------------------
(***************************************************************************)
(* Backoff and schedule.                                                   *)
(***************************************************************************)
\* A commit is, for each due device, one poll of the committed row; any other
\* row stays, gets its identity, or is the new row of a scan.
LEMMA RowSteps ==
    ASSUME IInv, [Next]_vars, NEW d \in Devices
    PROVE  \/ device'[d] = device[d] /\ events'[d] = events[d]
           \/ /\ events'[d] = events[d]
              /\ \E identified \in BOOLEAN :
                    device'[d] = [device[d] EXCEPT !.snmp_supported = identified]
           \/ /\ events'[d] = events[d] /\ events[d] = <<>>
              /\ \E flushed \in Nat, identified \in BOOLEAN :
                    device'[d] = [DefaultRow(flushed) EXCEPT !.snmp_supported = identified]
           \/ \E now \in Time, online \in BOOLEAN :
                 /\ device[d].next_poll_at <= now
                 /\ device'[d] = NewRow(device[d], online, now)
                 /\ events'[d] = NewEvents(events[d], device[d].status, online, now)
<1>1. CASE Commit
  <2>1. CASE d \in due
    <3>1. PICK now \in Time :
            /\ device'[d] = NewRow(device[d], work[d].online, now)
            /\ events'[d] = NewEvents(events[d], device[d].status, work[d].online, now)
            /\ device[d].next_poll_at <= now
      BY <1>1, <2>1, CommitAppliesPings
    <3>2. work[d].online \in BOOLEAN
      BY <2>1, SessionType DEF IInv, Work
    <3> QED
      BY <3>1, <3>2
  <2>2. CASE d \notin due
    BY <1>1, <2>2 DEF Commit
  <2> QED
    BY <2>1, <2>2
<1>2. ASSUME NEW e \in Devices, Register(e)
      PROVE  \/ device'[d] = device[d] /\ events'[d] = events[d]
             \/ /\ events'[d] = events[d] /\ events[d] = <<>>
                /\ \E flushed \in Nat, identified \in BOOLEAN :
                      device'[d] = [DefaultRow(flushed) EXCEPT !.snmp_supported = identified]
  <2>1. device \in [Devices -> Row] /\ events' = events
    BY <1>2 DEF Register, IInv, TypeOK
  <2>2. PICK flushed \in 0 .. clock, identified \in BOOLEAN :
          device' = [device EXCEPT ![e] =
                       [DefaultRow(flushed) EXCEPT !.snmp_supported = identified]]
    BY <1>2 DEF Register
  <2>3. flushed \in Nat
    BY BoundsAssumption DEF IInv, TypeOK, Time
  <2>4. CASE e = d
    <3>1. events[d] = <<>>
      BY <1>2, <2>4 DEF Register, IInv, NothingUnregistered, OpenEventIsStatus, Logged
    <3> QED
      BY <2>1, <2>2, <2>3, <2>4, <3>1
  <2>5. CASE e # d
    BY <2>1, <2>2, <2>5
  <2> QED
    BY <2>4, <2>5
<1>3. ASSUME NEW e \in Devices, IdentifySnmp(e)
      PROVE  /\ events'[d] = events[d]
             /\ \E identified \in BOOLEAN :
                   device'[d] = [device[d] EXCEPT !.snmp_supported = identified]
  <2>1. /\ device \in [Devices -> Row] /\ device[d] \in Row /\ events' = events
        /\ device' = [device EXCEPT ![e] = [device[e] EXCEPT !.snmp_supported = TRUE]]
    BY <1>3 DEF IdentifySnmp, IInv, TypeOK
  <2>2. device[d] = [device[d] EXCEPT !.snmp_supported = device[d].snmp_supported]
        /\ device[d].snmp_supported \in BOOLEAN
    BY <2>1 DEF Row
  <2> QED
    BY <2>1, <2>2
<1>4. CASE UNCHANGED <<device, events>>
  BY <1>4
<1> QED
  BY <1>1, <1>2, <1>3, <1>4
  DEF Next, vars, Tick, BeginCycle, PingsReturn, CatalogGetReturns, WalksReturn,
      ReadingsRaise, CycleFails, Rollback

\* Every step keeps the interval of a row the one of its failures.
LEMMA NextInterval ==
    ASSUME IInv, IntervalFollowsFailures, [Next]_vars
    PROVE  IntervalFollowsFailures'
<1> SUFFICES ASSUME NEW d \in Devices
             PROVE  device'[d].poll_interval_seconds
                      = next_poll_interval(device'[d].consecutive_failures)
  BY DEF IntervalFollowsFailures
<1>1. device[d] \in Row /\ device[d].poll_interval_seconds
                              = next_poll_interval(device[d].consecutive_failures)
  BY DEF IInv, TypeOK, IntervalFollowsFailures
<1>2. CASE \E identified \in BOOLEAN :
             device'[d] = [device[d] EXCEPT !.snmp_supported = identified]
  <2>1. /\ device'[d].poll_interval_seconds = device[d].poll_interval_seconds
        /\ device'[d].consecutive_failures = device[d].consecutive_failures
    BY <1>1, <1>2 DEF Row
  <2> QED
    BY <1>1, <2>1
<1>3. CASE \E flushed \in Nat, identified \in BOOLEAN :
             device'[d] = [DefaultRow(flushed) EXCEPT !.snmp_supported = identified]
  <2>1. device'[d].poll_interval_seconds = BaseInterval /\ device'[d].consecutive_failures = 0
    BY <1>3 DEF DefaultRow
  <2> QED
    BY <2>1 DEF next_poll_interval
<1>4. CASE \E now \in Time, online \in BOOLEAN : device'[d] = NewRow(device[d], online, now)
  <2>1. PICK now \in Time, online \in BOOLEAN : device'[d] = NewRow(device[d], online, now)
    BY <1>4
  <2> DEFINE failures == IF online THEN 0 ELSE OneMoreFailure(device[d].consecutive_failures)
  <2> HIDE DEF failures
  <2>2. /\ device'[d].consecutive_failures = failures
        /\ device'[d].poll_interval_seconds = next_poll_interval(failures)
    BY <1>1, <2>1 DEF NewRow, Row, failures
  <2> QED
    BY <2>2
<1> QED
  BY <1>1, <1>2, <1>3, <1>4, RowSteps

\* One failure more doubles the interval up to the ceiling, also where the
\* count has reached the bound.
LEMMA IntervalDoubles ==
    ASSUME NEW f \in 0 .. MaxFailures
    PROVE  LET doubled == BackoffMultiplier * next_poll_interval(f)
           IN  next_poll_interval(OneMoreFailure(f))
                 = IF doubled <= MaxInterval THEN doubled ELSE MaxInterval
<1> DEFINE power(n) == BackoffMultiplier ^ n
           capped(n) == IF BaseInterval * power(n) <= MaxInterval
                        THEN BaseInterval * power(n) ELSE MaxInterval
<1>1. /\ BaseInterval \in Nat \ {0} /\ MaxInterval \in Nat /\ BaseInterval <= MaxInterval
      /\ BackoffMultiplier \in Nat \ {0} /\ MaxFailures \in Nat \ {0}
      /\ BaseInterval * power(MaxFailures) >= MaxInterval
  BY BackoffAssumption
<1>2. /\ power(0) = 1
      /\ \A n \in 0 .. MaxFailures : /\ power(n) \in Nat
                                     /\ power(n + 1) = BackoffMultiplier * power(n)
  BY PowerAssumption
<1>3. \A n \in Nat : next_poll_interval(n) = IF n = 0 THEN BaseInterval ELSE capped(n)
  BY DEF next_poll_interval
<1> HIDE DEF power
<1>4. \A n \in 0 .. MaxFailures : next_poll_interval(n) = capped(n)
  BY <1>1, <1>2, <1>3
<1> DEFINE plain == BaseInterval * power(f)
<1>5. plain \in Nat /\ next_poll_interval(f) = IF plain <= MaxInterval THEN plain ELSE MaxInterval
  BY <1>1, <1>2, <1>4
<1>6. CASE f < MaxFailures
  <2>1. OneMoreFailure(f) = f + 1 /\ f + 1 \in 0 .. MaxFailures
    BY <1>1, <1>6 DEF OneMoreFailure
  <2>2. BaseInterval * power(f + 1) = BackoffMultiplier * plain
    <3>1. power(f) \in Nat /\ power(f + 1) = BackoffMultiplier * power(f)
      BY <1>2
    <3>2. \A b, m, p \in Nat : b * (m * p) = m * (b * p)
      BY SMT
    <3> QED
      BY <1>1, <3>1, <3>2
  <2>3. next_poll_interval(f + 1) = IF BackoffMultiplier * plain <= MaxInterval
                                    THEN BackoffMultiplier * plain ELSE MaxInterval
    BY <1>4, <2>1, <2>2
  <2> HIDE DEF plain, capped
  <2>4. \A m \in Nat \ {0}, x, y \in Nat : /\ m * x \in Nat /\ m * x >= x
                                          /\ x > y => m * x > y
    BY SMT
  <2> QED
    BY <1>1, <1>5, <2>1, <2>3, <2>4
<1>7. CASE f = MaxFailures
  <2>1. OneMoreFailure(f) = f
    BY <1>1, <1>7 DEF OneMoreFailure
  <2>2. next_poll_interval(f) = MaxInterval
    BY <1>1, <1>5, <1>7
  <2>3. \A m \in Nat \ {0}, x \in Nat : m * x \in Nat /\ m * x >= x
    BY SMT
  <2> QED
    BY <1>1, <2>1, <2>2, <2>3
<1> QED
  BY <1>1, <1>6, <1>7

\* A failed poll doubles the committed interval up to the ceiling, a successful
\* one resets it, whatever cycles were rolled back since the last.
THEOREM Backoff == Spec => BackoffDoublesOrResets
<1>1. Init => IInv /\ IntervalFollowsFailures
  BY InitIInv DEF Init, IntervalFollowsFailures, DefaultRow, next_poll_interval
<1>2. IInv /\ IntervalFollowsFailures /\ [Next]_vars => IInv' /\ IntervalFollowsFailures'
  BY NextIInv, NextInterval
<1>3. ASSUME IInv, IntervalFollowsFailures, [Next]_vars, NEW d \in Devices, Polled(d)
      PROVE  DoublesOrResets(d)
  <2>1. Commit /\ d \in due
    BY <1>3, OnlyCommitsPoll
  <2>2. PICK now \in Time : device'[d] = NewRow(device[d], work[d].online, now)
    BY <1>3, <2>1, CommitAppliesPings
  <2>3. /\ device[d] \in Row /\ work[d].online \in BOOLEAN
        /\ device[d].poll_interval_seconds
             = next_poll_interval(device[d].consecutive_failures)
    BY <1>3, <2>1, SessionType DEF IInv, Work, IntervalFollowsFailures
  <2> DEFINE old == device[d].consecutive_failures
             new == IF work[d].online THEN 0 ELSE OneMoreFailure(old)
  <2>4. old \in 0 .. MaxFailures
    BY <2>3 DEF Row
  <2> HIDE DEF old, new
  <2>5. /\ device'[d].status = NewStatus(work[d].online)
        /\ device'[d].poll_interval_seconds = next_poll_interval(new)
    BY <2>2, <2>3 DEF NewRow, Row, old, new
  <2>6. CASE work[d].online
    BY <2>5, <2>6 DEF DoublesOrResets, NewStatus, next_poll_interval, new
  <2>7. CASE ~work[d].online
    <3>1. device'[d].status # ONLINE
      BY <2>5, <2>7 DEF NewStatus, ONLINE, OFFLINE
    <3> QED
      BY <2>3, <2>4, <2>5, <2>7, <3>1, IntervalDoubles DEF DoublesOrResets, old, new
  <2> QED
    BY <2>6, <2>7
<1>4. IInv /\ IntervalFollowsFailures /\ [Next]_vars =>
        [\A d \in Devices : Polled(d) => DoublesOrResets(d)]_vars
  BY <1>3
<1> QED
  BY <1>1, <1>2, <1>4, PTL DEF Spec, BackoffDoublesOrResets

\* A poll after the starts of all events keeps them in order.
LEMMA NewEventsIncrease ==
    ASSUME NEW log \in Seq(Event), NEW old, NEW online \in BOOLEAN, NEW now \in Time,
           NEW before \in Nat, before <= now,
           \A i \in 1 .. Len(log) :
               /\ log[i].started_at < before
               /\ \A j \in 1 .. i - 1 : log[j].started_at < log[i].started_at
    PROVE  LET new == NewEvents(log, old, online, now)
           IN  \A i \in 1 .. Len(new) :
                   /\ new[i].started_at <= now
                   /\ \A j \in 1 .. i - 1 : new[j].started_at < new[i].started_at
<1>0. now \in Nat /\ \A i \in 1 .. Len(log) : log[i].started_at \in Int
  BY StartIsInt, BoundsAssumption DEF Time
<1>1. CASE NewStatus(online) = old
  BY <1>0, <1>1 DEF NewEvents
<1>2. CASE NewStatus(online) # old
  <2> DEFINE closed == close_open_event(log, now)
             opened == [status |-> NewStatus(online), started_at |-> now, ended_at |-> NULL]
             new == Append(closed, opened)
  <2>1. closed \in Seq(Event) /\ Len(closed) = Len(log)
    BY CloseType
  <2>2. \A i \in 1 .. Len(log) : closed[i].started_at = log[i].started_at
    BY DEF close_open_event, Event
  <2>3. NewEvents(log, old, online, now) = new
    BY <1>2 DEF NewEvents, open_event
  <2>4. opened \in Event /\ opened.started_at = now
    BY DEF Event, NewStatus
  <2> HIDE DEF closed, opened
  <2>5. /\ Len(new) = Len(log) + 1 /\ new[Len(log) + 1].started_at = now
        /\ \A i \in 1 .. Len(log) : new[i].started_at = log[i].started_at
    BY <2>1, <2>2, <2>4
  <2>6. Len(log) \in Nat
    OBVIOUS
  <2> HIDE DEF new
  <2> SUFFICES ASSUME NEW i \in 1 .. Len(new)
               PROVE  /\ new[i].started_at <= now
                      /\ \A j \in 1 .. i - 1 : new[j].started_at < new[i].started_at
    BY <2>3
  <2>7. CASE i \in 1 .. Len(log)
    BY <1>0, <2>5, <2>6, <2>7
  <2>8. CASE i = Len(log) + 1
    BY <1>0, <2>5, <2>6, <2>8
  <2> QED
    BY <2>5, <2>6, <2>7, <2>8
<1> QED
  BY <1>1, <1>2

\* Every step keeps the events of a device in the order of their starts.
LEMMA NextStarts ==
    ASSUME IInv, StartsIncrease, [Next]_vars
    PROVE  StartsIncrease'
<1> SUFFICES ASSUME NEW d \in Devices
             PROVE  \A i \in 1 .. Len(events'[d]) :
                      /\ events'[d][i].started_at < device'[d].next_poll_at
                      /\ \A j \in 1 .. i - 1 : events'[d][j].started_at < events'[d][i].started_at
  BY DEF StartsIncrease
<1>1. /\ device[d] \in Row /\ events[d] \in Seq(Event)
      /\ \A i \in 1 .. Len(events[d]) :
            /\ events[d][i].started_at < device[d].next_poll_at
            /\ \A j \in 1 .. i - 1 : events[d][j].started_at < events[d][i].started_at
  BY DEF IInv, TypeOK, StartsIncrease
<1>2. CASE device'[d] = device[d] /\ events'[d] = events[d]
  BY <1>1, <1>2
<1>3. CASE /\ events'[d] = events[d]
           /\ \E identified \in BOOLEAN :
                 device'[d] = [device[d] EXCEPT !.snmp_supported = identified]
  <2>1. device'[d].next_poll_at = device[d].next_poll_at
    BY <1>1, <1>3 DEF Row
  <2> QED
    BY <1>1, <1>3, <2>1
<1>4. CASE events'[d] = <<>>
  BY <1>4
<1>5. CASE \E now \in Time, online \in BOOLEAN :
             /\ device[d].next_poll_at <= now
             /\ device'[d] = NewRow(device[d], online, now)
             /\ events'[d] = NewEvents(events[d], device[d].status, online, now)
  <2>1. PICK now \in Time, online \in BOOLEAN :
          /\ device[d].next_poll_at <= now
          /\ device'[d] = NewRow(device[d], online, now)
          /\ events'[d] = NewEvents(events[d], device[d].status, online, now)
    BY <1>5
  <2>2. device[d].next_poll_at \in Nat
    BY <1>1 DEF Row
  <2>3. \A i \in 1 .. Len(events'[d]) :
          /\ events'[d][i].started_at <= now
          /\ \A j \in 1 .. i - 1 : events'[d][j].started_at < events'[d][i].started_at
    BY <1>1, <2>1, <2>2, NewEventsIncrease
  <2>4. now \in Nat /\ device'[d].next_poll_at \in Nat /\ now < device'[d].next_poll_at
    <3> DEFINE failures == IF online THEN 0 ELSE OneMoreFailure(device[d].consecutive_failures)
               interval == next_poll_interval(failures)
    <3>0. device[d].consecutive_failures \in 0 .. MaxFailures
      BY <1>1 DEF Row
    <3>1. failures \in 0 .. MaxFailures
      BY <3>0, FailureBounds, BackoffAssumption
    <3>2. interval \in Nat \ {0}
      BY <3>1, IntervalBounds
    <3>3. device'[d].next_poll_at = now + interval
      BY <1>1, <2>1 DEF NewRow, Row
    <3> HIDE DEF failures, interval
    <3> QED
      BY <3>2, <3>3, BoundsAssumption DEF Time
  <2>5. \A i \in 1 .. Len(events'[d]) : events'[d][i].started_at \in Int
    BY <1>1, <2>1, NewEventsType, StartIsInt
  <2> QED
    BY <2>3, <2>4, <2>5
<1> QED
  BY <1>2, <1>3, <1>4, <1>5, RowSteps

\* No two events of a device start together, and none starts after the next
\* poll of its device: the order of insertion is the order of started_at.
THEOREM StartsInOrder == Spec => []StartsIncrease
<1>1. Init => IInv /\ StartsIncrease
  BY InitIInv DEF Init, StartsIncrease
<1>2. IInv /\ StartsIncrease /\ [Next]_vars => IInv' /\ StartsIncrease'
  BY NextIInv, NextStarts
<1> QED
  BY <1>1, <1>2, PTL DEF Spec
-----------------------------------------------------------------------------
(***************************************************************************)
(* Samples.                                                                *)
(***************************************************************************)
\* A poll keeps every sample that is not newer inside its online period.
LEMMA PollKeepsSamples ==
    ASSUME NEW log \in Seq(Event), NEW old, NEW online \in BOOLEAN, NEW now \in Time,
           NEW samples \in SUBSET Time, CollectedOnline(samples, log),
           \A t \in samples : t <= now
    PROVE  CollectedOnline(samples, NewEvents(log, old, online, now))
<1>1. CASE NewStatus(online) = old
  BY <1>1 DEF NewEvents
<1>2. CASE NewStatus(online) # old
  <2> DEFINE closed == close_open_event(log, now)
             opened == [status |-> NewStatus(online), started_at |-> now, ended_at |-> NULL]
             new == Append(closed, opened)
  <2>1. closed \in Seq(Event) /\ Len(closed) = Len(log)
    BY CloseType
  <2>2. NewEvents(log, old, online, now) = new
    BY <1>2 DEF NewEvents, open_event
  <2>3. \A i \in 1 .. Len(log) :
          closed[i] = IF IsOpen(log[i]) THEN [log[i] EXCEPT !.ended_at = now] ELSE log[i]
    BY DEF close_open_event
  <2> HIDE DEF closed, opened
  <2>4. Len(new) = Len(log) + 1 /\ \A i \in 1 .. Len(log) : new[i] = closed[i]
    BY <2>1
  <2> HIDE DEF new
  <2> SUFFICES ASSUME NEW t \in samples
               PROVE  \E i \in 1 .. Len(new) : new[i].status = ONLINE /\ InPeriod(t, new[i])
    BY <2>2 DEF CollectedOnline
  <2>5. PICK i \in 1 .. Len(log) : log[i].status = ONLINE /\ InPeriod(t, log[i])
    BY DEF CollectedOnline
  <2>6. log[i] \in Event /\ new[i] = closed[i] /\ i \in 1 .. Len(new)
    BY <2>4
  <2>7. CASE IsOpen(log[i])
    <3>1. new[i] = [log[i] EXCEPT !.ended_at = now]
      BY <2>3, <2>6, <2>7
    <3>2. new[i].status = ONLINE /\ new[i].started_at <= t /\ t <= new[i].ended_at
      BY <2>5, <2>6, <3>1 DEF Event, InPeriod
    <3> QED
      BY <2>6, <3>2 DEF InPeriod
  <2>8. CASE ~IsOpen(log[i])
    BY <2>3, <2>5, <2>6, <2>8
  <2> QED
    BY <2>7, <2>8
<1> QED
  BY <1>1, <1>2

\* A session knows when it has applied its pings.
LEMMA PingInstant ==
    ASSUME IInv, NEW d \in due, NEW now, PingApplied(d, now)
    PROVE  work[d].row.last_checked_at = now
<1>1. work[d].row \in Row /\ device[d] \in Row
  BY SessionType DEF IInv, Work
<1>2. WrittenRow(d).last_checked_at = work[d].row.last_checked_at
  BY <1>1 DEF WrittenRow, Row
<1>3. NewRow(device[d], work[d].online, now).last_checked_at = now
  BY <1>1 DEF NewRow, Row
<1> QED
  BY <1>2, <1>3 DEF PingApplied

\* A device that has answered the ping is in an online period of the session.
LEMMA OnlineNow ==
    ASSUME IInv, pc \in {"getting", "walking", "committing"}, NEW d \in due, work[d].online
    PROVE  CollectedOnline({clock}, work[d].events)
<1>1. PICK now \in 0 .. clock : PingApplied(d, now)
  BY DEF IInv, SessionIsCurrent
<1>2. /\ clock \in Nat /\ now \in Time /\ now <= clock
      /\ events[d] \in Seq(Event) /\ work[d].events \in Seq(Event) /\ work[d].online \in BOOLEAN
  BY SessionType, BoundsAssumption DEF IInv, TypeOK, Time, Work
<1>3. Logged(events[d], device[d].status)
  BY SessionType DEF IInv, OpenEventIsStatus
<1>4. /\ work[d].events = NewEvents(events[d], device[d].status, work[d].online, now)
      /\ StartedBy(events[d], now)
  BY <1>1 DEF PingApplied
<1>5. Logged(work[d].events, ONLINE) /\ StartedBy(work[d].events, now)
  BY <1>2, <1>3, <1>4, NewEventsLogged, NewEventsStarted DEF NewStatus
<1> DEFINE log == work[d].events
           last == Len(log)
<1>6. log # <<>> /\ OpenEvents(log) = {last} /\ log[last].status = ONLINE
  BY <1>5 DEF Logged, ONLINE, UNKNOWN
<1>7. last \in 1 .. Len(log)
  BY <1>2, <1>6
<1>8. IsOpen(log[last]) /\ log[last].started_at <= now /\ log[last].started_at \in Int
  BY <1>2, <1>5, <1>6, <1>7, StartIsInt DEF OpenEvents, StartedBy
<1>9. log[last].started_at <= clock
  BY <1>2, <1>8 DEF Time
<1> QED
  BY <1>6, <1>7, <1>8, <1>9 DEF CollectedOnline, InPeriod

\* A commit adds samples to the history together with the periods they fall into.
LEMMA CommitKeepsSamples ==
    ASSUME IInv, SamplesWhileOnline, SamplesAreTimely, Commit
    PROVE  SamplesWhileOnline' /\ SamplesAreTimely'
<1>1. PICK now \in 0 .. clock : \A d \in due : PingApplied(d, now)
  BY DEF IInv, SessionIsCurrent, Commit
<1>2. now \in Time
  BY <1>1, BoundsAssumption DEF IInv, TypeOK, Time
<1>3. /\ pc = "committing" /\ pc' = "sleeping" /\ clock' = clock
      /\ \A d \in Devices \ due : history'[d] = history[d] /\ events'[d] = events[d]
      /\ \A d \in due : history'[d] = history[d] \cup work[d].samples
                        /\ events'[d] = work[d].events
  BY SessionType DEF Commit, IInv
<1>4. ASSUME NEW d \in due
      PROVE  /\ CollectedOnline(history'[d], events'[d])
             /\ \A t \in history'[d] : t <= clock
  <2>1. /\ d \in Devices /\ events[d] \in Seq(Event) /\ work[d].online \in BOOLEAN
        /\ history[d] \in SUBSET Time
    BY SessionType DEF IInv, TypeOK, Work
  <2>2. \A t \in history[d] : t <= now /\ t <= clock
    BY <1>1, <1>3, <2>1, PingInstant DEF SamplesAreTimely
  <2>3. events'[d] = NewEvents(events[d], device[d].status, work[d].online, now)
    BY <1>1, <1>3 DEF PingApplied
  <2>4. CollectedOnline(history[d], events'[d])
    BY <1>2, <2>1, <2>2, <2>3, PollKeepsSamples DEF SamplesWhileOnline
  <2>5. CollectedOnline(work[d].samples, events'[d]) /\ \A t \in work[d].samples : t <= clock
    BY <1>3 DEF SamplesAreTimely
  <2> QED
    BY <1>3, <2>2, <2>4, <2>5 DEF CollectedOnline
<1>5. SamplesWhileOnline'
  <2> SUFFICES ASSUME NEW d \in Devices PROVE CollectedOnline(history'[d], events'[d])
    BY DEF SamplesWhileOnline, CollectedOnline, InPeriod, IsOpen
  <2> QED
    BY <1>3, <1>4 DEF SamplesWhileOnline
<1>6. SamplesAreTimely'
  BY <1>3, <1>4 DEF SamplesAreTimely
<1> QED
  BY <1>5, <1>6

\* Readings are of the present instant, at which the device is online.
LEMMA ReadingsKeepSamples ==
    ASSUME IInv, SamplesWhileOnline, SamplesAreTimely, NEW answered \in SUBSET Targets(work),
           CatalogGetReturns(answered) \/ WalksReturn(answered)
    PROVE  SamplesWhileOnline' /\ SamplesAreTimely'
<1>1. /\ UNCHANGED <<clock, device, events, history>>
      /\ pc \in {"getting", "walking"} /\ pc' \in {"walking", "committing"}
      /\ SaveReadings(answered)
  BY DEF CatalogGetReturns, WalksReturn
<1>2. DOMAIN work' = due /\ clock \in Int
  BY <1>1, BoundsAssumption DEF SaveReadings, IInv, TypeOK, Time
<1>3. \A d \in due : /\ work'[d].row = work[d].row
                     /\ work'[d].events = work[d].events
                     /\ work'[d].samples = IF d \in answered THEN work[d].samples \cup {clock}
                                           ELSE work[d].samples
  BY <1>1, SessionType DEF SaveReadings, IInv, Work
<1>4. ASSUME NEW d \in due
      PROVE  /\ CollectedOnline(work'[d].samples, work'[d].events)
             /\ \A t \in history[d] : t <= work'[d].row.last_checked_at
             /\ \A t \in work'[d].samples : t <= clock
  <2>1. /\ CollectedOnline(work[d].samples, work[d].events)
        /\ \A t \in history[d] : t <= work[d].row.last_checked_at
        /\ \A t \in work[d].samples : t <= clock
    BY <1>1 DEF SamplesAreTimely
  <2>2. d \in answered => CollectedOnline({clock}, work[d].events)
    BY <1>1, OnlineNow DEF Targets
  <2>3. /\ work'[d].events = work[d].events
        /\ work'[d].row.last_checked_at = work[d].row.last_checked_at
        /\ \A t \in work'[d].samples : t \in work[d].samples \/ (d \in answered /\ t = clock)
    BY <1>3
  <2>4. CollectedOnline(work'[d].samples, work[d].events)
    BY <2>1, <2>2, <2>3 DEF CollectedOnline
  <2>5. \A t \in work'[d].samples : t <= clock
    BY <1>2, <2>1, <2>3
  <2> QED
    BY <2>1, <2>3, <2>4, <2>5
<1>5. SamplesWhileOnline'
  BY <1>1 DEF SamplesWhileOnline, CollectedOnline, InPeriod, IsOpen
<1>6. SamplesAreTimely'
  <2>1. \A d \in Devices : \A t \in history[d] : t <= clock
    BY DEF SamplesAreTimely
  <2> QED
    BY <1>1, <1>2, <1>4, <2>1 DEF SamplesAreTimely, CollectedOnline, InPeriod, IsOpen, due
<1> QED
  BY <1>5, <1>6

\* The pings start a new set of samples, later than all committed ones.
LEMMA PingsKeepSamples ==
    ASSUME IInv, SamplesWhileOnline, SamplesAreTimely, NEW answered \in SUBSET due,
           PingsReturn(answered)
    PROVE  SamplesWhileOnline' /\ SamplesAreTimely'
<1>1. /\ UNCHANGED <<clock, events, history>>
      /\ pc' \in {"committing", "getting"}
      /\ DOMAIN work' = due
      /\ \A d \in due : work'[d] = ApplyPing(work[d], events[d], d \in answered, clock)
  BY DEF PingsReturn
<1>2. \A d \in due : work'[d].samples = {} /\ work'[d].row.last_checked_at = clock
  <2> TAKE d \in due
  <2>1. work[d].row \in Row
    BY SessionType DEF IInv, Work
  <2>2. NewRow(work[d].row, d \in answered, clock).last_checked_at = clock
    BY <2>1 DEF NewRow, Row
  <2> QED
    BY <1>1, <2>2 DEF ApplyPing
<1>3. SamplesWhileOnline'
  BY <1>1 DEF SamplesWhileOnline, CollectedOnline, InPeriod, IsOpen
<1>4. due \subseteq Devices
  BY SessionType DEF IInv
<1>5. SamplesAreTimely'
  BY <1>1, <1>2, <1>4 DEF SamplesAreTimely, CollectedOnline, due
<1> QED
  BY <1>3, <1>5

\* Every step keeps the samples inside online periods.
LEMMA NextSamples ==
    ASSUME IInv, SamplesWhileOnline, SamplesAreTimely, [Next]_vars
    PROVE  SamplesWhileOnline' /\ SamplesAreTimely'
<1>1. CASE Commit
  BY <1>1, CommitKeepsSamples
<1>2. CASE \E answered \in SUBSET Targets(work) :
             CatalogGetReturns(answered) \/ WalksReturn(answered)
  BY <1>2, ReadingsKeepSamples
<1>3. CASE \E answered \in SUBSET due : PingsReturn(answered)
  BY <1>3, PingsKeepSamples
<1>4. ASSUME UNCHANGED <<clock, events, history>>, pc' = "sleeping"
      PROVE  SamplesWhileOnline' /\ SamplesAreTimely'
  BY <1>4 DEF SamplesWhileOnline, SamplesAreTimely, CollectedOnline, InPeriod, IsOpen
<1>5. CASE BeginCycle
  <2>1. /\ UNCHANGED <<clock, events, history>> /\ pc' = "pinging"
        /\ \A d \in DOMAIN work' : work'[d].samples = {}
    BY <1>5 DEF BeginCycle
  <2> QED
    BY <2>1 DEF SamplesWhileOnline, SamplesAreTimely, CollectedOnline, InPeriod, IsOpen, due
<1>6. CASE Tick \/ (\E d \in Devices : Register(d) \/ IdentifySnmp(d)) \/ UNCHANGED vars
  <2>1. UNCHANGED <<events, history, pc, work>>
    BY <1>6 DEF Tick, Register, IdentifySnmp, vars
  <2>2. clock \in Int /\ clock' \in Int /\ clock <= clock'
    BY <1>6, BoundsAssumption DEF Tick, Register, IdentifySnmp, vars, IInv, TypeOK, Time
  <2>3. \A d \in Devices : history[d] \subseteq Int
    BY BoundsAssumption DEF IInv, TypeOK, Time
  <2>4. \A d \in due : work[d].samples \subseteq Int
    BY SessionType, BoundsAssumption DEF IInv, Work, Time
  <2>5. SamplesWhileOnline'
    BY <2>1 DEF SamplesWhileOnline, CollectedOnline, InPeriod, IsOpen
  <2>6. SamplesAreTimely'
    BY <2>1, <2>2, <2>3, <2>4 DEF SamplesAreTimely, CollectedOnline, InPeriod, IsOpen, due
  <2> QED
    BY <2>5, <2>6
<1> QED
  BY <1>1, <1>2, <1>3, <1>4, <1>5, <1>6 DEF Next, ReadingsRaise, CycleFails, Rollback

\* Whatever happens between a ping and the readings it led to, every committed
\* sample was collected inside an ONLINE period of its device.
THEOREM Samples == Spec => []SamplesWhileOnline
<1>1. Init => IInv /\ SamplesWhileOnline /\ SamplesAreTimely
  BY InitIInv DEF Init, SamplesWhileOnline, SamplesAreTimely, CollectedOnline
<1>2. IInv /\ SamplesWhileOnline /\ SamplesAreTimely /\ [Next]_vars
        => IInv' /\ SamplesWhileOnline' /\ SamplesAreTimely'
  BY NextIInv, NextSamples
<1> QED
  BY <1>1, <1>2, PTL DEF Spec

-----------------------------------------------------------------------------
(***************************************************************************)
(* The registry that the loop shares with scans.                           *)
(***************************************************************************)
\* A commit that keeps the registry's terms is a step of it.
LEMMA RegistryStep ==
    ASSUME registered' \subseteq Devices, registered \subseteq registered',
           \A d \in registered' : device'[d].snmp_supported \in BOOLEAN,
           \/ /\ \A d \in registered :
                    /\ device'[d].status # UNKNOWN <=> device[d].status # UNKNOWN
                    /\ device[d].snmp_supported => device'[d].snmp_supported
              /\ \A d \in registered' \ registered : device'[d].status = UNKNOWN
           \/ /\ registered' = registered
              /\ \A d \in registered :
                    /\ device[d].status # UNKNOWN => device'[d].status # UNKNOWN
                    /\ device'[d].snmp_supported = device[d].snmp_supported
    PROVE  Registry!Next
<1>1. [d \in registered' |-> [polled     |-> device'[d].status # UNKNOWN,
                              identified |-> device'[d].snmp_supported]]
        \in [registered' -> Registry!Row]
  BY DEF Registry!Row
<1>2. CASE /\ \A d \in registered :
                 /\ device'[d].status # UNKNOWN <=> device[d].status # UNKNOWN
                 /\ device[d].snmp_supported => device'[d].snmp_supported
           /\ \A d \in registered' \ registered : device'[d].status = UNKNOWN
  <2>1. Registry!ScanCommits
    BY <1>2 DEF Registry!ScanCommits, Registry!IsPolled, Registry!IsIdentified
  <2> QED
    BY <1>1, <2>1 DEF Registry!Next
<1>3. CASE /\ registered' = registered
           /\ \A d \in registered :
                 /\ device[d].status # UNKNOWN => device'[d].status # UNKNOWN
                 /\ device'[d].snmp_supported = device[d].snmp_supported
  <2>1. Registry!CycleCommits
    BY <1>3 DEF Registry!CycleCommits, Registry!IsPolled, Registry!IsIdentified
  <2> QED
    BY <1>1, <2>1 DEF Registry!Next
<1> QED
  BY <1>2, <1>3

\* Every step of Polling is a step of the registry or leaves it alone.
LEMMA NextRegistry == IInv /\ [Next]_vars => [Registry!Next]_Registry!vars
<1> SUFFICES ASSUME IInv, [Next]_vars PROVE Registry!Next \/ UNCHANGED <<registered, device>>
  BY DEF Registry!vars
<1>1. /\ registered \subseteq Devices /\ device \in [Devices -> Row]
      /\ registered' \subseteq Devices /\ device' \in [Devices -> Row]
  BY NextIInv DEF IInv, TypeOK
<1>2. \A d \in Devices : device'[d].snmp_supported \in BOOLEAN
  BY <1>1 DEF Row
<1>3. ASSUME NEW e \in Devices, Register(e) PROVE Registry!Next
  <2>1. PICK flushed \in 0 .. clock, identified \in BOOLEAN :
          device' = [device EXCEPT ![e] =
                       [DefaultRow(flushed) EXCEPT !.snmp_supported = identified]]
    BY <1>3 DEF Register
  <2>2. e \notin registered /\ registered' = registered \cup {e}
    BY <1>3 DEF Register
  <2>3. device'[e].status = UNKNOWN /\ \A d \in registered : device'[d] = device[d]
    BY <1>1, <2>1, <2>2 DEF DefaultRow
  <2> QED
    BY <1>1, <1>2, <2>2, <2>3, RegistryStep
<1>4. ASSUME NEW e \in Devices, IdentifySnmp(e) PROVE Registry!Next
  <2>1. /\ registered' = registered
        /\ device' = [device EXCEPT ![e] = [device[e] EXCEPT !.snmp_supported = TRUE]]
    BY <1>4 DEF IdentifySnmp
  <2>2. \A d \in registered : /\ device'[d].status = device[d].status
                              /\ device[d].snmp_supported => device'[d].snmp_supported
    BY <1>1, <2>1 DEF Row
  <2> QED
    BY <1>1, <1>2, <2>1, <2>2, RegistryStep
<1>5. CASE Commit
  <2>1. PICK now \in Time :
          \A d \in due : device'[d] = NewRow(device[d], work[d].online, now)
    BY <1>5, CommitAppliesPings
  <2>2. registered' = registered /\ \A d \in Devices \ due : device'[d] = device[d]
    BY <1>5 DEF Commit
  <2>3. ASSUME NEW d \in registered
        PROVE  /\ device[d].status # UNKNOWN => device'[d].status # UNKNOWN
               /\ device'[d].snmp_supported = device[d].snmp_supported
    <3>1. CASE d \in due
      <4>1. device[d] \in Row
        BY <1>1
      <4>2. NewStatus(work[d].online) # UNKNOWN
        BY DEF NewStatus, ONLINE, OFFLINE, UNKNOWN
      <4> QED
        BY <2>1, <3>1, <4>1, <4>2 DEF NewRow, Row
    <3>2. CASE d \notin due
      BY <1>1, <2>2, <3>2
    <3> QED
      BY <3>1, <3>2
  <2> QED
    BY <1>1, <1>2, <2>2, <2>3, RegistryStep
<1> QED
  BY <1>3, <1>4, <1>5
  DEF Next, vars, Tick, BeginCycle, PingsReturn, CatalogGetReturns, WalksReturn,
      ReadingsRaise, CycleFails, Rollback

\* The loop and the scans it runs beside keep the registry they share: no
\* commit of a cycle takes back an identity, and nothing but a cycle polls.
THEOREM KeepsRegistry == Spec => ImplementsRegistry
<1>1. Init => IInv /\ Registry!Init
  BY InitIInv DEF Init, Registry!Init
<1>2. IInv /\ [Next]_vars => IInv'
  BY NextIInv
<1>3. IInv /\ [Next]_vars => [Registry!Next]_Registry!vars
  BY NextRegistry
<1> QED
  BY <1>1, <1>2, <1>3, PTL DEF Spec, ImplementsRegistry, Registry!Spec

\* What a scan has identified stays identified: the registry keeps it, and a
\* device that is not in it was never identified.
THEOREM Identity == Spec => IdentityIsKept
<1>1. ASSUME IInv, [Next]_vars, NEW d \in Devices, device[d].snmp_supported
      PROVE  device'[d].snmp_supported
  <2>1. d \in registered
    BY <1>1 DEF IInv, NothingUnregistered
  <2>2. CASE Registry!Next
    BY <1>1, <2>1, <2>2 DEF Registry!Next, Registry!ScanCommits, Registry!CycleCommits,
                            Registry!IsIdentified
  <2>3. CASE UNCHANGED Registry!vars
    <3> DEFINE rows == [e \in registered |-> [polled     |-> device[e].status # UNKNOWN,
                                              identified |-> device[e].snmp_supported]]
    <3>1. rows' = rows
      BY <2>3 DEF Registry!vars
    <3>2. d \in registered' /\ rows'[d].identified = rows[d].identified
      BY <2>1, <3>1
    <3> QED
      BY <1>1, <2>1, <3>2
  <2> QED
    BY <1>1, <2>2, <2>3, NextRegistry
<1>2. IInv /\ [Next]_vars => [\A d \in Devices : device[d].snmp_supported => device'[d].snmp_supported]_vars
  BY <1>1
<1>3. Init => IInv
  BY InitIInv
<1>4. IInv /\ [Next]_vars => IInv'
  BY NextIInv
<1> QED
  BY <1>2, <1>3, <1>4, PTL DEF Spec, IdentityIsKept
=============================================================================
