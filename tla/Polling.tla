------------------------------ MODULE Polling ------------------------------
(***************************************************************************)
(* The collection loop of backend/composer/registry_metrics_collection.py: *)
(* one asyncio task that, for ever, opens a session, selects the devices   *)
(* whose next_poll_at has passed, pings them, writes their status, backoff *)
(* and availability events, collects SNMP metrics from those that answered *)
(* and commits everything in one transaction.                              *)
(*                                                                         *)
(* The loop suspends only where the code awaits: during the pings, during  *)
(* the GET of the catalogue and during the table walks.  While it is       *)
(* suspended time passes, scans commit devices and SNMP identities, and    *)
(* the process may be stopped.  What the session has flushed but not       *)
(* committed is the variable work; only a commit makes it visible.         *)
(***************************************************************************)
EXTENDS Integers, Sequences, FiniteSets

CONSTANTS
    Devices,            \* rows the devices table may come to hold
    Unparseable,        \* devices whose agent returns a value float() rejects
    BaseInterval,       \* BASE_INTERVAL_SECONDS
    MaxInterval,        \* MAX_INTERVAL_SECONDS
    BackoffMultiplier,  \* BACKOFF_MULTIPLIER
    MaxFailures,        \* bound: failures are counted up to here
    MaxTime,            \* bound: last instant of the clock
    MaxFaults           \* bound: exceptions from outside and restarts

(***************************************************************************)
(* MaxFailures cuts the counter only where the interval has already        *)
(* reached its ceiling, so that no interval depends on the cut.            *)
(***************************************************************************)
ASSUME BackoffAssumption ==
    /\ BaseInterval \in Nat \ {0}
    /\ MaxInterval \in Nat
    /\ BaseInterval <= MaxInterval
    /\ BackoffMultiplier \in Nat \ {0}
    /\ MaxFailures \in Nat \ {0}
    /\ \A n \in 0 .. MaxFailures : BaseInterval * (BackoffMultiplier ^ n) \in Nat \ {0}
    /\ BaseInterval * (BackoffMultiplier ^ MaxFailures) >= MaxInterval

(***************************************************************************)
(* What exponentiation is.  The provers know nothing of ^, so the proofs   *)
(* take its two equations, up to the bound, from here.                     *)
(***************************************************************************)
ASSUME PowerAssumption ==
    /\ BackoffMultiplier ^ 0 = 1
    /\ \A n \in 0 .. MaxFailures :
          /\ BackoffMultiplier ^ n \in Nat
          /\ BackoffMultiplier ^ (n + 1) = BackoffMultiplier * (BackoffMultiplier ^ n)

ASSUME BoundsAssumption ==
    /\ Unparseable \subseteq Devices
    /\ MaxTime \in Nat
    /\ MaxFaults \in Nat

UNKNOWN == "UNKNOWN"
ONLINE  == "ONLINE"
OFFLINE == "OFFLINE"
DeviceStatus == {UNKNOWN, ONLINE, OFFLINE}

NULL == -1       \* SQL NULL in a timestamp column
Time == 0 .. MaxTime

VARIABLES
    clock,       \* datetime.now(UTC)
    registered,  \* ids of the committed rows of devices
    device,      \* the committed columns of each row
    events,      \* availability_events, per device, in insertion order
    history,     \* collected_at of the committed metric_history rows
    pc,          \* where the loop is suspended
    work,        \* what the open session holds, per due device
    faults       \* exceptions from outside and restarts so far

vars == <<clock, registered, device, events, history, pc, work, faults>>

Row == [status : DeviceStatus, consecutive_failures : 0 .. MaxFailures,
        poll_interval_seconds : Nat, next_poll_at : Nat,
        last_checked_at : Time \cup {NULL}, snmp_supported : BOOLEAN]

Event == [status : {ONLINE, OFFLINE}, started_at : Time, ended_at : Time \cup {NULL}]

\* What the session knows of a due device: its row, its events, the samples
\* it adds, and whether it answered the ping.
Work == [row : Row, events : Seq(Event), samples : SUBSET Time, online : BOOLEAN]

NoWork == [d \in {} |-> {}]

due == DOMAIN work

(***************************************************************************)
(* services/polling_backoff.py                                             *)
(***************************************************************************)
\* Mutant: the ceiling is forgotten.
next_poll_interval_uncapped(failures) == BaseInterval * (BackoffMultiplier ^ failures)

next_poll_interval(failures) ==
    LET interval == BaseInterval * (BackoffMultiplier ^ failures)
    IN  IF failures <= 0 THEN BaseInterval
        ELSE IF interval <= MaxInterval THEN interval ELSE MaxInterval

\* consecutive_failures + 1, cut at MaxFailures.
OneMoreFailure(failures) == IF failures < MaxFailures THEN failures + 1 ELSE MaxFailures

(***************************************************************************)
(* The rows of availability_events of one device.                          *)
(***************************************************************************)
IsOpen(e) == e.ended_at = NULL

OpenEvents(log) == {i \in 1 .. Len(log) : IsOpen(log[i])}

\* one_or_none() raises when it finds two rows.
OneOrNone(log) == \A i, j \in OpenEvents(log) : i = j

\* Mutants: the open event is never ended; every event is ended again.
close_no_event(log, now) == log

close_every_event(log, now) == [i \in 1 .. Len(log) |-> [log[i] EXCEPT !.ended_at = now]]

close_open_event(log, now) ==
    [i \in 1 .. Len(log) |->
        IF IsOpen(log[i]) THEN [log[i] EXCEPT !.ended_at = now] ELSE log[i]]

open_event(log, status, now) ==
    Append(log, [status |-> status, started_at |-> now, ended_at |-> NULL])

(***************************************************************************)
(* _apply_ping_result for one device: the new row and the new events.      *)
(***************************************************************************)
NewStatus(online) == IF online THEN ONLINE ELSE OFFLINE

NewRow(row, online, now) ==
    LET failures == IF online THEN 0 ELSE OneMoreFailure(row.consecutive_failures)
        interval == next_poll_interval(failures)
    IN  [row EXCEPT !.status = NewStatus(online),
                    !.consecutive_failures = failures,
                    !.poll_interval_seconds = interval,
                    !.next_poll_at = now + interval,
                    !.last_checked_at = now]

\* Mutant: the new event is opened first, and closed with the old one.
NewEvents_swapped(log, old_status, online, now) ==
    IF NewStatus(online) = old_status THEN log
    ELSE close_open_event(open_event(log, NewStatus(online), now), now)

NewEvents(log, old_status, online, now) ==
    IF NewStatus(online) = old_status THEN log
    ELSE open_event(close_open_event(log, now), NewStatus(online), now)

ApplyPing(w, log, online, now) ==
    [row     |-> NewRow(w.row, online, now),
     events  |-> NewEvents(log, w.row.status, online, now),
     samples |-> {},
     online  |-> online]

(***************************************************************************)
(* Initially nothing has been discovered.  The columns of a device that is *)
(* not registered have no meaning: they hold the defaults of the model.    *)
(***************************************************************************)
DefaultRow(now) ==
    [status |-> UNKNOWN, consecutive_failures |-> 0, poll_interval_seconds |-> BaseInterval,
     next_poll_at |-> now, last_checked_at |-> NULL, snmp_supported |-> FALSE]

Init ==
    /\ clock = 0
    /\ registered = {}
    /\ device = [d \in Devices |-> DefaultRow(0)]
    /\ events = [d \in Devices |-> <<>>]
    /\ history = [d \in Devices |-> {}]
    /\ pc = "sleeping"
    /\ work = NoWork
    /\ faults = 0

Tick ==
    /\ clock < MaxTime
    /\ clock' = clock + 1
    /\ UNCHANGED <<registered, device, events, history, pc, work, faults>>

(***************************************************************************)
(* The environment: scans, which run in sessions of their own.             *)
(***************************************************************************)
\* A scan commits a row it flushed at some earlier instant, with the SNMP
\* identity if the device answered that too.
Register(d) ==
    /\ d \notin registered
    /\ registered' = registered \cup {d}
    /\ \E flushed \in 0 .. clock, identified \in BOOLEAN :
        device' = [device EXCEPT ![d] =
                     [DefaultRow(flushed) EXCEPT !.snmp_supported = identified]]
    /\ UNCHANGED <<clock, events, history, pc, work, faults>>

\* Rows the session has updated stay locked until it ends: an UPDATE of the
\* same row by a scan of another process waits.
RowLocked(d) == pc \in {"getting", "walking", "committing"} /\ d \in due

\* A scan commits the SNMP identity of a device that answered it.
IdentifySnmp(d) ==
    /\ d \in registered
    /\ ~RowLocked(d)
    /\ device' = [device EXCEPT ![d].snmp_supported = TRUE]
    /\ UNCHANGED <<clock, registered, events, history, pc, work, faults>>

(***************************************************************************)
(* The cycle.                                                              *)
(***************************************************************************)
\* Mutant: the schedule is ignored.
list_all(now) == registered

list_due_for_poll(now) == {d \in registered : device[d].next_poll_at <= now}

\* The loop wakes up, finds devices to poll and starts the pings.  With none
\* to poll the cycle returns at once and changes nothing.
BeginCycle ==
    /\ pc = "sleeping"
    /\ list_due_for_poll(clock) # {}
    /\ pc' = "pinging"
    /\ work' = [d \in list_due_for_poll(clock) |->
                  [row |-> device[d], events |-> <<>>, samples |-> {}, online |-> FALSE]]
    /\ UNCHANGED <<clock, registered, device, events, history, faults>>

\* Mutant: SNMP is tried whether or not the ping was answered.
Targets_all(w) == {d \in DOMAIN w : w[d].row.snmp_supported}

\* Devices polled over SNMP: those that answered the ping and were known to
\* speak SNMP when the cycle read their row.
Targets(w) == {d \in DOMAIN w : w[d].online /\ w[d].row.snmp_supported}

\* new_status # device_status: an event is closed and another opened.
Transition(d, online) == NewStatus(online) # work[d].row.status

\* Every ping has a result: all of them are applied before the next await.
PingsReturn(answered) ==
    /\ pc = "pinging"
    /\ \A d \in due : Transition(d, d \in answered) => OneOrNone(events[d])
    /\ work' = [d \in due |-> ApplyPing(work[d], events[d], d \in answered, clock)]
    /\ pc' = IF Targets(work') = {} THEN "committing" ELSE "getting"
    /\ UNCHANGED <<clock, registered, device, events, history, faults>>

\* Readings of the devices that answered become metric_history rows.
SaveReadings(answered) ==
    work' = [d \in due |->
               IF d \in answered THEN [work[d] EXCEPT !.samples = @ \cup {clock}] ELSE work[d]]

CatalogGetReturns(answered) ==
    /\ pc = "getting"
    /\ answered \cap Unparseable = {}
    /\ SaveReadings(answered)
    /\ pc' = "walking"
    /\ UNCHANGED <<clock, registered, device, events, history, faults>>

WalksReturn(answered) ==
    /\ pc = "walking"
    /\ answered \cap Unparseable = {}
    /\ SaveReadings(answered)
    /\ pc' = "committing"
    /\ UNCHANGED <<clock, registered, device, events, history, faults>>

\* Mutants: every column of the row is written back; a row is written only if
\* the device answered.
WrittenRow_whole(d) == work[d].row

WrittenRow_answered(d) == IF work[d].online THEN work[d].row ELSE device[d]

\* session.commit(): the UPDATE names the columns the cycle assigned, and
\* snmp_supported is not one of them.
WrittenRow(d) == [work[d].row EXCEPT !.snmp_supported = device[d].snmp_supported]

Commit ==
    /\ pc = "committing"
    /\ device' = [d \in Devices |-> IF d \in due THEN WrittenRow(d) ELSE device[d]]
    /\ events' = [d \in Devices |-> IF d \in due THEN work[d].events ELSE events[d]]
    /\ history' = [d \in Devices |->
                     IF d \in due THEN history[d] \cup work[d].samples ELSE history[d]]
    /\ pc' = "sleeping"
    /\ work' = NoWork
    /\ UNCHANGED <<clock, registered, faults>>

\* Mutants: the session survives the exception; the task does not.
Rollback_keeps_session ==
    /\ pc' = "sleeping"
    /\ UNCHANGED <<clock, registered, device, events, history, work>>

Rollback_ends_task ==
    /\ pc' = "ended"
    /\ work' = NoWork
    /\ UNCHANGED <<clock, registered, device, events, history>>

\* session.rollback(), or the connection is lost: nothing of the cycle stays.
Rollback ==
    /\ pc' = "sleeping"
    /\ work' = NoWork
    /\ UNCHANGED <<clock, registered, device, events, history>>

\* float(raw_value) raises on what an unparseable device answered.
ReadingsRaise(answered) ==
    /\ pc \in {"getting", "walking"}
    /\ answered \cap Unparseable # {}
    /\ Rollback
    /\ UNCHANGED faults

\* An exception from outside (database, sockets) or from one_or_none(), which
\* run_forever logs, or the process stops and starts again.
CycleFails ==
    /\ pc # "sleeping"
    /\ faults < MaxFaults
    /\ faults' = faults + 1
    /\ Rollback

Next ==
    \/ Tick
    \/ \E d \in Devices : Register(d) \/ IdentifySnmp(d)
    \/ BeginCycle
    \/ \E answered \in SUBSET due : PingsReturn(answered)
    \/ \E answered \in SUBSET Targets(work) :
        CatalogGetReturns(answered) \/ WalksReturn(answered) \/ ReadingsRaise(answered)
    \/ Commit
    \/ CycleFails

(***************************************************************************)
(* The event loop resumes the task when what it awaits is done, and every  *)
(* await ends: pings and SNMP requests have timeouts, the sleep a length.  *)
(* Nothing is assumed of scans, of the clock or of faults.                 *)
(***************************************************************************)
Fairness ==
    /\ WF_vars(BeginCycle)
    /\ WF_vars(\E answered \in SUBSET due : PingsReturn(answered))
    /\ WF_vars(\E answered \in SUBSET Targets(work) :
                 CatalogGetReturns(answered) \/ WalksReturn(answered) \/ ReadingsRaise(answered))
    /\ WF_vars(Commit)

Spec == Init /\ [][Next]_vars

FairSpec == Spec /\ Fairness

-----------------------------------------------------------------------------
\* Every variable keeps to its domain; the session exists only in a cycle.
TypeOK ==
    /\ clock \in Time
    /\ registered \subseteq Devices
    /\ device \in [Devices -> Row]
    /\ events \in [Devices -> Seq(Event)]
    /\ history \in [Devices -> SUBSET Time]
    /\ pc \in {"sleeping", "pinging", "getting", "walking", "committing"}
    /\ DOMAIN work \subseteq registered
    /\ work \in [DOMAIN work -> Work]
    /\ pc = "sleeping" <=> DOMAIN work = {}
    /\ faults \in 0 .. MaxFaults

\* The open event of a device tells its status: a device never polled has no
\* event, any other has exactly one open event, its last, with its status.
\* (_apply_ping_result compares with a snapshot taken before the pings.)
Logged(log, status) ==
    IF status = UNKNOWN THEN log = <<>>
    ELSE /\ log # <<>>
         /\ OpenEvents(log) = {Len(log)}
         /\ log[Len(log)].status = status

OpenEventIsStatus == \A d \in Devices : Logged(events[d], device[d].status)

\* The session and the committed rows stay in step although scans commit while
\* the cycle waits: up to the ping results a due row is as committed and due;
\* after them, committing would apply the pings of one past instant to the rows
\* and the events as they are committed now.  Nothing is lost, nothing stale.
StartedBy(log, now) == \A i \in 1 .. Len(log) : log[i].started_at <= now

PingApplied(d, now) ==
    /\ device[d].next_poll_at <= now
    /\ StartedBy(events[d], now)
    /\ WrittenRow(d) = NewRow(device[d], work[d].online, now)
    /\ work[d].events = NewEvents(events[d], device[d].status, work[d].online, now)

SessionIsCurrent ==
    /\ pc = "pinging" => \A d \in due : WrittenRow(d) = device[d]
                                      /\ device[d].next_poll_at <= clock
    /\ pc \in {"getting", "walking", "committing"} =>
          \E now \in 0 .. clock : \A d \in due : PingApplied(d, now)

\* A device whose row is not committed was never polled nor identified.
NothingUnregistered ==
    \A d \in Devices \ registered :
        /\ device[d].status = UNKNOWN
        /\ device[d].last_checked_at = NULL
        /\ ~device[d].snmp_supported

\* No event is in the future.
NoFutureEvent == \A d \in Devices : StartedBy(events[d], clock)

\* The interval of a row is that of its failures: the two columns are written
\* together, and a scan writes the defaults of both.
IntervalFollowsFailures ==
    \A d \in Devices :
        device[d].poll_interval_seconds = next_poll_interval(device[d].consecutive_failures)

\* The events of a device started one after the other, all of them before its
\* next poll, which may start another: started_at orders them.
StartsIncrease ==
    \A d \in Devices : \A i \in 1 .. Len(events[d]) :
        /\ events[d][i].started_at < device[d].next_poll_at
        /\ \A j \in 1 .. i - 1 : events[d][j].started_at < events[d][i].started_at

\* The inductive invariant of the safety proofs.
IInv ==
    /\ TypeOK
    /\ OpenEventIsStatus
    /\ SessionIsCurrent
    /\ NothingUnregistered
    /\ NoFutureEvent

\* The events of a device leave no gap and no overlap, run forward in time,
\* and alternate: what the availability percentages are computed from.
Timeline(log) ==
    \A i \in 1 .. Len(log) - 1 :
        /\ log[i].ended_at = log[i + 1].started_at
        /\ log[i].started_at <= log[i].ended_at
        /\ log[i].status # log[i + 1].status

TimelinesAreContiguous == \A d \in Devices : Timeline(events[d])

\* Every committed sample of a device was collected inside one of its ONLINE
\* periods, although the cycle waits between the ping and the samples.
InPeriod(t, e) == e.started_at <= t /\ (IsOpen(e) \/ t <= e.ended_at)

CollectedOnline(samples, log) ==
    \A t \in samples : \E i \in 1 .. Len(log) : log[i].status = ONLINE /\ InPeriod(t, log[i])

SamplesWhileOnline == \A d \in Devices : CollectedOnline(history[d], events[d])

\* What the session will add fits the events it will write; what is committed
\* is older than its pings, which may end the open period.
SamplesAreTimely ==
    /\ \A d \in Devices : \A t \in history[d] : t <= clock
    /\ pc = "pinging" => \A d \in due : work[d].samples = {}
    /\ pc \in {"getting", "walking", "committing"} =>
          \A d \in due :
              /\ CollectedOnline(work[d].samples, work[d].events)
              /\ \A t \in history[d] : t <= work[d].row.last_checked_at
              /\ \A t \in work[d].samples : t <= clock

\* A poll that fails doubles the interval up to the ceiling, one that succeeds
\* resets it, whatever cycles were rolled back in between.
Polled(d) == device'[d].last_checked_at # device[d].last_checked_at

DoublesOrResets(d) ==
    device'[d].poll_interval_seconds =
        IF device'[d].status = ONLINE THEN BaseInterval
        ELSE LET doubled == BackoffMultiplier * device[d].poll_interval_seconds
             IN  IF doubled <= MaxInterval THEN doubled ELSE MaxInterval

BackoffDoublesOrResets == [][\A d \in Devices : Polled(d) => DoublesOrResets(d)]_vars

\* No device is polled before its time, and each poll schedules the next one
\* its interval later: backoff and schedule cannot drift apart.
OnSchedule(d) ==
    /\ device[d].next_poll_at <= device'[d].last_checked_at
    /\ device'[d].next_poll_at =
           device'[d].last_checked_at + device'[d].poll_interval_seconds

PolledWhenDue == [][\A d \in Devices : Polled(d) => OnSchedule(d)]_vars

\* A cycle writes all the devices it found due or none, in one step: a rolled
\* back cycle leaves no device half polled.
AllRescheduled == \A d \in due : device'[d].next_poll_at > device[d].next_poll_at

CycleIsAtomic == [][(\E d \in Devices : Polled(d)) => AllRescheduled]_vars

\* The committed rows are an availability log: whatever cycles fail, events are
\* only ever closed and appended, for the devices of one cycle in one step.
Log == INSTANCE AvailabilityLog WITH
           status <- [d \in Devices |-> device[d].status], log <- events

ImplementsAvailabilityLog == Log!Spec

\* A cycle that read a row before a scan identified it does not undo that.
IdentityIsKept ==
    [][\A d \in Devices : device[d].snmp_supported => device'[d].snmp_supported]_vars

\* The committed rows of devices are a registry: a cycle takes back nothing a
\* scan has committed since the cycle read a row, and a scan polls nothing.
Registry == INSTANCE DeviceRegistry WITH
                Ids <- Devices,
                rows <- [d \in registered |-> [polled     |-> device[d].status # UNKNOWN,
                                               identified |-> device[d].snmp_supported]]

ImplementsRegistry == Registry!Spec

\* A device whose time has come is eventually polled and rescheduled.
DueIsPolled ==
    \A d \in Devices :
        (d \in registered /\ device[d].next_poll_at <= clock)
            ~> (d \in registered /\ device[d].next_poll_at > clock)

\* No status stays UNKNOWN for ever: an exception in a cycle only delays it to
\* a later tick (run_forever), here for the devices that cause none.
NoStatusStuckUnknown ==
    \A d \in Devices \ Unparseable :
        (d \in registered) ~> (device[d].status # UNKNOWN)
=============================================================================
