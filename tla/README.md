# Verification of the SNMP monitor

TLA+ models of the backend in `src/backend`: a FastAPI process that discovers
devices on a network, polls them for ever, keeps their availability as a log of
status changes, collects SNMP readings and rolls old readings up into hourly
trends. The modules are checked with TLC on small instances and the main results
are proved with TLAPS for every value of the constants.

- `PROJECT.json` lists the components, the runs, the mutant that each property
  rejects, the source lines each definition models, the findings, the hazards
  and the theorems.
- To check a run: `tlc -workers 2 -config MCPolling_safety.cfg MCPolling`.
  To check proofs: `tlapm PollingProofs.tla`.

## 1. The system

Everything runs in one Python process with one asyncio event loop, over one
PostgreSQL database (READ COMMITTED).

| Component | State it keeps | Operations |
|---|---|---|
| Collection loop (`composer/registry_metrics_collection.py`) | nothing between cycles; in a cycle, a session and a snapshot of the due devices | every 15 s: select due devices, ping them, apply the results, GET the catalogue, walk tables, commit |
| Backoff (`services/polling_backoff.py`) | none | interval from the number of consecutive failures |
| Availability log (`repositories/availability_event_repository.py`) | `availability_events` | close the open event, open the next |
| Device repository (`repositories/device_repository.py`) | `devices` | upsert of a scan, poll result, SNMP identity, due devices |
| Housekeeping loop (`composer/registry_history_housekeeping.py`) | nothing between cycles | every 15 min, in a thread: aggregate closed hours into `metric_trends`, delete old `metric_history` |
| Sessions (`infra/database/db_connection_handler.py`) | open transactions | commit at the end of the block, roll back on an exception |
| Discovery scan (`composer/registry_devices.py`, `services/ip_scan_service.py`, `ping_sweep_service.py`, `snmp_scan_service.py`) | `subnets`, `devices` | ARP, ICMP fallback, upsert, SNMP identity; by `POST /devices/scan` on the event loop, or as a process on the host |
| Metric catalogue (`repositories/metric_definition_repository.py`, `snmp/oids.py`) | `metric_definitions` | seeding at startup, creation on first sight |
| SNMP probes (`services/*_metrics_service.py`, `snmp/snmp_walk.py`) | none | GET and GETNEXT loops, at most 20 devices at a time |
| ETL and API (`etl/`, `api/`) | none | availability summaries, series for charts; threads of the pool, read only |
| Frontend (`src/frontend`) | query cache | polls the API, starts a scan |

**How they interact.** The components share the database and the event loop.
A collection cycle keeps one transaction open over three kinds of await (pings,
GETs, walks); a scan keeps one open over ARP, sweep and SNMP probes. Whatever one
of them has flushed is invisible to the others until its commit, and the rows it
has updated stay locked. The housekeeping thread reads what collection cycles have
committed, between its own statements too.

**What is hard.** State read before an await and used after it; one transaction
for the results of many devices, so that the failure of one touches all; readings
stamped before, and committed after, an hour is aggregated; a retention cutoff
inside an hour; a statement that grows with the data; an exception that would end
a loop for ever; scans that hold locks the loop needs. `PROJECT.json` lists each
under `hazards`, at its line, with the properties that cover it.

**What makes each part correct.**

- *Collection loop*: a due device is eventually polled; never before its time; the
  backoff doubles, stops at the ceiling and resets; a cycle is applied whole or not
  at all; what a scan commits meanwhile is not undone.
- *Availability log*: exactly one open event per polled device, which tells its
  status; contiguous, alternating periods; samples fall into online periods.
- *Housekeeping*: no open hour in a trend; no numeric reading deleted uncounted;
  closed hours eventually counted, old rows eventually deleted.
- *Discovery*: a host is recognised again by its MAC, whatever its address; a scan
  registers all it found or nothing; nothing is taken from the registry; an identity
  is that of the host that was found.
- *Catalogue and walks*: a reading belongs to the row its key names; every row is
  read once; a cycle ends; the GET asks for the catalogue and nothing else.
- *ETL*: availability, downtime and MTTR are those of the log; a chart misses no
  reading for being moved from one table to the other while it is drawn, and has at
  most one point more than `MAX_POINTS`.

## 2. Modules

| Module | What it is |
|---|---|
| `AvailabilityLog` | Abstract specification: for each device a log that is only ever closed and appended, in step with its status; with the proof that this gives readers a gapless record |
| `DeviceRegistry` | Abstract specification: for each registered device whether it is polled and identified, as commits of scans and of cycles change it |
| `Polling` | The collection loop, the rows it writes, the scans that commit meanwhile; implements `AvailabilityLog` and `DeviceRegistry` |
| `MCPolling` | Instances of `Polling` for TLC |
| `PollingProofs` | Theorems about `Polling` |
| `Housekeeping` | Readings, rollup and retention |
| `MCHousekeeping` | Instances of `Housekeeping` for TLC |
| `HousekeepingProofs` | Theorems about `Housekeeping` |
| `RowLocks` | The cycle and the scans as transactions that hold rows locked across awaits, on one event loop or several |
| `MCRowLocks` | Instances of `RowLocks` for TLC |
| `RowLocksProofs` | Theorems about `RowLocks` |
| `AvailabilityEtl` | What the API computes from the rows and events of `Polling`; `MCPolling` extends it |
| `AvailabilityEtlProofs` | Theorems about `AvailabilityEtl` |
| `MetricsEtl` | The series of a chart, from the tables of `Housekeeping`; `MCHousekeeping` extends it |
| `MetricsEtlProofs` | Theorems about `MetricsEtl` |
| `Discovery` | A scan from the subnet asked for to its commit, several at once, on a network whose addresses change hands; implements `DeviceRegistry` |
| `MCDiscovery` | Instances of `Discovery` for TLC |
| `DiscoveryProofs` | Theorems about `Discovery` |
| `Probing` | What a cycle asks of one device by SNMP, the readings it makes of the answers, the catalogue of metrics |
| `MCProbing` | An instance of `Probing` for TLC |
| `ProbingProofs` | Theorems about `Probing` |

`AvailabilityLog`, `Polling` and `Housekeeping` say what is written, `RowLocks` who
may go on. They share the shape of a cycle (the same awaits, the same transaction)
and otherwise stand apart: `Polling` assumes of a scan what `RowLocks` shows for a
scan in a process of its own, that it commits or not but does not stop the cycle.
`Polling` and `Discovery` each know the other by its commits alone (`Register` and
`IdentifySnmp` there, `Poll` here); `DeviceRegistry` is what they agree on: both are
shown to implement it, those commits of the other included. The two awaits
`"getting"` and `"walking"` of `Polling` are what `Probing` looks into, for one
device. `AvailabilityEtl` and `MetricsEtl` add no
variable: they read the state of the module they extend.

### `Polling`

`device`, `events` and `history` are the committed rows. `work` is what the open
session holds for each due device: the row as read and then as written, its events,
the samples to add, and the answer to the ping. Only `Commit` copies it to the
committed rows; `Rollback` drops it. `pc` is the await at which the loop is
suspended, so that an action is exactly the code between two awaits:

| Action | Code |
|---|---|
| `BeginCycle` | `run_collection_cycle` up to the pings: read the due devices and take the snapshot. With none due the cycle returns and changes nothing, which is a stutter |
| `PingsReturn(answered)` | all ping results applied by `_apply_ping_result`, up to the GET |
| `CatalogGetReturns`, `WalksReturn` | readings of the devices that answered, stamped with the present instant and flushed |
| `ReadingsRaise` | a value `float()` rejects: the exception leaves the session block, which rolls back |
| `Commit` | the end of the block. SQLAlchemy's UPDATE names only the assigned columns, hence `WrittenRow`, which leaves `snmp_supported` as committed |
| `CycleFails` | any other exception, or the process stops and starts again; both end with an empty session and a new cycle later |
| `Register(d)`, `IdentifySnmp(d)` | what a scan of another session commits. A locked row cannot be updated (`RowLocked`) |
| `Tick` | the clock |

Abstractions. The clock is discrete and stands still within an action: the
microseconds between two `datetime.now()` of one stretch are not told apart. A
device is polled by id; address, community and names play no part here. A reading
is the instant it was collected. `Unparseable` are the devices whose agent answers
a numeric OID with text. The walks of host resources and of printers, two awaits
in sequence with nothing written between them, are one. `metric_definitions`
created by a walk are left to the catalogue. A scan's own locks and its use of the
same event loop are left to `RowLocks`: here a scan is another process, as the
backend README has it run on the host, and only its commit is seen. The column
defaults of a row not yet registered stand for "no row".

### `Housekeeping`

`pending` are readings flushed by an open collection cycle, `raw` the committed
`metric_history`, `trends` the readings counted in the committed `metric_trends`.
A trend row is minimum, maximum, mean and count over one hour: all are functions of
the set of readings aggregated, so a bucket is represented by that set and
"the trend changes" by "the set changes". `pc` walks through the thread's two
statements and its commit; each statement reads the rows committed when it runs
(READ COMMITTED), so that `CommitReadings` may fall between them.
`StatementTooLarge` is the refusal of an INSERT with more parameters than the
database accepts; `BindLimit` stands for the 65535 of the PostgreSQL protocol,
which is external to the repository. `WriteDelay` bounds the time from stamping a
reading to committing it (timeouts bound the awaits in between); `Tick` waits for
it.

### `RowLocks`

`locked` are the rows of `devices` the open transaction of a session has updated,
`todo` those it has still to update before its next await, `pc` the await at which
it is suspended, `running` the session that has the turn of each event loop. A
session is the collection loop or one caller of `run_ip_and_snmp_scan`.

| Action | Code |
|---|---|
| `Begin(s)` | the session block is entered, up to the first await: pings (`"pinging"`), ARP (`"discovering"`), or with `ipscan=False` the probes of all devices (`"reprobing"`) |
| `Resume(s)` | the await ends and the loop runs the session; `Writes` says what it will flush: the cycle one due device at a time, a scan all it found in one flush, in the order of the primary key, and after the probes the identities of its own devices |
| `Write(s)` | the UPDATE of one row returns. A row locked by another transaction keeps the call, which is synchronous, and with it the event loop |
| `Suspend(s)` | the next await (SNMP requests), the transaction still open |
| `Commit(s)`, `Fail(s)` | the end of the session block, by `commit` or by `rollback` |
| `DeadlockVictim(s)` | PostgreSQL ends one of the transactions that wait for each other (external to the repository) |
| `Restart(l)` | the process of a loop stops and starts again |

Abstractions. Rows have no contents. Awaits between which nothing is written are one:
ARP and the ping sweep, GETs and walks. A cycle without due devices opens a session
and writes nothing, and is left out. Rows a scan inserts can be locked against
nobody but a scan inserting the same MAC at the same time, which belongs to
`Discovery`.

### `AvailabilityEtl`

The queries of the event repository and `AvailabilityETL`, as operators over `events`
and `device` at the present clock. A summary keeps seconds where the code divides
by the length of the window, and a mean is its sum and its number, so nothing is
rounded. The reference definition counts instants of the window at which the log
says the device had a status; one instant stands for the second that begins
there. `summary` is one statement, hence an invariant compares it with the log.
`dashboard_summary` is two, hence `DashboardCountsAgree` looks at a step: devices
before it, events after it. An MTTR counts an outage that ended exactly where the
window begins, with no seconds in it: so does `Recoveries`.

### `MetricsEtl`

`DeviceMetricsETL.build_series`, raw readings before a step and trends after it,
since it reads them in this order in two statements of a READ COMMITTED session.
A point is its bin; the mean of a bin is left out. `MaxPoints` stands for 200 and
`MinWidth` for a minute. Series are the pairs of a device and a metric.
A trend is read by its `bucket_start`, so that the hour in which the window begins is
found in `metric_history` only: once its readings are in trends alone, a chart longer
than the retention begins up to an hour late. `SeriesIsComplete` promises what the
statements select (`InReach`), and not those readings.

### `Discovery`

`devices` and `subnets` are the committed rows, `holder` says which host has which
address now, `session` is what each open session has heard, matched and assigned:
`found` the answers, `target` the row of each, `loaded` the rows as read, `work` as
assigned. Identifiers are sequence numbers up to renaming: a row that the n-th scan
inserts is named by n and the address it was found at.

| Action | Code |
|---|---|
| `Begin(s, given)` | `IpScanService`: the subnet given, or the local one cut to its /24; `SubnetTooLargeError` is the guard |
| `ArpAnswers(s)` | the thread of `srp` ends with any part of the answers; with none the sweep begins; else `upsert_many` matches each answer (`Matched`) |
| `SweepAnswers(s)` | the same for the pings, which tell no MAC |
| `Flush(s)`, `FlushFails(s)` | the end of `upsert_many`: the inserts and updates reach the database, wait for rows or MACs of another open transaction, and are refused when a MAC is there already |
| `SnmpAnswers(s)` | the probes end; an answer identifies every target at its address |
| `BeginIdentify(s)` | `ipscan=False`: the targets are all rows of the database |
| `Commit(s)`, `ScanFails(s)` | the end of the session block. An UPDATE names the columns that differ from the row read (`WrittenRow`) |
| `Poll` | a collection cycle commits; it waits for rows a scan has flushed |
| `Renew(a)` | an address changes hands, or its host goes away |

Abstractions. `status` stands for the columns of polling, `identity` for those of
`update_snmp_info`, which are written together. Vendor, device type, community and
the summary returned are left out. Two hosts at one address at once, and MACs that
change, do not occur. `upsert_many` reads one row after another without an await;
other processes may commit in between, here they commit before or after. Addresses change hands only while no scan runs: a scan
takes seconds, a lease hours.

### `Probing`

One device and one of its tables at a time; `table` and `model_name` say which, and
the walks of tables it lacks end at once. `numbering` and `present` are the agent:
the index of each row and the rows there are. `walk` has, for each column, what its
walk has recorded; `definitions` are the committed keys, all found by walking
represented by `Dynamic`, since only their oid is used.

| Action | Code |
|---|---|
| `Boot` | `seed_metric_catalog` at startup |
| `BeginCycle` | `list_static`, up to the GET |
| `GetReturns` | the readings of any metrics supported, or none; the walks begin, all at once |
| `Answer(c)` | one turn of the loop of `walk_column`: the next row of the column, or the end |
| `LoseAnswer(c)` | a timeout after the retries: the walk returns what it has |
| `WalksReturn` | `gather` returns, the readings are made and flushed |
| `Commit`, `CycleFails`, `Stop` | definitions created are committed, or rolled back |
| `RowChanges`, `Renumber` | the agent (external): rows come and go at any time; it starts anew between the walks of two cycles |

A value is its row (`Cell`), so that a reading tells which rows it was made of.
Values that are no number and sizes of zero, which drop a reading of a disk, are left
out. Labels of different rows are taken to differ, also after `slugify`.

## 3. Runs

| Run | Question | Instance | Result |
|---|---|---|---|
| `polling_safety` | Are status, events, samples, schedule and backoff consistent in every interleaving of cycles, scans, failures and time, is the whole an `AvailabilityLog` and a `DeviceRegistry`, and does the API tell what the log says? | 2 devices, one unparseable; base 1, ceiling 3, multiplier 2; clock to 4; 1 outside failure; windows of 2 ticks. About 1.1 million states | holds |
| `polling_liveness` | Is every due device eventually polled? | 2 devices, all readings storable; clock to 2; 1 outside failure | holds |
| `polling_poisoned` | Does an exception only delay a status to a later tick? | 2 devices, one unparseable, no outside failure | violated, finding 1 |
| `housekeeping_rollup` | Is anything deleted uncounted, published too early, lost, or deleted before what is older? | a numeric and a text series; hours and retention of 2 ticks; clock to 6; a statement holds 2 buckets. About 5.3 million states | holds |
| `housekeeping_liveness` | Are closed hours eventually counted and old rows deleted, and does a chart drawn meanwhile miss nothing that its statements are to find, and how many points has it? | 1 series; clock to 5; every statement fits; 1 outside failure; charts of 1 and 4 ticks, 2 points | holds |
| `housekeeping_straddle` | Does aggregating again keep what was counted? | 1 series, retention not cut to the hour | violated, finding 2 |
| `rowlocks_processes` | Do cycles and scans go on, whatever they lock, when each scan is a process of its own, and does who holds rows across an await need none of another? | the cycle, 2 scans, 2 rows, 3 loops. 8820 states | holds |
| `rowlocks_api` | Is a cycle tried at every tick when a scan runs on the same loop? | the cycle, 1 scan, 2 rows, 1 loop | violated, finding 4 |
| `discovery_registry` | Does a scan register all it found or nothing, without harm to what is registered, whatever scans and polls run beside it, and is the whole a `DeviceRegistry`? | 2 scans at once, 3 in all; 2 addresses, 2 hosts; the local subnet too large, its /24 not. About 0.8 million states, up to symmetry | holds |
| `discovery_sweep` | Is a device without MAC saved once? | 1 scan after another, 1 host | violated, finding 5 |
| `probing_walks` | Is every reading of the row it names, and every row read, whatever happens between the answers of concurrent walks? | 2 rows, one without label, both numberings; each of the 5 tables. About 0.3 million states | holds |
| `housekeeping_bind` | Do old rows go whatever the number of series? | 3 series, a statement holds 2 buckets | violated, finding 3 |

**Bounds.** Two devices are enough for every interaction of `Polling`: one due
while another is not, one answering while another does not, one failing the cycle
of another. The backoff instance has the shape of the code's: the ceiling (3) is
not a power of the multiplier times the base, like 3600 and 60, so the intervals after
failures are 2, 3, 3; with the clock to 4 a device can fail twice and reach the
ceiling, but is not due again after that: that it stays there, until an answer resets
it, is the theorem `Backoff`, for all bounds. `MaxFailures` cuts the counter only where the interval is at its
ceiling (`BackoffAssumption`). `MaxFaults` bounds failures from outside; one is
enough for a failure after a commit, before one and at every await, and the
unparseable device adds failures without bound. In `Housekeeping` an hour of two
ticks lets a reading be in the middle of an hour and a cutoff fall there; a clock to
6 has three hours, thus one past the retention; in `housekeeping_rollup` the limit
of two buckets makes both outcomes of the statement happen. In `RowLocks` two rows
are what a deadlock needs (each session has one and wants the other) and three
sessions let one be overtaken while two contend; nothing is counted, so its runs
have no bound besides. A window of 2 ticks cuts events, holds whole ones and, early,
begins before all of them. A chart of 4 ticks reaches past the retention into trends,
one of 1 tick does not. In `Discovery` two addresses let a host move, answer
twice or give way to another; the third scan sees what two at once have left, and
`MaxScans` is the only bound. In `Probing` two rows tell one entry of a table from
several and a label from an index, and let walks of two columns see different rows;
nothing is bounded. Deadlock is checked in all runs: none can stop.

**Fairness.** `Polling`: weak fairness of each stretch of the cycle. The event loop
resumes a task whose await is done; pings have a timeout and a fixed number of
retries, an SNMP request too, the sleep a length; that a *walk* of a table ends is
assumed here and shown by `CyclesEnd` of `Probing`. Nothing is assumed
of scans, of the clock, or of failures. `Housekeeping`: weak fairness of the clock,
of the commit of a collection cycle, and of each step of the housekeeping cycle, for
the loop starts a cycle after each sleep and the thread runs to its end; nothing is
assumed of readings arriving or of failures. `RowLocks`: an event loop gives each
ready task its turn in order and the database queues those that wait for a row, so
a session that can resume or write again and again will do so, even if others come
in between: strong fairness of `Begin(Cycle)`, `Resume` and `Write`. Weak fairness
of the code up to an await, of `Commit`, and of the database finding some victim
of a deadlock, `deadlock_timeout` after it arose. Nothing is assumed of scans
beginning, of failures or of restarts; the sessions of the database have no
`lock_timeout` or `statement_timeout`, as the code configures none (a server
that sets one would turn the standstill of finding 4 into a rollback). `Probing`:
weak fairness of `Answer(c)` for each column, for a request is answered or given up,
of the return of the GET and of the walks, and of `Commit`. The agent is assumed to
answer the row after the one asked: if it repeats an answer, nothing in
`walk_column` ends the walk. Nothing is assumed of rows that come and go, of
lost answers or of failures. `Discovery` has safety only.

## 4. Findings

1. **One bad value stops all polling** (`polling_poisoned`). The ping results of
   all due devices and the readings are in one transaction; `float()` in
   `_build_history` raises and rolls everything back. The devices stay due, so the
   next tick does the same. `run_forever`'s docstring promises the opposite.
2. **Trends of the oldest hour are overwritten by its rest** (`housekeeping_straddle`).
   The cutoff is not cut to the hour, and the next aggregation of the partly
   deleted hour replaces the trend of the whole hour.
3. **Housekeeping stops for good above a number of series** (`housekeeping_bind`).
   All retained buckets go into one INSERT; above 65535 parameters it is refused in
   every cycle and the rollback also prevents the deletion.
4. **A scan through the API can stop the process** (`rowlocks_api`). `POST
   /devices/scan` and the collection cycle share an event loop. When the scan
   flushes a row that the cycle has flushed and not committed, it waits in a
   synchronous call; the loop is blocked, the cycle cannot resume to commit, and the
   database sees one transaction waiting for an idle one, which is no deadlock. It
   needs only a device that is due while a scan finds it. The same scan as a
   process of its own (`rowlocks_processes`) does no harm.
5. **Every ping sweep saves its devices again** (`discovery_sweep`). Without MAC a
   device is matched by address *and subnet row*, and each scan saves a subnet row of
   its own: the match that `upsert_many` and `models/device.py` describe cannot
   succeed. In a container, where ARP hears nothing, each scan adds one more row for every
   device that answers.
6. **A chart may have a point too many.** No counterexample but a property that holds
   (`CeilingIsPassedByOne`, run `housekeeping_liveness`, theorem `Ceiling`). The source
   calls `MAX_POINTS` the ceiling of points per series whatever the range ("Teto de pontos
   devolvidos por série, qualquer que seja o range pedido",
   `etl/device_metrics_etl.py:11`); `resample` counts its bins from midnight, so that a
   window which begins inside a bin touches one bin more, 201 at 24 hours, and with
   readings in all of them the chart has as many points. It is never more than one.

## 5. Proofs

Every invariant and every action property that a passing run checks is also proved,
for all values of the constants; what is left to TLC is said at the end.

All proofs are checked to the last leaf, without further axioms. The assumptions
are those on the constants: `BackoffAssumption`, `BoundsAssumption`
(`Polling`), `HousekeepingAssumption`, `RowLocksAssumption`, `DiscoveryAssumption`,
`ProbingAssumption`, `RangesAssumption` (`AvailabilityEtl`) and `SeriesAssumption`
(`MetricsEtl`); TLC evaluates them in each run. `PowerAssumption` (`Polling`) restricts
nothing: it states the two equations that define `^`, as far as they are needed,
because the provers do not know the operator.

- `AvailabilityLog`: `Promise`. The invariant `Inv` (one open event, the last, that
  tells the status; contiguous and alternating) is inductive as it stands.
- `PollingProofs`:
  - `TypeCorrect`: the type invariant is inductive.
  - `Safety`: `OpenEventIsStatus /\ SessionIsCurrent`. `OpenEventIsStatus` alone
    says nothing of the events a session is about to commit; it becomes inductive
    with `SessionIsCurrent`, which says that committing a session that has applied
    its pings equals applying those pings, at one past instant, to the rows and
    events *as committed now*. `IInv` adds that unregistered devices have never been
    polled and that no event is in the future.
  - `Refinement`: each step of `Polling` is a step of `AvailabilityLog` or a
    stutter: `SessionIsCurrent` turns `Commit` into one `Changes` step at the instant
    of the pings, every other action leaves status and events alone.
  - `NoGapNoOverlap`: `TimelinesAreContiguous`, by `Refinement` and `Promise`, with
    no further induction over the detailed model.
  - `Schedule` and `Atomicity`: the action properties `PolledWhenDue` and
    `CycleIsAtomic`, from `IInv` and what `Commit` applies.
  - `KeepsRegistry` (`ImplementsRegistry`): each step is one of `DeviceRegistry` or
    leaves the rows alone. `Commit` writes the columns of a poll to rows as they are
    committed now, so that identities stay and a status never returns to UNKNOWN.
    `Identity` (`IdentityIsKept`) is a corollary, and no run checks it besides.
  - `Samples`: `SamplesWhileOnline`. A commit may close the online period into which
    older samples fall. It closes it at the instant of the pings, and these
    samples were committed before (`SamplesAreTimely`); the samples it adds fall
    into the open period it commits with them.
  - `Backoff`: `BackoffDoublesOrResets`. What a poll makes of a row is stated in terms of
    the interval before it, and the code computes it from the number of failures:
    the two agree because the interval of a row is always that of its number of
    failures (`IntervalFollowsFailures`), also where counter or interval is cut.
  - `StartsInOrder`: no two events of a device start together (`StartsIncrease`),
    although only the end of an event is compared with its start when it is
    written: a poll is due at least one interval after the last. What the queries
    of the API order by `started_at` is thus in the order of insertion.
- `AvailabilityEtlProofs`, from `StartsIncrease` and `NoGapNoOverlap`:
  - `OpenFirst` (`OpenEventComesFirst`): no event starts after the last.
  - `SummaryExact` (`SummaryIsExact`): the duration of each event listed is the number of
    its instants in the window (`DurationIsCardinality`), the instants of two events are
    disjoint (`EventsAreDisjoint`), so the sum is the number of instants of the union
    (`DurationsAddUp`), which are those at which the log has the status; the events
    the query leaves out have none. For the MTTR, the outages that ended are one to
    one with the recoveries (`RepairsAreRecoveries`).
  - `MeanOfAll` (`MeanCountsEveryPolledDevice`): every polled device has an open event, so
    it is listed in every window, and its seconds are those of `SummaryExact`.
  - `DashboardAgrees` (`DashboardCountsAgree`): the one commit that may fall between the
    two statements.
  - That a sum over a set adds up needs induction over sets. It is done by minimal
    counterexample: among the finite sets for which a sum is wrong there would be
    a smallest, and taking one element away gives a smaller (`TakeOneAway`,
    `SumIsCardinality`).
- `HousekeepingProofs`: `ClosedHours` (`TypeOK /\ OnlyClosedHours`) and
  `NothingDeletedUncounted` (`DeletedAreCounted`). The reason the DELETE loses
  nothing, though it sees more rows than the GROUP BY, is time: what is committed in
  between is at most `WriteDelay` old and the retention is at least that long
  (`PendingIsRecent`), and the closed-hour boundary is after the cutoff as the
  retention is at least an hour (`SessionIsSound`). `PublishedBucketsStay`
  (`BucketsStay`): a commit replaces trends bucket by bucket. `OldestGoFirst`
  (`DeletedIsOldest`): what a session deletes is all that is too old, readings still to
  be committed included, since those are recent (`SessionIsThorough`).
- `MetricsEtlProofs`: `Complete` (`SeriesIsComplete`) and `Ceiling` (`CeilingIsPassedByOne`). A
  chart takes trends from before its first raw reading on; that nothing falls
  between the two, though rows may move from one table to the other between the
  two statements, is `DeletedIsOldest`: what has left `metric_history` is older than
  what is there, and its trend stays (`BucketsStay`). For the points, a
  window as long as `MaxPoints` bins ends that many bins after it begins, wherever that
  is (`LastBinOfWindow`), and a chart has points in bins of its window only (`PointsAreBins`).
- `RowLocksProofs`: `HoldersGoOn` (`HoldersNeedNoOther`): who holds rows across an await
  needs no row of another session to end. It becomes inductive with three facts: no
  row is locked by two transactions (`RowsAreExclusive`), what is left to write after
  the SNMP requests is locked already (`LastWritesAreLocked`), and the awaits before
  that hold nothing (`FirstAwaitsLockNothing`). Sessions do wait elsewhere, with rows
  just flushed: the cycle between two ping results, a scan in its first flush, and a
  scan of all known devices after its probes; there the database may have to end one
  of them. The theorem is why the runs find no standstill between processes. It says
  nothing of the event loop, which is where finding 4 breaks it.
- `DiscoveryProofs`: `OneHostOneRow` (`OneRowPerMac`) and `GrowsOnly` (`RegistryGrows`).
  Between the flush that passes the unique constraint and the commit, others may
  flush and commit too: what makes `OneRowPerMac` inductive is that a MAC which a
  flushed session will insert is of no committed row and of no other flushed session
  (`FlushedMacsAreNew`). `RegistryGrows` needs that a session only adds to what it has
  read (`SessionsOnlyAdd`); since an UPDATE names only the columns that differ from
  the row *as read*, it only adds to the row as committed, too (`WrittenUpdate`). That
  inserted rows collide with none is `IdsAreFresh`, a property of sequences.
  `OneRowPerAddress` (`AddressesAreUnique`), `AllRegistered` (`CommitRegistersAll`) and
  `OwnIdentity` (`IdentityIsOwn`) rest on `RegistryInv`: a scan commits under a number no
  row bears yet (`NumbersAreOwn`), and a session that has matched its answers has a
  row for each, with its MAC and at its address (`Matching`); the row it commits for a
  MAC is the only one with it, in the subnet of the scan, at an address its host holds. The last part of
  `Matching` is the one the code does not show: a row may be moved by another scan
  after this one has read it, but only to where its host is now, so that an UPDATE
  that leaves the address out, because it equals the one read, still commits the
  row at an address of its host.
  `KeepsRegistry` (`ImplementsRegistry`) is the counterpart of the theorem of that name in
  `PollingProofs`. Rows committed before keep their status by `WrittenUpdate`; rows
  added have not been polled (`NewRowsAreDue`), since only their session has them.
- `ProbingProofs`: `RowsAreNotMixed` (`ReadingsAreOfTheirRow`) and `CatalogueIsAsked`
  (`GetAsksTheCatalogue`). All columns record a value under the index the agent gives
  its row, and the numbering stays during the walks (`WalksAreOfTheAgent`): so an
  index is of one row in all columns, whichever answers are missing (`SameRow`). The
  GET asks for the catalogue because what a start has seeded stays
  (`CatalogueIsSeeded`) and no key of the catalogue is dynamic.

  `ReadsComplete` (`UndisturbedIsComplete`): while nothing disturbs them, each walk has
  exactly the rows up to its last answer (`WalksLoseNothing`), whatever the others
  have; GETNEXT answers the least row beyond (`NextRow`), so a walk that ends has all
  (`AllRead`), and from columns that have all rows the code makes the readings of the
  table, none missing and none twice (`ReadingsOfTable`, a lemma for each table).

Only model-checked: liveness, which is beyond the prover (`DueIsPolled`,
`ClosedHoursAreCounted`, `OldRowsGo`, `CyclesGoOn`, `ScansEnd`, `CyclesEnd`): it needs
`ENABLED` and temporal reasoning over fairness. Findings 1 to 5 are counterexamples
found by TLC.

## 6. Not modelled, and the plan

Not modelled:

- of the ETL, the formatting of values and the mean within a bin of a chart: they lose
  no state, and no property here is about them;
- of the metric definitions, name, unit and value type. They are fixed by the first
  sighting of a key, and by the release of the services besides;
- of the API, lookups by id, lists and serialisation, which read one statement and
  compute nothing; the diagnostic ping sweep, which writes nothing;
- of the processes, the housekeeping thread that outlives its task at shutdown, and
  the engine disposed under it: what happens then is the driver's affair;
- packets, timeouts as lengths, vendor lookup, communities;
- configuration, `create_all`, logging, the choice of the database engine (SQLite lacks
  `date_trunc`, so that housekeeping cannot run on it);
- the frontend: a view and a query cache over the API.

Planned: an agent that starts anew amid the walks, and two labels with one slug, which
need a finer key in `Probing`.
