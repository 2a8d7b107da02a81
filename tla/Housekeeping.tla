---------------------------- MODULE Housekeeping ----------------------------
(***************************************************************************)
(* metric_history and metric_trends (composer/                             *)
(* registry_history_housekeeping.py and the two repositories).  The        *)
(* collection cycle stamps readings with the instant it received them and  *)
(* commits them later; a thread of its own aggregates the closed hours of  *)
(* the raw readings into trends and then deletes the readings older than   *)
(* the retention, both in one transaction, while readings keep arriving.   *)
(*                                                                         *)
(* A trend holds the minimum, maximum, mean and count of the readings of   *)
(* one hour of one series.  All four are functions of the set of readings  *)
(* aggregated, so trends is the set of readings counted in some bucket,    *)
(* and the bucket of a reading tells which.                                *)
(***************************************************************************)
EXTENDS Integers, FiniteSets

CONSTANTS
    Series,      \* pairs of a device and a metric
    Numeric,     \* the series with a numeric value: text never becomes a trend
    Hour,        \* ticks of the clock in one hour
    Retention,   \* RAW_RETENTION_DAYS, in ticks
    WriteDelay,  \* bound: ticks from stamping a reading to its commit
    BindLimit,   \* parameters the database accepts in one statement
    MaxTime,     \* bound: last instant of the clock
    MaxFaults    \* bound: exceptions from outside and restarts

ASSUME HousekeepingAssumption ==
    /\ Numeric \subseteq Series
    /\ Hour \in Nat \ {0}
    /\ Retention \in Nat
    /\ WriteDelay \in Nat
    /\ Hour <= Retention
    /\ WriteDelay <= Retention
    /\ BindLimit \in Nat
    /\ MaxTime \in Nat
    /\ MaxFaults \in Nat

Time == 0 .. MaxTime

Reading == [series : Series, at : Time]

VARIABLES
    clock,     \* datetime.now(UTC)
    pending,   \* readings flushed by the open session of a collection cycle
    raw,       \* committed rows of metric_history
    trends,    \* readings counted in the committed rows of metric_trends
    pc,        \* where the housekeeping thread is
    now,       \* the instant its cycle began
    upserted,  \* readings counted by the upsert of its open session
    deleted,   \* readings its open session deleted
    faults     \* exceptions from outside and restarts so far

vars == <<clock, pending, raw, trends, pc, now, upserted, deleted, faults>>

-----------------------------------------------------------------------------
\* date_trunc("hour", t), now.replace(minute=0, ...)
Trunc(t) == t - (t % Hour)

Bucket(r) == <<r.series, Trunc(r.at)>>

Buckets(readings) == {Bucket(r) : r \in readings}

IsNumeric(r) == r.series \in Numeric

\* Mutant: the hour that has not ended yet is aggregated too.
closed_hour_boundary_now == now

closed_hour_boundary == Trunc(now)

retention_cutoff == now - Retention

Init ==
    /\ clock = 0
    /\ pending = {}
    /\ raw = {}
    /\ trends = {}
    /\ pc = "sleeping"
    /\ now = 0
    /\ upserted = {}
    /\ deleted = {}
    /\ faults = 0

keeper == <<pc, now, upserted, deleted>>

\* Time passes, but a collection cycle ends within WriteDelay.
Tick ==
    /\ clock < MaxTime
    /\ \A r \in pending : clock - r.at < WriteDelay
    /\ clock' = clock + 1
    /\ UNCHANGED <<pending, raw, trends, keeper, faults>>

-----------------------------------------------------------------------------
(***************************************************************************)
(* The collection cycle, as far as metric_history is concerned.            *)
(***************************************************************************)
\* The readings of some series arrive, are stamped and flushed.  A cycle does
\* this once for the catalogue and once for the walks.
SaveReadings(s) ==
    /\ \A r \in pending : r.series \notin s
    /\ pending' = pending \cup {[series |-> x, at |-> clock] : x \in s}
    /\ UNCHANGED <<clock, raw, trends, keeper, faults>>

CommitReadings ==
    /\ pending # {}
    /\ raw' = raw \cup pending
    /\ pending' = {}
    /\ UNCHANGED <<clock, trends, keeper, faults>>

RollbackReadings ==
    /\ pending # {}
    /\ faults < MaxFaults
    /\ faults' = faults + 1
    /\ pending' = {}
    /\ UNCHANGED <<clock, raw, trends, keeper>>

-----------------------------------------------------------------------------
(***************************************************************************)
(* run_housekeeping_cycle.                                                 *)
(***************************************************************************)
BeginCycle ==
    /\ pc = "sleeping"
    /\ pc' = "aggregating"
    /\ now' = clock
    /\ UNCHANGED <<clock, pending, raw, trends, upserted, deleted, faults>>

\* Mutant: only the hour that has just closed is aggregated.
Aggregated_last_hour ==
    {r \in raw : /\ IsNumeric(r)
                 /\ r.at < closed_hour_boundary
                 /\ r.at >= closed_hour_boundary - Hour}

\* The rows the GROUP BY reads: committed, numeric, before the open hour.
Aggregated == {r \in raw : IsNumeric(r) /\ r.at < closed_hour_boundary}

\* One INSERT binds seven parameters for each bucket.
ParametersPerRow == 7

FitsStatement(readings) == ParametersPerRow * Cardinality(Buckets(readings)) <= BindLimit

upsert_hourly_aggregates ==
    /\ pc = "aggregating"
    /\ FitsStatement(Aggregated)
    /\ upserted' = Aggregated
    /\ pc' = "deleting"
    /\ UNCHANGED <<clock, pending, raw, trends, now, deleted, faults>>

\* Mutant: the retention is forgotten.
OldRows_all == {r \in raw : r.at < now}

\* The rows the DELETE sees when it runs, which is after the GROUP BY.
OldRows == {r \in raw : r.at < retention_cutoff}

delete_older_than ==
    /\ pc = "deleting"
    /\ deleted' = OldRows
    /\ pc' = "committing"
    /\ UNCHANGED <<clock, pending, raw, trends, now, upserted, faults>>

\* Mutant: the session is not closed.
EndCycle_keeps_session == pc' = "sleeping" /\ now' = 0 /\ UNCHANGED <<upserted, deleted>>

EndCycle ==
    /\ pc' = "sleeping"
    /\ now' = 0
    /\ upserted' = {}
    /\ deleted' = {}

\* Mutant: the table is rewritten with the new aggregates.
Replaced_by(old, new) == new

\* ON CONFLICT DO UPDATE: a bucket aggregated again holds the new aggregate.
Replaced(old, new) == {r \in old : Bucket(r) \notin Buckets(new)} \cup new

Commit ==
    /\ pc = "committing"
    /\ trends' = Replaced(trends, upserted)
    /\ raw' = raw \ deleted
    /\ EndCycle
    /\ UNCHANGED <<clock, pending, faults>>

\* The driver refuses the statement: the cycle is rolled back and tried again.
StatementTooLarge ==
    /\ pc = "aggregating"
    /\ ~FitsStatement(Aggregated)
    /\ EndCycle
    /\ UNCHANGED <<clock, pending, raw, trends, faults>>

\* Mutant: an exception ends the task.
CycleFails_ends_task ==
    /\ pc # "sleeping"
    /\ faults < MaxFaults
    /\ faults' = faults + 1
    /\ pc' = "ended"
    /\ UNCHANGED <<clock, pending, raw, trends, now, upserted, deleted>>

\* Any other exception, or the process stops and starts again.
CycleFails ==
    /\ pc # "sleeping"
    /\ faults < MaxFaults
    /\ faults' = faults + 1
    /\ EndCycle
    /\ UNCHANGED <<clock, pending, raw, trends>>

Next ==
    \/ Tick
    \/ \E s \in SUBSET Series \ {{}} : SaveReadings(s)
    \/ CommitReadings
    \/ RollbackReadings
    \/ BeginCycle
    \/ upsert_hourly_aggregates
    \/ delete_older_than
    \/ Commit
    \/ StatementTooLarge
    \/ CycleFails

(***************************************************************************)
(* run_forever starts a cycle after each sleep and the thread runs to its  *)
(* end.  Time goes on, and a collection cycle ends.  Nothing is assumed of *)
(* the arrival of readings, nor of faults.                                 *)
(***************************************************************************)
Fairness ==
    /\ WF_vars(Tick)
    /\ WF_vars(CommitReadings)
    /\ WF_vars(BeginCycle)
    /\ WF_vars(upsert_hourly_aggregates \/ StatementTooLarge)
    /\ WF_vars(delete_older_than)
    /\ WF_vars(Commit)

Spec == Init /\ [][Next]_vars

FairSpec == Spec /\ Fairness
-----------------------------------------------------------------------------
\* Every variable keeps to its domain; the session exists only in a cycle.
TypeOK ==
    /\ clock \in Time
    /\ pending \subseteq Reading
    /\ raw \subseteq Reading
    /\ trends \subseteq Reading
    /\ pc \in {"sleeping", "aggregating", "deleting", "committing"}
    /\ now \in Time
    /\ upserted \subseteq Reading
    /\ deleted \subseteq Reading
    /\ pc = "sleeping" => upserted = {} /\ deleted = {}
    /\ faults \in 0 .. MaxFaults

\* A trend counts closed hours only: an hour that may still receive readings
\* is not published, even by a cycle that began in an earlier hour.
OnlyClosedHours == \A r \in trends : IsNumeric(r) /\ r.at < Trunc(clock)

\* No reading is older than WriteDelay when it is committed.
PendingIsRecent == \A r \in pending : r.at <= clock /\ clock - r.at <= WriteDelay

\* What the open session of the thread has counted and deleted.
SessionIsSound ==
    /\ now <= clock
    /\ \A r \in upserted : IsNumeric(r) /\ r.at < Trunc(now)
    /\ deleted \subseteq raw
    /\ \A r \in deleted : r.at < now - Retention
    /\ pc \in {"deleting", "committing"} =>
          \A r \in raw : IsNumeric(r) /\ r.at < now - Retention => r \in upserted

\* metric_history loses its oldest readings first: a counted reading that has
\* left it is older than all that are there and all that may still arrive.  So
\* trends and raw readings meet without a gap, wherever a chart changes over.
DeletedIsOldest == \A r \in trends \ raw : \A q \in raw \cup pending : r.at < q.at

\* The inductive invariant of the safety proofs.
IInv == TypeOK /\ PendingIsRecent /\ SessionIsSound /\ OnlyClosedHours

\* What the open session counted is still stored, what it deletes is all that
\* is too old, readings not yet committed included; and no reading is of the
\* future.
SessionIsThorough ==
    /\ upserted \subseteq raw
    /\ pc = "committing" =>
          \A q \in raw \cup pending : q.at < now - Retention => q \in deleted
    /\ \A q \in raw : q.at <= clock

\* A numeric reading leaves metric_history only in the transaction whose
\* trend counts it, although the DELETE runs after the GROUP BY and sees what
\* was committed in between.
DeletesOnlyCounted == \A r \in raw \ raw' : IsNumeric(r) => r \in trends'

DeletedAreCounted == [][DeletesOnlyCounted]_vars

\* A bucket once in metric_trends stays: it is replaced, never lost.
BucketsStay == [][Buckets(trends) \subseteq Buckets(trends')]_vars

\* A reading of an hour that has closed is eventually counted, even one that
\* was committed after its hour had been aggregated.
ClosedHoursAreCounted ==
    \A r \in [series : Numeric, at : Time] :
        (r \in raw /\ r.at < Trunc(clock)) ~> (r \in trends)

\* Readings past the retention are eventually deleted: metric_history does not
\* grow without limit.
OldRowsGo ==
    \A r \in Reading : (r \in raw /\ r.at < clock - Retention) ~> (r \notin raw)

\* Aggregating again recalculates a bucket from the same readings and newer
\* ones: it never forgets a reading it had counted.
TrendsNeverShrink == [][trends \subseteq trends']_vars
=============================================================================
