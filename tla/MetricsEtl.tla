----------------------------- MODULE MetricsEtl -----------------------------
(***************************************************************************)
(* etl/device_metrics_etl.py: the series of a chart, from the raw readings *)
(* and the trends that Housekeeping keeps.  build_series reads the two     *)
(* tables in two statements, and a housekeeping or a collection cycle may  *)
(* commit in between (READ COMMITTED): a series is therefore computed from *)
(* a step, raw readings before it and trends after it.                     *)
(*                                                                         *)
(* A point is its instant; the mean of the values that fall into one bin   *)
(* of the chart is left out.                                               *)
(***************************************************************************)
EXTENDS Housekeeping, FiniteSetsExt

CONSTANTS
    Ranges,     \* range_hours asked for, in ticks
    MaxPoints,  \* MAX_POINTS
    MinWidth    \* the 60 seconds of _resample_rule, in ticks

\* An hour has 3600 seconds, a multiple of the 200 points: a bin that is not
\* at its minimum divides the window.
ASSUME SeriesAssumption ==
    /\ MaxPoints \in Nat \ {0}
    /\ MinWidth \in Nat \ {0}
    /\ \A range \in Ranges :
          range \in Nat \ {0} /\ (range % MaxPoints = 0 \/ range < MaxPoints * MinWidth)

\* The two list_by_device_and_metric_since, of the raw readings and of trends.
list_raw_since(series, since) == {r \in raw : r.series = series /\ r.at >= since}

list_trends_since(readings, series, since) ==
    {start \in {Trunc(r.at) : r \in {q \in readings : q.series = series}} : start >= since}

raw_points(series, since) == {r.at : r \in {q \in list_raw_since(series, since) : IsNumeric(q)}}

\* Trends complement the raw points: only buckets that begin before them.
trend_points(readings, series, since, raw_instants) ==
    {t \in list_trends_since(readings, series, since) :
        raw_instants = {} \/ t < Min(raw_instants)}

\* Mutant: the trends are read first, and the raw readings after the step.
combined_trends_first(series, range) ==
    LET since == clock - range
        raw_instants == {r.at : r \in {q \in raw' : /\ q.series = series
                                                    /\ q.at >= since
                                                    /\ IsNumeric(q)}}
    IN  raw_instants \cup trend_points(trends, series, since, raw_instants)

combined(series, range) ==
    LET since == clock - range
        raw_instants == raw_points(series, since)
    IN  raw_instants \cup trend_points(trends', series, since, raw_instants)

\* Mutant: a bin is never wider than its minimum.
resample_rule_minimum(range) == MinWidth

resample_rule(range) == Max({MinWidth, range \div MaxPoints})

\* The bin of an instant: bins are counted from midnight, not from the window.
Bin(t, range) == t \div resample_rule(range)

points(series, range) == {Bin(t, range) : t \in combined(series, range)}
-----------------------------------------------------------------------------
\* A chart misses no reading that its two statements are to find: each numeric
\* reading of the window that metric_history has before the step, and each that
\* a trend counts of an hour that began in the window, has a point, its own or
\* that of its hour, although housekeeping may commit between the statements and
\* move readings from one table to the other.  The hour in which the window
\* begins is left out once it is only in trends: its bucket_start is too early.
ShownIn(r, chart, range) == Bin(r.at, range) \in chart \/ Bin(Trunc(r.at), range) \in chart

InReach(r, range) == r.at >= clock - range /\ (r \in raw \/ Trunc(r.at) >= clock - range)

SeriesIsComplete ==
    [][\A series \in Numeric, range \in Ranges :
           LET chart == points(series, range)
           IN  \A r \in raw \cup trends :
                   r.series = series /\ InReach(r, range) => ShownIn(r, chart, range)]_vars

\* Each bin the window touches has a raw reading.
FullChart(series, range) ==
    \A b \in Bin(clock - range, range) .. Bin(clock, range) :
        \E t \in raw_points(series, clock - range) : Bin(t, range) = b

\* MAX_POINTS, the "Teto de pontos devolvidos por série", is passed by one point
\* and never by more: a window as long as MAX_POINTS bins touches one bin more,
\* since bins are counted from midnight, and a chart of a window with readings in
\* every bin has them all, whatever housekeeping commits while it is read.
CeilingIsPassedByOne ==
    [][\A series \in Series, range \in Ranges :
           /\ Cardinality(points(series, range)) <= MaxPoints + 1
           /\ range >= MaxPoints * MinWidth /\ FullChart(series, range) =>
                  Cardinality(points(series, range)) = MaxPoints + 1]_vars
=============================================================================
