-------------------------- MODULE AvailabilityEtl --------------------------
(***************************************************************************)
(* etl/availability_etl.py: what the API computes from the events and the  *)
(* rows that the collection loop of Polling commits.  Nothing here changes *)
(* a variable: every operator is a query, answered at the present clock.   *)
(*                                                                         *)
(* Percentages are kept as the seconds they are computed from (the window  *)
(* is the same for all) and means as <<sum, number>>, so that rounding is  *)
(* left out; a mean of nothing is <<0, 0>>.                                *)
(***************************************************************************)
EXTENDS Polling, FiniteSetsExt

CONSTANT Ranges  \* the windows asked for: range_hours, in ticks

ASSUME RangesAssumption == Ranges \subseteq Nat \ {0}

window_start(range) == clock - range

(***************************************************************************)
(* repositories/availability_event_repository.py                           *)
(***************************************************************************)
\* Mutant: an open event has no ended_at to compare with, and is left out.
OverlapsSince_ended(e, since) == ~IsOpen(e) /\ e.ended_at >= since

OverlapsSince(e, since) == IsOpen(e) \/ e.ended_at >= since

list_by_device_since(d, since) ==
    {i \in 1 .. Len(events[d]) : OverlapsSince(events[d][i], since)}

\* Mutant: the oldest come first.
OrderedByStart_ascending(log) ==
    [k \in 1 .. Len(log) |->
        log[CHOOSE i \in 1 .. Len(log) :
                Cardinality({j \in 1 .. Len(log) : log[j].started_at < log[i].started_at}) = k - 1]]

\* ORDER BY started_at DESC: the k-th row has k - 1 rows that started after it
\* (no two rows of a device start together: StartsIncrease).
OrderedByStart(log) ==
    [k \in 1 .. Len(log) |->
        log[CHOOSE i \in 1 .. Len(log) :
                Cardinality({j \in 1 .. Len(log) : log[j].started_at > log[i].started_at}) = k - 1]]

list_by_device(d, limit) == SubSeq(OrderedByStart(events[d]), 1, Min({limit, Len(events[d])}))

(***************************************************************************)
(* etl/availability_etl.py                                                 *)
(***************************************************************************)
\* _events_frame: the part of an event inside the window.
Duration(e, since) ==
    LET end == IF IsOpen(e) THEN clock ELSE Min({e.ended_at, clock})
    IN  Max({0, end - Max({e.started_at, since})})

\* The seconds inside the window of each of the events listed.
Durations(d, listed, range) == [i \in listed |-> Duration(events[d][i], window_start(range))]

in_status(d, status, range) ==
    {i \in list_by_device_since(d, window_start(range)) : events[d][i].status = status}

\* The seconds of the device in a status.
Seconds(d, status, range) == SumFunction(Durations(d, in_status(d, status, range), range))

closed_offline(d, range) == {i \in in_status(d, OFFLINE, range) : ~IsOpen(events[d][i])}

summary(d, range) ==
    [online   |-> Min({Seconds(d, ONLINE, range), range}),
     downtime |-> Seconds(d, OFFLINE, range),
     mttr     |-> << SumFunction(Durations(d, closed_offline(d, range), range)),
                     Cardinality(closed_offline(d, range)) >>]

devices_with_events(range) ==
    {d \in Devices : list_by_device_since(d, window_start(range)) # {}}

\* Mutant: without reindex, a device that was never online drops out of the mean.
Averaged_online(range) ==
    {d \in devices_with_events(range) :
        \E i \in list_by_device_since(d, window_start(range)) : events[d][i].status = ONLINE}

\* The devices over which the dashboard takes the mean.
Averaged(range) == devices_with_events(range)

avg_availability(range) ==
    << SumFunction([d \in Averaged(range) |-> Min({Seconds(d, ONLINE, range), range})]),
       Cardinality(Averaged(range)) >>

\* The first statement of dashboard_summary, and the second.
offline == {d \in registered : device[d].status = OFFLINE}

\* Mutant: outages that are over are counted with the others.
open_problems_all(range) ==
    {d \in Devices : \E i \in list_by_device_since(d, window_start(range)) :
                         events[d][i].status = OFFLINE}

open_problems(range) ==
    {d \in Devices : \E i \in list_by_device_since(d, window_start(range)) :
                         IsOpen(events[d][i]) /\ events[d][i].status = OFFLINE}
-----------------------------------------------------------------------------
\* The instants of the window at which the log says the device had the status.
HadStatus(d, status, t) ==
    \E i \in 1 .. Len(events[d]) :
        /\ events[d][i].status = status
        /\ events[d][i].started_at <= t
        /\ IsOpen(events[d][i]) \/ t < events[d][i].ended_at

Instants(d, status, range) ==
    {t \in window_start(range) .. clock - 1 : HadStatus(d, status, t)}

\* The recoveries in the window, each the start of an online period after an
\* outage, and the instants of the window spent in outages now over.
Recoveries(d, range) ==
    {i \in 2 .. Len(events[d]) :
        events[d][i].status = ONLINE /\ events[d][i].started_at >= window_start(range)}

RepairInstants(d, range) ==
    {t \in Instants(d, OFFLINE, range) : \E u \in t + 1 .. clock : HadStatus(d, ONLINE, u)}

\* Availability, downtime and MTTR are those of the status at every instant of
\* the window: clipping and the filter of the query lose no instant, count none
\* twice, and an outage still open does not enter the MTTR.
SummaryIsExact ==
    \A d \in Devices, range \in Ranges :
        summary(d, range) =
            [online   |-> Cardinality(Instants(d, ONLINE, range)),
             downtime |-> Cardinality(Instants(d, OFFLINE, range)),
             mttr     |-> << Cardinality(RepairInstants(d, range)),
                             Cardinality(Recoveries(d, range)) >>]

\* The mean of the dashboard is over every device ever polled, one that was
\* offline all the time included ("seria ignorado da média" without reindex).
MeanCountsEveryPolledDevice ==
    \A range \in Ranges :
        LET polled == {d \in registered : device[d].status # UNKNOWN}
        IN  avg_availability(range) =
                << SumFunction([d \in polled |-> Cardinality(Instants(d, ONLINE, range))]),
                   Cardinality(polled) >>

\* "o em aberto, se houver, vem sempre primeiro": the API's list of a device
\* begins with its present status, however short it is cut.
OpenEventComesFirst ==
    \A d \in {x \in Devices : device[x].status # UNKNOWN}, limit \in 1 .. 2 :
        /\ IsOpen(Head(list_by_device(d, limit)))
        /\ Head(list_by_device(d, limit)).status = device[d].status

\* dashboard_summary reads devices, then events, and a cycle may commit in
\* between.  A device is offline without an open problem, or the reverse, only
\* if that one commit changed its status.
DashboardCountsAgree ==
    [][\A range \in Ranges :
           LET problems == open_problems(range)'
           IN  \A d \in SymDiff(offline, problems) :
                   device'[d].status # device[d].status]_vars
=============================================================================
