----------------------- MODULE AvailabilityEtlProofs -----------------------
(***************************************************************************)
(* Theorems about what the API answers from the events and the rows that   *)
(* the collection loop commits, for every set of devices and every window. *)
(***************************************************************************)
EXTENDS AvailabilityEtl, PollingProofs, FiniteSetTheorems, WellFoundedInduction

-----------------------------------------------------------------------------
(***************************************************************************)
(* ORDER BY started_at DESC.                                               *)
(***************************************************************************)
\* Of events that started one after the other, the first row is the last.
LEMMA LastComesFirst ==
    ASSUME NEW log \in Seq(Event), log # <<>>,
           \A i \in 1 .. Len(log) : \A j \in 1 .. i - 1 : log[j].started_at < log[i].started_at
    PROVE  /\ Len(OrderedByStart(log)) = Len(log)
           /\ OrderedByStart(log)[1] = log[Len(log)]
<1> DEFINE n == Len(log)
           after(i) == {j \in 1 .. n : log[j].started_at > log[i].started_at}
<1>1. n \in Nat \ {0} /\ \A i \in 1 .. n : log[i].started_at \in Int
  BY StartIsInt
<1>2. after(n) = {}
  BY <1>1
<1>3. Cardinality(after(n)) = 0
  BY <1>2, FS_EmptySet
<1>4. ASSUME NEW i \in 1 .. n, i # n PROVE Cardinality(after(i)) # 0
  <2>1. n \in after(i)
    BY <1>1, <1>4
  <2>2. IsFiniteSet(after(i))
    <3>1. after(i) \in SUBSET (1 .. n) /\ IsFiniteSet(1 .. n)
      BY <1>1, FS_Interval
    <3> HIDE DEF after
    <3> QED
      BY <3>1, FS_Subset
  <2> HIDE DEF after
  <2> QED
    BY <2>1, <2>2, FS_EmptySet
<1> DEFINE first == CHOOSE i \in 1 .. n : Cardinality(after(i)) = 1 - 1
<1> HIDE DEF after
<1>5. first = n
  BY <1>1, <1>3, <1>4
<1>6. OrderedByStart(log) = [k \in 1 .. n |-> log[CHOOSE i \in 1 .. n : Cardinality(after(i)) = k - 1]]
  BY DEF OrderedByStart, after
<1>7. OrderedByStart(log)[1] = log[first]
  BY <1>1, <1>6
<1>8. Len(OrderedByStart(log)) = n
  BY <1>1, <1>6
<1> QED
  BY <1>5, <1>7, <1>8

\* The open event of a device comes first in the list of its events, however
\* short the list is cut: it is the last inserted, and events are inserted in
\* the order of their starts.
THEOREM OpenFirst == Spec => []OpenEventComesFirst
<1>1. ASSUME IInv, StartsIncrease PROVE OpenEventComesFirst
  <2> SUFFICES ASSUME NEW d \in Devices, device[d].status # UNKNOWN, NEW limit \in 1 .. 2
               PROVE  /\ IsOpen(Head(list_by_device(d, limit)))
                      /\ Head(list_by_device(d, limit)).status = device[d].status
    BY DEF OpenEventComesFirst
  <2> DEFINE log == events[d]
             listed == OrderedByStart(log)
             shown == Min({limit, Len(log)})
  <2>1. log \in Seq(Event) /\ Logged(log, device[d].status)
    BY <1>1 DEF IInv, TypeOK, OpenEventIsStatus
  <2>2. log # <<>> /\ IsOpen(log[Len(log)]) /\ log[Len(log)].status = device[d].status
    BY <2>1 DEF Logged, OpenEvents
  <2>3. Len(listed) = Len(log) /\ listed[1] = log[Len(log)]
    BY <1>1, <2>1, <2>2, LastComesFirst DEF StartsIncrease
  <2>4. Len(log) \in Nat \ {0}
    BY <2>1, <2>2
  <2>5. shown \in 1 .. Len(log)
    BY <2>4 DEF Min
  <2>6. list_by_device(d, limit) = SubSeq(listed, 1, shown)
    BY DEF list_by_device
  <2> HIDE DEF listed, shown
  <2>7. Head(SubSeq(listed, 1, shown)) = listed[1]
    BY <2>5
  <2> QED
    BY <2>2, <2>3, <2>6, <2>7
<1>2. Init => IInv /\ StartsIncrease
  BY InitIInv DEF Init, StartsIncrease
<1>3. IInv /\ StartsIncrease /\ [Next]_vars => IInv' /\ StartsIncrease'
  BY NextIInv, NextStarts
<1> QED
  BY <1>1, <1>2, <1>3, PTL DEF Spec

-----------------------------------------------------------------------------
(***************************************************************************)
(* dashboard_summary.                                                      *)
(***************************************************************************)
\* A device is listed with an open problem exactly if its status is OFFLINE.
LEMMA OpenProblemIsOffline ==
    IInv => \A range \in Ranges : open_problems(range) = {d \in Devices : device[d].status = OFFLINE}
<1> SUFFICES ASSUME IInv, NEW range \in Ranges, NEW d \in Devices
             PROVE  (\E i \in list_by_device_since(d, window_start(range)) :
                        IsOpen(events[d][i]) /\ events[d][i].status = OFFLINE)
                      <=> device[d].status = OFFLINE
  BY DEF open_problems
<1>1. events[d] \in Seq(Event) /\ Logged(events[d], device[d].status)
  BY DEF IInv, TypeOK, OpenEventIsStatus
<1>2. CASE device[d].status = UNKNOWN
  BY <1>1, <1>2 DEF Logged, list_by_device_since, UNKNOWN, OFFLINE
<1>3. CASE device[d].status # UNKNOWN
  <2>1. \A i \in 1 .. Len(events[d]) : IsOpen(events[d][i]) <=> i = Len(events[d])
    BY <1>1, <1>3 DEF Logged, OpenEvents
  <2>2. Len(events[d]) \in 1 .. Len(events[d])
    BY <1>1, <1>3 DEF Logged
  <2>3. events[d][Len(events[d])].status = device[d].status
    BY <1>1, <1>3 DEF Logged
  <2> QED
    BY <2>1, <2>2, <2>3 DEF list_by_device_since, OverlapsSince
<1> QED
  BY <1>2, <1>3

\* Two statements of the dashboard that a commit separates disagree about a
\* device only if that commit changed its status.
THEOREM DashboardAgrees == Spec => DashboardCountsAgree
<1>1. Init => IInv
  BY InitIInv
<1>2. IInv /\ [Next]_vars => IInv'
  BY NextIInv
<1> DEFINE agree == \A range \in Ranges :
                      open_problems(range) = {d \in Devices : device[d].status = OFFLINE}
<1>3. IInv' => agree'
  BY OpenProblemIsOffline, PTL
<1>4. ASSUME IInv, IInv', NEW range \in Ranges, NEW d \in SymDiff(offline, open_problems(range)')
      PROVE  device'[d].status # device[d].status
  <2>1. open_problems(range)' = {e \in Devices : device'[e].status = OFFLINE}
    BY <1>3, <1>4
  <2>2. offline = {e \in Devices : device[e].status = OFFLINE}
    BY <1>4 DEF offline, IInv, TypeOK, NothingUnregistered, UNKNOWN, OFFLINE
  <2> QED
    BY <1>4, <2>1, <2>2 DEF SymDiff
<1>5. IInv /\ [Next]_vars =>
        [\A range \in Ranges :
           LET problems == open_problems(range)'
           IN  \A d \in SymDiff(offline, problems) :
                   device'[d].status # device[d].status]_vars
  BY <1>2, <1>4
<1> QED
  BY <1>1, <1>2, <1>5, PTL DEF Spec, DashboardCountsAgree

-----------------------------------------------------------------------------
(***************************************************************************)
(* Sums.  The provers cannot instantiate an induction theorem with an      *)
(* operator, so the induction over the domain is by a smallest             *)
(* counterexample, and the recursive function is matched with an explicit  *)
(* solution of its equation.                                               *)
(***************************************************************************)
\* The equation that defines SumFunction, over the subsets of the domain.
Adds(f, h) == h = [s \in SUBSET DOMAIN f |->
                     IF s = {} THEN 0
                     ELSE LET x == CHOOSE x \in s : TRUE IN f[x] + h[s \ {x}]]

\* SumFunction is what a function that satisfies its equation has at the whole
\* domain, provided that there is one.
LEMMA SumUnfolds ==
    ASSUME NEW f, NEW g, Adds(f, g)
    PROVE  \E h : SumFunction(f) = h[DOMAIN f] /\ Adds(f, h)
<1> DEFINE h == CHOOSE h : Adds(f, h)
<1>1. SumFunction(f) = h[DOMAIN f]
  BY DEF SumFunction, SumFunctionOnSet, FoldFunctionOnSet, MapThenFoldSet, Adds
<1>2. Adds(f, h)
  OBVIOUS
<1> QED
  BY <1>1, <1>2

\* Over a finite domain the equation has one solution: a smallest subset at
\* which two of them differ would have no element to take away.
LEMMA AddsOnce ==
    ASSUME NEW f, IsFiniteSet(DOMAIN f), NEW g, NEW h, Adds(f, g), Adds(f, h)
    PROVE  g = h
<1> DEFINE D == DOMAIN f
           bad == {s \in SUBSET D : g[s] # h[s]}
<1>1. /\ IsWellFoundedOn(StrictSubsetOrdering(D), FiniteSubsetsOf(D))
      /\ FiniteSubsetsOf(D) = SUBSET D
  BY FS_StrictSubsetOrderingWellFounded, FS_FiniteSubsetsOfFinite
<1>2. ASSUME bad # {} PROVE FALSE
  <2>1. bad \subseteq FiniteSubsetsOf(D)
    BY <1>1
  <2>2. \E s \in bad : \A t \in bad : <<t, s>> \notin StrictSubsetOrdering(D)
    <3> HIDE DEF bad
    <3> QED
      BY <1>1, <1>2, <2>1, WFMin
  <2>3. PICK s \in bad : \A t \in bad : <<t, s>> \notin StrictSubsetOrdering(D)
    BY <2>2
  <2>4. s # {}
    BY DEF Adds
  <2> DEFINE x == CHOOSE x \in s : TRUE
             rest == s \ {x}
  <2>5. x \in s /\ rest \in SUBSET D /\ rest # s /\ rest \subseteq s
    BY <2>4
  <2>6. rest \notin bad
    BY <2>3, <2>5 DEF StrictSubsetOrdering
  <2>7. g[s] = f[x] + g[rest] /\ h[s] = f[x] + h[rest]
    BY <2>4 DEF Adds
  <2> QED
    BY <2>5, <2>6, <2>7
<1> QED
  BY <1>2 DEF Adds

\* The size of a union of disjoint finite sets is the size of one of them and
\* that of the union of the others.
LEMMA TakeOneAway ==
    ASSUME NEW D, IsFiniteSet(D), NEW part,
           \A i \in D : IsFiniteSet(part[i]),
           \A i, j \in D : i # j => part[i] \cap part[j] = {},
           NEW x \in D
    PROVE  Cardinality(UNION {part[i] : i \in D})
             = Cardinality(part[x]) + Cardinality(UNION {part[i] : i \in D \ {x}})
<1> DEFINE rest == UNION {part[i] : i \in D \ {x}}
           whole == UNION {part[i] : i \in D}
           parts == {part[i] : i \in D \ {x}}
<1>1. IsFiniteSet(rest)
  <2>1. IsFiniteSet(D \ {x})
    BY FS_Subset
  <2>2. [i \in D \ {x} |-> part[i]] \in Surjection(D \ {x}, parts)
    BY DEF Surjection
  <2>3. IsFiniteSet(parts)
    <3> HIDE DEF parts
    <3> QED
      BY <2>1, <2>2, FS_Surjection
  <2> QED
    BY <2>3, FS_UNION
<1>2. whole = part[x] \cup rest /\ part[x] \cap rest = {}
  OBVIOUS
<1> HIDE DEF whole, rest
<1>3. Cardinality(part[x] \cup rest) = Cardinality(part[x]) + Cardinality(rest) - 0
  BY <1>1, <1>2, FS_Union, FS_EmptySet
<1>4. Cardinality(whole) = Cardinality(part[x]) + Cardinality(rest)
  BY <1>1, <1>2, <1>3, FS_CardinalityType
<1> QED
  BY <1>4 DEF whole, rest

\* The sum of the sizes of disjoint sets is the size of their union.
LEMMA SumIsCardinality ==
    ASSUME NEW f, IsFiniteSet(DOMAIN f), NEW part,
           \A i \in DOMAIN f : IsFiniteSet(part[i]) /\ f[i] = Cardinality(part[i]),
           \A i, j \in DOMAIN f : i # j => part[i] \cap part[j] = {}
    PROVE  SumFunction(f) = Cardinality(UNION {part[i] : i \in DOMAIN f})
<1> DEFINE whole(s) == UNION {part[i] : i \in s}
           g == [s \in SUBSET DOMAIN f |-> Cardinality(whole(s))]
<1>1. ASSUME NEW s \in SUBSET DOMAIN f, NEW x \in s
      PROVE  Cardinality(whole(s)) = f[x] + Cardinality(whole(s \ {x}))
  <2>1. IsFiniteSet(s)
    BY FS_Subset
  <2>2. Cardinality(UNION {part[i] : i \in s})
          = Cardinality(part[x]) + Cardinality(UNION {part[i] : i \in s \ {x}})
    BY <2>1, TakeOneAway
  <2> QED
    BY <2>2
<1>2. Cardinality(whole({})) = 0
  BY FS_EmptySet
<1>3. Adds(f, g)
  <2> HIDE DEF whole
  <2>1. ASSUME NEW s \in SUBSET DOMAIN f, s # {}
        PROVE  g[s] = f[CHOOSE x \in s : TRUE] + g[s \ {CHOOSE x \in s : TRUE}]
    BY <1>1, <2>1
  <2> QED
    BY <1>2, <2>1 DEF Adds
<1> HIDE DEF g
<1>4. SumFunction(f) = g[DOMAIN f]
  BY <1>3, SumUnfolds, AddsOnce
<1> QED
  BY <1>4 DEF g

-----------------------------------------------------------------------------
(***************************************************************************)
(* The seconds of a status are its instants.                               *)
(***************************************************************************)
\* What the invariants of Polling say of the events of one device.
Orderly(log) ==
    /\ log \in Seq(Event)
    /\ \A i \in 1 .. Len(log) :
          /\ log[i].status \in {ONLINE, OFFLINE}
          /\ log[i].started_at \in Nat
          /\ log[i].started_at <= clock
          /\ i = Len(log) <=> IsOpen(log[i])
          /\ ~IsOpen(log[i]) => /\ log[i].ended_at = log[i + 1].started_at
                                /\ log[i].status # log[i + 1].status
          /\ \A j \in 1 .. i - 1 : log[j].started_at < log[i].started_at

\* The invariants of Polling make the events of every device orderly.
LEMMA EventsAreOrderly ==
    ASSUME IInv, StartsIncrease, TimelinesAreContiguous, NEW d \in Devices
    PROVE  Orderly(events[d])
<1> DEFINE log == events[d]
<1>1. log \in Seq(Event) /\ Logged(log, device[d].status) /\ StartedBy(log, clock) /\ Timeline(log)
  BY DEF IInv, TypeOK, OpenEventIsStatus, NoFutureEvent, TimelinesAreContiguous
<1> SUFFICES ASSUME NEW i \in 1 .. Len(log)
             PROVE  /\ log[i].status \in {ONLINE, OFFLINE}
                    /\ log[i].started_at \in Nat
                    /\ log[i].started_at <= clock
                    /\ i = Len(log) <=> IsOpen(log[i])
                    /\ ~IsOpen(log[i]) => /\ log[i].ended_at = log[i + 1].started_at
                                          /\ log[i].status # log[i + 1].status
                    /\ \A j \in 1 .. i - 1 : log[j].started_at < log[i].started_at
  BY <1>1 DEF Orderly
<1>2. Len(log) \in Nat /\ log # <<>>
  BY <1>1
<1>3. log[i].status \in {ONLINE, OFFLINE} /\ log[i].started_at \in Nat
  <2>1. log[i] \in Event
    BY <1>1
  <2> QED
    BY <2>1, BoundsAssumption DEF Event, Time
<1>4. i = Len(log) <=> IsOpen(log[i])
  BY <1>1, <1>2 DEF Logged, OpenEvents
<1>5. ~IsOpen(log[i]) => i \in 1 .. Len(log) - 1
  BY <1>2, <1>4
<1>6. \A j \in 1 .. i - 1 : log[j].started_at < log[i].started_at
  BY DEF StartsIncrease
<1> QED
  BY <1>1, <1>3, <1>4, <1>5, <1>6 DEF StartedBy, Timeline

\* The greater and the lesser of two numbers.
LEMMA MaxMinOfTwo ==
    ASSUME NEW a \in Int, NEW b \in Int
    PROVE  /\ Max({a, b}) = IF a >= b THEN a ELSE b
           /\ Min({a, b}) = IF a <= b THEN a ELSE b
<1>1. \A x \in {a, b} : (\A y \in {a, b} : x >= y) <=> x = IF a >= b THEN a ELSE b
  OBVIOUS
<1>2. \A x \in {a, b} : (\A y \in {a, b} : x <= y) <=> x = IF a <= b THEN a ELSE b
  OBVIOUS
<1> QED
  BY <1>1, <1>2 DEF Max, Min

\* The instants of a window at which an event was going on.
During(log, i, since) ==
    {t \in since .. clock - 1 :
        log[i].started_at <= t /\ (IsOpen(log[i]) \/ t < log[i].ended_at)}

\* The duration of an event inside a window is the number of its instants there.
LEMMA DurationIsCardinality ==
    ASSUME clock \in Nat, NEW since \in Int, since <= clock,
           NEW log, Orderly(log), NEW i \in 1 .. Len(log)
    PROVE  /\ IsFiniteSet(During(log, i, since))
           /\ Cardinality(During(log, i, since)) = Duration(log[i], since)
<1>1. /\ log[i].started_at \in Nat /\ log[i].started_at <= clock
      /\ ~IsOpen(log[i]) => log[i].ended_at \in Nat /\ log[i].ended_at <= clock
  <2>1. CASE ~IsOpen(log[i])
    <3>1. i + 1 \in 1 .. Len(log)
      BY <2>1 DEF Orderly
    <3> QED
      BY <2>1, <3>1 DEF Orderly
  <2>2. CASE IsOpen(log[i])
    BY <2>2 DEF Orderly
  <2> QED
    BY <2>1, <2>2
<1> DEFINE end == IF IsOpen(log[i]) THEN clock ELSE log[i].ended_at
           begin == IF log[i].started_at >= since THEN log[i].started_at ELSE since
<1>2. end \in Int /\ begin \in Int /\ end <= clock
  BY <1>1
<1>3. During(log, i, since) = begin .. end - 1
  BY <1>1, <1>2 DEF During
<1>4. Duration(log[i], since) = IF 0 >= end - begin THEN 0 ELSE end - begin
  <2>1. Max({log[i].started_at, since}) = begin
    BY <1>1, MaxMinOfTwo
  <2>2. (IF IsOpen(log[i]) THEN clock ELSE Min({log[i].ended_at, clock})) = end
    <3> DEFINE ended == log[i].ended_at
    <3> HIDE DEF ended
    <3>1. ASSUME ~IsOpen(log[i]) PROVE Min({ended, clock}) = ended
      <4>1. ended \in Int /\ ended <= clock
        BY <1>1, <3>1 DEF ended
      <4> QED
        BY <4>1, MaxMinOfTwo
    <3> QED
      BY <3>1 DEF ended
  <2> HIDE DEF begin, end
  <2>3. Duration(log[i], since) = Max({0, end - begin})
    BY <2>1, <2>2 DEF Duration
  <2> QED
    BY <1>2, <2>3, MaxMinOfTwo
<1> HIDE DEF begin, end
<1>5. end - 1 \in Int
  BY <1>2
<1>6. /\ IsFiniteSet(begin .. end - 1)
      /\ Cardinality(begin .. end - 1) = IF begin > end - 1 THEN 0 ELSE (end - 1) - begin + 1
  BY <1>2, <1>5, FS_Interval
<1> QED
  BY <1>2, <1>3, <1>4, <1>6

\* Two events of a device are never going on at the same instant.
LEMMA EventsAreDisjoint ==
    ASSUME clock \in Nat, NEW since \in Int, NEW log, Orderly(log),
           NEW i \in 1 .. Len(log), NEW j \in 1 .. Len(log), i # j
    PROVE  During(log, i, since) \cap During(log, j, since) = {}
<1>1. ASSUME NEW a \in 1 .. Len(log), NEW b \in 1 .. Len(log), a < b, NEW t \in Int,
             IsOpen(log[a]) \/ t < log[a].ended_at
      PROVE  ~(log[b].started_at <= t)
  <2>1. a # Len(log) /\ a + 1 \in 1 .. b /\ a + 1 \in 1 .. Len(log)
    BY <1>1 DEF Orderly
  <2>2. ~IsOpen(log[a]) /\ log[a].ended_at = log[a + 1].started_at
    BY <1>1, <2>1 DEF Orderly
  <2>3. log[a + 1].started_at <= log[b].started_at
    BY <1>1, <2>1 DEF Orderly
  <2>4. log[a + 1].started_at \in Nat /\ log[b].started_at \in Nat
    BY <1>1, <2>1 DEF Orderly
  <2> QED
    BY <1>1, <2>2, <2>3, <2>4
<1> SUFFICES ASSUME NEW t \in During(log, i, since), t \in During(log, j, since) PROVE FALSE
  OBVIOUS
<1>2. t \in Int /\ log[i].started_at <= t /\ log[j].started_at <= t
      /\ (IsOpen(log[i]) \/ t < log[i].ended_at) /\ (IsOpen(log[j]) \/ t < log[j].ended_at)
  BY DEF During
<1>3. i < j \/ j < i
  OBVIOUS
<1> QED
  BY <1>1, <1>2, <1>3

\* The durations of some events of a device add up to the number of instants of
\* the window at which one of them was going on.
LEMMA DurationsAddUp ==
    ASSUME NEW d \in Devices, Orderly(events[d]), clock \in Nat, NEW range \in Nat,
           NEW listed \in SUBSET (1 .. Len(events[d]))
    PROVE  SumFunction(Durations(d, listed, range))
             = Cardinality({t \in window_start(range) .. clock - 1 :
                              \E i \in listed : t \in During(events[d], i, window_start(range))})
<1> DEFINE log == events[d]
           since == window_start(range)
           part == [i \in listed |-> During(log, i, since)]
           f == Durations(d, listed, range)
           total == {t \in since .. clock - 1 : \E i \in listed : t \in During(log, i, since)}
<1>1. since \in Int /\ since <= clock /\ Len(log) \in Nat
  BY DEF window_start, Orderly
<1>2. IsFiniteSet(listed)
  <2>1. IsFiniteSet(1 .. Len(log))
    BY <1>1, FS_Interval
  <2> QED
    BY <2>1, FS_Subset
<1> HIDE DEF since
<1>3. DOMAIN f = listed /\ \A i \in listed : f[i] = Duration(log[i], since)
  BY DEF Durations, since
<1>4. \A i \in DOMAIN f : IsFiniteSet(part[i]) /\ f[i] = Cardinality(part[i])
  BY <1>1, <1>3, DurationIsCardinality
<1>5. \A i, j \in DOMAIN f : i # j => part[i] \cap part[j] = {}
  BY <1>1, <1>3, EventsAreDisjoint
<1>6. UNION {part[i] : i \in DOMAIN f} = total
  BY <1>3 DEF During
<1> HIDE DEF f, part
<1>7. IsFiniteSet(DOMAIN f)
  BY <1>2, <1>3
<1>8. SumFunction(f) = Cardinality(UNION {part[i] : i \in DOMAIN f})
  BY <1>4, <1>5, <1>7, SumIsCardinality
<1> QED
  BY <1>6, <1>8 DEF f, since, total

\* The seconds in a status are the instants in it: an event that the query does
\* not list was over before the window.
LEMMA SecondsAreInstants ==
    ASSUME NEW d \in Devices, Orderly(events[d]), clock \in Nat, NEW range \in Nat, NEW status
    PROVE  /\ Seconds(d, status, range) = Cardinality(Instants(d, status, range))
           /\ Cardinality(Instants(d, status, range)) \in 0 .. range
<1> DEFINE log == events[d]
           since == window_start(range)
           listed == in_status(d, status, range)
<1>1. since \in Int /\ listed \in SUBSET (1 .. Len(log)) /\ Len(log) \in Nat
  BY DEF window_start, Orderly, in_status, list_by_device_since
<1>2. {t \in since .. clock - 1 : \E i \in listed : t \in During(log, i, since)}
        = Instants(d, status, range)
  <2>1. ASSUME NEW t \in since .. clock - 1
        PROVE  (\E i \in listed : t \in During(log, i, since)) <=> HadStatus(d, status, t)
    <3>1. ASSUME NEW i \in listed, t \in During(log, i, since) PROVE HadStatus(d, status, t)
      BY <1>1, <3>1 DEF During, HadStatus, in_status
    <3>2. ASSUME HadStatus(d, status, t) PROVE \E i \in listed : t \in During(log, i, since)
      <4>1. PICK i \in 1 .. Len(log) : /\ log[i].status = status
                                       /\ log[i].started_at <= t
                                       /\ IsOpen(log[i]) \/ t < log[i].ended_at
        BY <3>2 DEF HadStatus
      <4>2. ~IsOpen(log[i]) => log[i].ended_at \in Nat
        <5>1. ~IsOpen(log[i]) => i + 1 \in 1 .. Len(log)
          BY <1>1 DEF Orderly
        <5> QED
          BY <5>1 DEF Orderly
      <4>3. OverlapsSince(log[i], since)
        BY <1>1, <4>1, <4>2 DEF OverlapsSince
      <4>4. i \in listed
        BY <4>1, <4>3 DEF in_status, list_by_device_since
      <4> QED
        BY <4>1, <4>4 DEF During
    <3> QED
      BY <3>1, <3>2
  <2> QED
    BY <2>1 DEF Instants
<1>3. Seconds(d, status, range) = Cardinality(Instants(d, status, range))
  BY <1>1, <1>2, DurationsAddUp DEF Seconds
<1>4. IsFiniteSet(since .. clock - 1) /\ Cardinality(since .. clock - 1) <= range
  <2>1. since = clock - range
    BY DEF window_start
  <2> HIDE DEF since
  <2>2. /\ IsFiniteSet(since .. clock - 1)
        /\ Cardinality(since .. clock - 1)
             = IF since > clock - 1 THEN 0 ELSE (clock - 1) - since + 1
    BY <1>1, FS_Interval
  <2> QED
    BY <2>1, <2>2
<1>5. Instants(d, status, range) \in SUBSET (since .. clock - 1)
  BY DEF Instants
<1>6. /\ IsFiniteSet(Instants(d, status, range))
      /\ Cardinality(Instants(d, status, range)) <= Cardinality(since .. clock - 1)
  BY <1>4, <1>5, FS_Subset
<1>7. /\ Cardinality(Instants(d, status, range)) \in Nat
      /\ Cardinality(since .. clock - 1) \in Nat
  BY <1>4, <1>6, FS_CardinalityType
<1> QED
  BY <1>3, <1>4, <1>6, <1>7

\* The seconds of the outages that are over are the instants in them: the next
\* event of such an outage is a recovery, and an open outage is the last event.
LEMMA RepairsAreInstants ==
    ASSUME NEW d \in Devices, Orderly(events[d]), clock \in Nat, NEW range \in Nat
    PROVE  SumFunction(Durations(d, closed_offline(d, range), range))
             = Cardinality(RepairInstants(d, range))
<1> DEFINE log == events[d]
           since == window_start(range)
           listed == closed_offline(d, range)
<1>1. since \in Int /\ listed \in SUBSET (1 .. Len(log)) /\ Len(log) \in Nat
  BY DEF window_start, Orderly, closed_offline, in_status, list_by_device_since
<1>2. ASSUME NEW t \in since .. clock - 1, NEW i \in listed, t \in During(log, i, since)
      PROVE  t \in RepairInstants(d, range)
  <2>1. log[i].status = OFFLINE /\ ~IsOpen(log[i]) /\ log[i].started_at <= t /\ t < log[i].ended_at
    BY <1>2 DEF closed_offline, in_status, During
  <2>2. i + 1 \in 1 .. Len(log)
    BY <1>1, <2>1 DEF Orderly
  <2> DEFINE u == log[i + 1].started_at
  <2>3. u = log[i].ended_at /\ u \in Nat /\ u <= clock /\ log[i + 1].status = ONLINE
    BY <1>1, <2>1, <2>2 DEF Orderly
  <2>4. IsOpen(log[i + 1]) \/ u < log[i + 1].ended_at
    <3>1. ASSUME ~IsOpen(log[i + 1]) PROVE u < log[i + 1].ended_at
      <4>1. i + 2 \in 1 .. Len(log) /\ i + 1 \in 1 .. (i + 2) - 1
        BY <1>1, <2>2, <3>1 DEF Orderly
      <4>2. log[i + 1].started_at < log[i + 2].started_at
        BY <4>1 DEF Orderly
      <4>3. log[i + 1].ended_at = log[(i + 1) + 1].started_at /\ (i + 1) + 1 = i + 2
        BY <1>1, <2>2, <3>1 DEF Orderly
      <4> QED
        BY <4>2, <4>3
    <3> QED
      BY <3>1
  <2>5. HadStatus(d, ONLINE, u)
    BY <2>2, <2>3, <2>4 DEF HadStatus
  <2>6. u \in t + 1 .. clock
    BY <1>1, <2>1, <2>3
  <2>7. t \in Instants(d, OFFLINE, range)
    BY <1>1, <1>2, <2>1 DEF Instants, HadStatus
  <2> QED
    BY <2>5, <2>6, <2>7 DEF RepairInstants
<1>3. ASSUME NEW t \in RepairInstants(d, range)
      PROVE  \E i \in listed : t \in During(log, i, since)
  <2>1. /\ t \in since .. clock - 1 /\ t \in Int
        /\ HadStatus(d, OFFLINE, t)
        /\ \E u \in t + 1 .. clock : HadStatus(d, ONLINE, u)
    BY <1>1 DEF RepairInstants, Instants
  <2>2. PICK i \in 1 .. Len(log) : /\ log[i].status = OFFLINE
                                   /\ log[i].started_at <= t
                                   /\ IsOpen(log[i]) \/ t < log[i].ended_at
    BY <2>1 DEF HadStatus
  <2>3. PICK u \in t + 1 .. clock, j \in 1 .. Len(log) :
                /\ log[j].status = ONLINE
                /\ log[j].started_at <= u
                /\ IsOpen(log[j]) \/ u < log[j].ended_at
    BY <2>1 DEF HadStatus
  <2>4. ASSUME IsOpen(log[i]) PROVE FALSE
    <3>1. i = Len(log) /\ j # i
      BY <2>2, <2>3, <2>4 DEF Orderly, ONLINE, OFFLINE
    <3>2. j \in 1 .. i - 1 /\ j + 1 \in 1 .. Len(log) /\ ~IsOpen(log[j])
      BY <1>1, <3>1 DEF Orderly
    <3>3. log[j].ended_at = log[j + 1].started_at
      BY <3>2 DEF Orderly
    <3>4. log[j + 1].started_at \in Nat /\ log[i].started_at \in Nat
      BY <3>2 DEF Orderly
    <3>5. log[j + 1].started_at <= log[i].started_at
      <4>1. CASE j + 1 = i
        BY <3>4, <4>1
      <4>2. CASE j + 1 # i
        <5>1. j + 1 \in 1 .. i - 1
          BY <1>1, <3>2, <4>2
        <5>2. log[j + 1].started_at < log[i].started_at
          BY <5>1 DEF Orderly
        <5> QED
          BY <3>4, <5>2
      <4> QED
        BY <4>1, <4>2
    <3>6. u < log[j + 1].started_at
      BY <2>3, <3>2, <3>3
    <3>7. log[i].started_at < u
      BY <2>1, <2>2, <3>4
    <3>8. u \in Int
      BY <2>1
    <3> QED
      BY <3>4, <3>5, <3>6, <3>7, <3>8
  <2>5. log[i].ended_at \in Nat /\ t < log[i].ended_at
    <3>1. i + 1 \in 1 .. Len(log)
      BY <1>1, <2>4 DEF Orderly
    <3> QED
      BY <2>2, <2>4, <3>1 DEF Orderly
  <2>6. i \in listed
    BY <1>1, <2>1, <2>2, <2>4, <2>5 DEF closed_offline, in_status, list_by_device_since, OverlapsSince
  <2> QED
    BY <2>1, <2>2, <2>6 DEF During
<1>4. {t \in since .. clock - 1 : \E i \in listed : t \in During(log, i, since)}
        = RepairInstants(d, range)
  <2>1. RepairInstants(d, range) \subseteq since .. clock - 1
    BY DEF RepairInstants, Instants
  <2> QED
    BY <1>2, <1>3, <2>1
<1> QED
  BY <1>1, <1>4, DurationsAddUp

\* An outage that is over is the event before a recovery.
LEMMA RepairsAreRecoveries ==
    ASSUME NEW d \in Devices, Orderly(events[d]), clock \in Nat, NEW range \in Nat
    PROVE  Cardinality(closed_offline(d, range)) = Cardinality(Recoveries(d, range))
<1> DEFINE log == events[d]
           since == window_start(range)
           over == closed_offline(d, range)
           recovered == Recoveries(d, range)
           next == [i \in over |-> i + 1]
<1>1. /\ since \in Int /\ Len(log) \in Nat /\ over \in SUBSET (1 .. Len(log))
      /\ recovered \in SUBSET (2 .. Len(log))
  BY DEF window_start, Orderly, closed_offline, in_status, list_by_device_since, Recoveries
<1>2. ASSUME NEW i \in 1 .. Len(log), i + 1 \in 1 .. Len(log)
      PROVE  i \in over <=> i + 1 \in recovered
  <2>1. ~IsOpen(log[i])
    BY <1>1, <1>2 DEF Orderly
  <2>2. /\ log[i].ended_at = log[i + 1].started_at
        /\ log[i].status = OFFLINE <=> log[i + 1].status = ONLINE
    BY <1>2, <2>1 DEF Orderly, ONLINE, OFFLINE
  <2>3. i \in over <=> log[i].status = OFFLINE /\ log[i].ended_at >= since
    BY <2>1 DEF closed_offline, in_status, list_by_device_since, OverlapsSince
  <2>4. i + 1 \in recovered <=> log[i + 1].status = ONLINE /\ log[i + 1].started_at >= since
    BY <1>2 DEF Recoveries
  <2> QED
    BY <2>2, <2>3, <2>4
<1>3. \A i \in over : i + 1 \in 1 .. Len(log)
  BY <1>1 DEF Orderly, closed_offline
<1> HIDE DEF over, recovered
<1>4. next \in Bijection(over, recovered)
  <2>1. next \in [over -> recovered]
    BY <1>1, <1>2, <1>3
  <2>2. \A a, b \in over : next[a] = next[b] => a = b
    BY <1>1
  <2>3. ASSUME NEW j \in recovered PROVE \E i \in over : next[i] = j
    <3>1. j - 1 \in 1 .. Len(log) /\ (j - 1) + 1 = j
      BY <1>1
    <3>2. j - 1 \in over
      BY <1>1, <1>2, <3>1
    <3> QED
      BY <3>1, <3>2
  <2> HIDE DEF next
  <2> QED
    BY <2>1, <2>2, <2>3 DEF Bijection, Injection, Surjection, IsInjective
<1>5. IsFiniteSet(over)
  <2>1. IsFiniteSet(1 .. Len(log))
    BY <1>1, FS_Interval
  <2> QED
    BY <1>1, <2>1, FS_Subset
<1> HIDE DEF next
<1>6. Cardinality(recovered) = Cardinality(over)
  BY <1>4, <1>5, FS_Bijection DEF ExistsBijection
<1> QED
  BY <1>6 DEF over, recovered

\* What the queries are asked of is always orderly.
LEMMA AlwaysOrderly == Spec => [](IInv /\ StartsIncrease /\ TimelinesAreContiguous)
<1>1. Init => IInv /\ StartsIncrease
  BY InitIInv DEF Init, StartsIncrease
<1>2. IInv /\ StartsIncrease /\ [Next]_vars => IInv' /\ StartsIncrease'
  BY NextIInv, NextStarts
<1>3. Spec => [](IInv /\ StartsIncrease)
  BY <1>1, <1>2, PTL DEF Spec
<1> QED
  BY <1>3, NoGapNoOverlap, PTL

\* Availability, downtime and MTTR of every window are those of the status at
\* every instant of it: clipping and the filter of the query lose no instant and
\* count none twice.
LEMMA SummaryOfOrderly ==
    IInv /\ StartsIncrease /\ TimelinesAreContiguous => SummaryIsExact
<1> SUFFICES ASSUME IInv, StartsIncrease, TimelinesAreContiguous,
                    NEW d \in Devices, NEW range \in Ranges
             PROVE  summary(d, range) =
                      [online   |-> Cardinality(Instants(d, ONLINE, range)),
                       downtime |-> Cardinality(Instants(d, OFFLINE, range)),
                       mttr     |-> << Cardinality(RepairInstants(d, range)),
                                       Cardinality(Recoveries(d, range)) >>]
  BY DEF SummaryIsExact
<1>1. Orderly(events[d]) /\ clock \in Nat /\ range \in Nat
  BY EventsAreOrderly, RangesAssumption, BoundsAssumption DEF IInv, TypeOK, Time
<1> DEFINE online == Cardinality(Instants(d, ONLINE, range))
<1>2. Seconds(d, ONLINE, range) = online /\ online \in 0 .. range
  BY <1>1, SecondsAreInstants
<1>3. Min({online, range}) = online
  <2> HIDE DEF online
  <2> QED
    BY <1>1, <1>2, MaxMinOfTwo
<1>4. Seconds(d, OFFLINE, range) = Cardinality(Instants(d, OFFLINE, range))
  BY <1>1, SecondsAreInstants
<1> QED
  BY <1>1, <1>2, <1>3, <1>4, RepairsAreInstants, RepairsAreRecoveries DEF summary

THEOREM SummaryExact == Spec => []SummaryIsExact
  BY AlwaysOrderly, SummaryOfOrderly, PTL

\* The mean of the dashboard is over the devices ever polled and no other.
LEMMA MeanOfOrderly ==
    IInv /\ StartsIncrease /\ TimelinesAreContiguous => MeanCountsEveryPolledDevice
<1> DEFINE polled == {d \in registered : device[d].status # UNKNOWN}
<1> SUFFICES ASSUME IInv, StartsIncrease, TimelinesAreContiguous, NEW range \in Ranges
             PROVE  avg_availability(range) =
                      << SumFunction([d \in polled |-> Cardinality(Instants(d, ONLINE, range))]),
                         Cardinality(polled) >>
  BY DEF MeanCountsEveryPolledDevice
<1>1. ASSUME NEW d \in Devices PROVE d \in Averaged(range) <=> d \in polled
  <2>1. events[d] \in Seq(Event) /\ Logged(events[d], device[d].status)
    BY DEF IInv, TypeOK, OpenEventIsStatus
  <2>2. CASE device[d].status = UNKNOWN
    BY <2>1, <2>2 DEF Logged, Averaged, devices_with_events, list_by_device_since
  <2>3. CASE device[d].status # UNKNOWN
    <3>1. d \in registered
      BY <2>3 DEF IInv, NothingUnregistered
    <3>2. Len(events[d]) \in 1 .. Len(events[d]) /\ IsOpen(events[d][Len(events[d])])
      BY <2>1, <2>3 DEF Logged, OpenEvents
    <3>3. Len(events[d]) \in list_by_device_since(d, window_start(range))
      BY <3>2 DEF list_by_device_since, OverlapsSince
    <3> QED
      BY <2>3, <3>1, <3>3 DEF Averaged, devices_with_events
  <2> QED
    BY <2>2, <2>3
<1>2. Averaged(range) = polled
  <2>1. Averaged(range) \subseteq Devices /\ polled \subseteq Devices
    BY DEF Averaged, devices_with_events, IInv, TypeOK
  <2> QED
    BY <1>1, <2>1
<1>3. ASSUME NEW d \in Devices
      PROVE  Min({Seconds(d, ONLINE, range), range}) = Cardinality(Instants(d, ONLINE, range))
  BY SummaryOfOrderly DEF SummaryIsExact, summary
<1>4. polled \subseteq Devices
  BY DEF IInv, TypeOK
<1>5. [d \in Averaged(range) |-> Min({Seconds(d, ONLINE, range), range})]
        = [d \in polled |-> Cardinality(Instants(d, ONLINE, range))]
  BY <1>2, <1>3, <1>4
<1> QED
  BY <1>2, <1>5 DEF avg_availability

THEOREM MeanOfAll == Spec => []MeanCountsEveryPolledDevice
  BY AlwaysOrderly, MeanOfOrderly, PTL
=============================================================================
