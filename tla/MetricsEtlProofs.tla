-------------------------- MODULE MetricsEtlProofs --------------------------
(***************************************************************************)
(* Theorems about the series of a chart, for every set of series, every    *)
(* length of the hour, the retention and the window, and every number of   *)
(* points that satisfy the assumptions.                                    *)
(***************************************************************************)
EXTENDS MetricsEtl, HousekeepingProofs, FiniteSetTheorems, WellFoundedInduction

-----------------------------------------------------------------------------
\* A set of instants has a first one.  The intervals 0 .. x are finite, so one
\* of them is minimal.
LEMMA MinIsLeast ==
    ASSUME NEW S \in SUBSET Nat, S # {}
    PROVE  Min(S) \in S /\ \A y \in S : Min(S) <= y
<1> DEFINE Below == {0 .. x : x \in S}
<1>1. Below \subseteq FiniteSubsetsOf(Nat) /\ Below # {}
  <2>1. ASSUME NEW x \in S PROVE 0 .. x \in FiniteSubsetsOf(Nat)
    <3>1. 0 .. x \in SUBSET Nat /\ x \in Int
      OBVIOUS
    <3>2. IsFiniteSet(0 .. x)
      BY <3>1, FS_Interval
    <3> QED
      BY <3>1, <3>2 DEF FiniteSubsetsOf
  <2> QED
    BY <2>1
<1>2. IsWellFoundedOn(StrictSubsetOrdering(Nat), FiniteSubsetsOf(Nat))
  BY FS_StrictSubsetOrderingWellFounded
<1>3. \E b \in Below : \A c \in Below : <<c, b>> \notin StrictSubsetOrdering(Nat)
  <2> HIDE DEF Below
  <2> QED
    BY <1>1, <1>2, WFMin
<1>4. PICK x \in S : \A y \in S : <<0 .. y, 0 .. x>> \notin StrictSubsetOrdering(Nat)
  BY <1>3
<1>5. ASSUME NEW y \in S, y < x PROVE FALSE
  <2>1. 0 .. y \subseteq 0 .. x /\ 0 .. x \subseteq Nat /\ x \in 0 .. x /\ x \notin 0 .. y
    BY <1>5
  <2> QED
    BY <1>4, <2>1 DEF StrictSubsetOrdering
<1>6. \A y \in S : x <= y
  BY <1>5
<1> QED
  BY <1>6 DEF Min

\* A chart complements its raw points by every bucket of trends that begins
\* before them.
LEMMA EarlierTrendsAreCombined ==
    ASSUME NEW series, NEW range, NEW t,
           t \in list_trends_since(trends', series, clock - range),
           raw_points(series, clock - range) \in SUBSET Nat, t \in Int,
           \A u \in raw_points(series, clock - range) : t < u
    PROVE  t \in combined(series, range)
<1> DEFINE instants == raw_points(series, clock - range)
<1>1. instants = {} \/ t < Min(instants)
  <2> HIDE DEF instants
  <2>1. CASE instants # {}
    BY <2>1, MinIsLeast DEF instants
  <2> QED
    BY <2>1
<1>2. combined(series, range)
        = instants \cup {u \in list_trends_since(trends', series, clock - range) :
                           instants = {} \/ u < Min(instants)}
  BY DEF combined, trend_points
<1> HIDE DEF instants
<1> QED
  BY <1>1, <1>2

\* A chart misses no reading of its window but those of the hour in which the
\* window begins that are in trends only, whatever is committed between the two
\* statements: a reading that is no longer raw is older than all that are, so its
\* bucket begins before the raw points.
THEOREM Complete == Spec => SeriesIsComplete
<1>1. Init => IInv /\ SessionIsThorough /\ DeletedIsOldest
  BY InitIInv DEF Init, SessionIsThorough, DeletedIsOldest
<1>2. IInv /\ SessionIsThorough /\ DeletedIsOldest /\ [Next]_vars
        => IInv' /\ SessionIsThorough' /\ DeletedIsOldest'
  BY NextIInv, NextThorough, NextOldest
<1>3. ASSUME IInv, DeletedIsOldest, [Next]_vars, NEW series \in Numeric, NEW range \in Ranges,
             NEW r \in raw \cup trends, r.series = series, InReach(r, range)
      PROVE  ShownIn(r, points(series, range), range)
  <2>1. /\ r \in Reading /\ r.at \in Nat /\ clock \in Nat /\ range \in Nat
        /\ Trunc(r.at) \in Int /\ Trunc(r.at) <= r.at
    BY <1>3, TimeIsNat, ReadingTime, TruncBounds, SeriesAssumption DEF IInv, TypeOK
  <2>2. CASE r \in raw
    <3>1. r.at \in raw_points(series, clock - range)
      BY <1>3, <2>1, <2>2 DEF InReach, raw_points, list_raw_since, IsNumeric
    <3>2. r.at \in combined(series, range)
      BY <3>1 DEF combined
    <3> QED
      BY <3>2 DEF points, ShownIn
  <2>3. CASE r \in trends \ raw
    <3>1. raw_points(series, clock - range) \subseteq {q.at : q \in raw}
      BY DEF raw_points, list_raw_since
    <3>2. raw_points(series, clock - range) \in SUBSET Nat
      BY <1>3, <3>1, ReadingTime DEF IInv, TypeOK
    <3>3. \A u \in raw_points(series, clock - range) : Trunc(r.at) < u
      <4>1. \A u \in raw_points(series, clock - range) : r.at < u
        BY <1>3, <2>3, <3>1 DEF DeletedIsOldest
      <4> QED
        BY <2>1, <3>2, <4>1
    <3>4. Trunc(r.at) \in list_trends_since(trends', series, clock - range)
      <4>1. Bucket(r) \in Buckets(trends')
        BY <1>3, <2>3, StepKeepsBuckets DEF Buckets
      <4>2. PICK q \in trends' : q.series = r.series /\ Trunc(q.at) = Trunc(r.at)
        BY <4>1 DEF Buckets, Bucket
      <4> QED
        BY <1>3, <2>3, <4>2 DEF InReach, list_trends_since
    <3>5. Trunc(r.at) \in combined(series, range)
      BY <2>1, <3>2, <3>3, <3>4, EarlierTrendsAreCombined
    <3> QED
      BY <3>5 DEF points, ShownIn
  <2> QED
    BY <1>3, <2>2, <2>3
<1>4. IInv /\ DeletedIsOldest /\ [Next]_vars =>
        [\A series \in Numeric, range \in Ranges :
           LET chart == points(series, range)
           IN  \A r \in raw \cup trends :
                   r.series = series /\ InReach(r, range) => ShownIn(r, chart, range)]_vars
  BY <1>3
<1> QED
  BY <1>1, <1>2, <1>4, PTL DEF Spec, SeriesIsComplete

-----------------------------------------------------------------------------
(***************************************************************************)
(* Bins.                                                                   *)
(***************************************************************************)
\* The window is at most MAX_POINTS bins long.
LEMMA WindowInBins ==
    ASSUME NEW range \in Ranges
    PROVE  /\ resample_rule(range) \in Nat \ {0}
           /\ range <= MaxPoints * resample_rule(range)
<1>1. /\ MaxPoints \in Nat \ {0} /\ MinWidth \in Nat \ {0} /\ range \in Nat \ {0}
      /\ range % MaxPoints = 0 \/ range < MaxPoints * MinWidth
  BY SeriesAssumption
<1> DEFINE part == range \div MaxPoints
           width == resample_rule(range)
<1>2. part \in Nat /\ range = MaxPoints * part + (range % MaxPoints)
  <2>1. \A x \in Nat, n \in Nat \ {0} : x \div n \in Nat /\ x = n * (x \div n) + (x % n)
    BY Z3
  <2> QED
    BY <1>1, <2>1
<1>3. width \in {MinWidth, part} /\ width >= MinWidth /\ width >= part
  <2>1. width = Max({MinWidth, part})
    BY DEF resample_rule
  <2> HIDE DEF part, width
  <2>2. \E x \in {MinWidth, part} : \A y \in {MinWidth, part} : x >= y
    BY <1>1, <1>2
  <2> QED
    BY <2>1, <2>2 DEF Max
<1>4. width \in Nat \ {0}
  BY <1>1, <1>2, <1>3
<1>5. \A m, x, y \in Nat : x <= y => m * x <= m * y
  BY SMT
<1> HIDE DEF part, width
<1>6. MaxPoints * part <= MaxPoints * width /\ MaxPoints * MinWidth <= MaxPoints * width
  BY <1>1, <1>2, <1>3, <1>4, <1>5
<1>7. /\ MaxPoints * part \in Nat /\ MaxPoints * MinWidth \in Nat
      /\ MaxPoints * width \in Nat
  BY <1>1, <1>2, <1>4
<1>8. range <= MaxPoints * width
  BY <1>1, <1>2, <1>6, <1>7
<1> QED
  BY <1>4, <1>8 DEF width

\* Instants that lie within n bins' length fall into at most n + 1 bins.
LEMMA BinsOfWindow ==
    ASSUME NEW width \in Nat \ {0}, NEW n \in Nat, NEW first \in Int, NEW t \in Int,
           first <= t, t <= first + n * width
    PROVE  t \div width \in (first \div width) .. (first \div width) + n
<1> DEFINE a == first \div width
           b == t \div width
<1>1. /\ a \in Int /\ b \in Int
      /\ width * a <= first /\ first < width * a + width
      /\ width * b <= t /\ t < width * b + width
  BY SMT
<1> HIDE DEF a, b
<1>2. width * a < width * (b + 1)
  BY <1>1, SMT
<1>3. width * b < width * (a + 1 + n)
  BY <1>1, SMT
<1>4. \A x, y \in Int : width * x < width * y => x < y
  BY SMT
<1>5. a < b + 1 /\ b < a + 1 + n
  BY <1>1, <1>2, <1>3, <1>4
<1> QED
  BY <1>1, <1>5 DEF a, b

\* What a chart may read from metric_trends after a step are hours that had
\* ended before it.
LEMMA StepIsClosed ==
    ASSUME IInv, [Next]_vars, NEW r \in trends'
    PROVE  r.at < Trunc(clock)
<1>1. r \in trends \/ r \in upserted
  BY StepPublishesSession
<1>2. CASE r \in trends
  BY <1>2 DEF IInv, OnlyClosedHours
<1>3. CASE r \in upserted
  <2>1. r.at < Trunc(now) /\ now \in Nat /\ clock \in Nat /\ now <= clock /\ r.at \in Nat
    BY <1>3, TimeIsNat, ReadingTime DEF IInv, TypeOK, SessionIsSound
  <2>2. Trunc(now) <= Trunc(clock) /\ Trunc(now) \in Int /\ Trunc(clock) \in Int
    BY <2>1, TruncMonotonic, TruncBounds
  <2> QED
    BY <2>1, <2>2
<1> QED
  BY <1>1, <1>2, <1>3

\* A window of MAX_POINTS bins' length ends MAX_POINTS bins after it begins.
LEMMA LastBinOfWindow ==
    ASSUME NEW range \in Ranges, range >= MaxPoints * MinWidth, NEW since \in Int
    PROVE  Bin(since + range, range) = Bin(since, range) + MaxPoints
<1> DEFINE part == range \div MaxPoints
           width == resample_rule(range)
<1>1. /\ MaxPoints \in Nat \ {0} /\ MinWidth \in Nat \ {0} /\ range \in Nat
      /\ range % MaxPoints = 0
  BY SeriesAssumption
<1>2. part \in Nat /\ range = MaxPoints * part
  <2>1. \A x \in Nat, n \in Nat \ {0} : x \div n \in Nat /\ x = n * (x \div n) + (x % n)
    BY Z3
  <2> QED
    BY <1>1, <2>1
<1>3. width \in {MinWidth, part} /\ width >= MinWidth /\ width >= part
  <2>1. width = Max({MinWidth, part})
    BY DEF resample_rule
  <2> HIDE DEF part, width
  <2>2. \E x \in {MinWidth, part} : \A y \in {MinWidth, part} : x >= y
    BY <1>1, <1>2
  <2> QED
    BY <2>1, <2>2 DEF Max
<1> HIDE DEF part
<1>4. MinWidth <= part
  <2>1. \A m \in Nat \ {0}, x, y \in Nat : m * x <= m * y => x <= y
    BY SMT
  <2>2. MaxPoints * MinWidth <= MaxPoints * part
    BY <1>1, <1>2
  <2> QED
    BY <1>1, <1>2, <2>1, <2>2
<1>5. width = part /\ width \in Nat \ {0} /\ range = MaxPoints * width
  <2> HIDE DEF width
  <2> QED
    BY <1>1, <1>2, <1>3, <1>4
<1> HIDE DEF width
<1>6. \A n \in Nat, w \in Nat \ {0} : (since + n * w) \div w = (since \div w) + n
  BY Z3
<1> QED
  BY <1>1, <1>5, <1>6 DEF Bin, width

\* The points of a chart are bins that its window touches.
LEMMA PointsAreBins ==
    ASSUME IInv, SessionIsThorough, IInv', [Next]_vars, NEW series \in Series, NEW range \in Ranges
    PROVE  points(series, range) \in
              SUBSET (Bin(clock - range, range) .. Bin(clock - range, range) + MaxPoints)
<1> DEFINE since == clock - range
           width == resample_rule(range)
<1>1. /\ clock \in Nat /\ range \in Nat /\ MaxPoints \in Nat
      /\ width \in Nat \ {0} /\ range <= MaxPoints * width
  BY TimeIsNat, WindowInBins, SeriesAssumption DEF IInv, TypeOK
<1>2. ASSUME NEW t \in combined(series, range)
      PROVE  t \in Int /\ since <= t /\ t <= clock
  <2>1. CASE t \in raw_points(series, since)
    <3>1. PICK r \in raw : r.at = t /\ r.at >= since
      BY <2>1 DEF raw_points, list_raw_since
    <3> QED
      BY <3>1, ReadingTime DEF SessionIsThorough, IInv, TypeOK
  <2>2. CASE t \in list_trends_since(trends', series, since)
    <3>1. PICK r \in trends' : t = Trunc(r.at) /\ t >= since
      BY <2>2 DEF list_trends_since
    <3>2. r.at < Trunc(clock)
      BY <3>1, StepIsClosed
    <3>3. r.at \in Nat
      BY <3>1, ReadingTime DEF IInv, TypeOK
    <3> QED
      BY <1>1, <3>1, <3>2, <3>3, TruncBounds
  <2> QED
    BY <1>2, <2>1, <2>2 DEF combined, trend_points
<1>3. ASSUME NEW t \in combined(series, range)
      PROVE  Bin(t, range) \in Bin(since, range) .. Bin(since, range) + MaxPoints
  <2>1. since \in Int /\ t \in Int /\ since <= t /\ t <= since + MaxPoints * width
    BY <1>1, <1>2
  <2> HIDE DEF since, width
  <2>2. t \div width \in (since \div width) .. (since \div width) + MaxPoints
    BY <1>1, <2>1, BinsOfWindow
  <2> QED
    BY <2>2 DEF Bin, width
<1> QED
  BY <1>3 DEF points

\* A chart has at most MAX_POINTS + 1 points, and that many when each bin of a
\* window of MAX_POINTS bins' length has a reading.
THEOREM Ceiling == Spec => CeilingIsPassedByOne
<1>1. Init => IInv /\ SessionIsThorough
  BY InitIInv DEF Init, SessionIsThorough
<1>2. IInv /\ SessionIsThorough /\ [Next]_vars => IInv' /\ SessionIsThorough'
  BY NextIInv, NextThorough
<1>3. ASSUME IInv, SessionIsThorough, IInv', [Next]_vars,
             NEW series \in Series, NEW range \in Ranges
      PROVE  /\ Cardinality(points(series, range)) <= MaxPoints + 1
             /\ range >= MaxPoints * MinWidth /\ FullChart(series, range) =>
                    Cardinality(points(series, range)) = MaxPoints + 1
  <2> DEFINE since == clock - range
             first == Bin(since, range)
             last == first + MaxPoints
  <2>1. clock \in Nat /\ range \in Nat /\ MaxPoints \in Nat /\ since \in Int /\ first \in Int
    BY <1>3, TimeIsNat, WindowInBins, SeriesAssumption DEF IInv, TypeOK, Bin
  <2>2. points(series, range) \in SUBSET (first .. last)
    BY <1>3, PointsAreBins
  <2>3. ASSUME range >= MaxPoints * MinWidth, FullChart(series, range)
        PROVE  first .. last \subseteq points(series, range)
    <3>1. Bin(clock, range) = last
      <4>1. since + range = clock
        BY <2>1
      <4>2. Bin(since + range, range) = last
        BY <2>1, <2>3, LastBinOfWindow
      <4> QED
        BY <4>1, <4>2
    <3>2. ASSUME NEW b \in first .. last PROVE b \in points(series, range)
      <4>1. PICK t \in raw_points(series, since) : Bin(t, range) = b
        BY <2>3, <3>1, <3>2 DEF FullChart
      <4> QED
        BY <4>1 DEF points, combined
    <3> QED
      BY <3>2
  <2>4. IsFiniteSet(first .. last) /\ Cardinality(first .. last) = MaxPoints + 1
    <3>1. last \in Int /\ ~(first > last) /\ last - first + 1 = MaxPoints + 1
      <4> HIDE DEF first
      <4> QED
        BY <2>1
    <3> HIDE DEF first, last
    <3> QED
      BY <2>1, <3>1, FS_Interval
  <2>5. Cardinality(points(series, range)) <= MaxPoints + 1
    <3> HIDE DEF first, last
    <3> QED
      BY <2>2, <2>4, FS_Subset, FS_CardinalityType
  <2>6. ASSUME range >= MaxPoints * MinWidth, FullChart(series, range)
        PROVE  Cardinality(points(series, range)) = MaxPoints + 1
    <3>1. points(series, range) = first .. last
      <4> HIDE DEF first, last
      <4> QED
        BY <2>2, <2>3, <2>6
    <3> QED
      BY <2>4, <3>1
  <2> QED
    BY <2>5, <2>6
<1>4. IInv /\ SessionIsThorough /\ [Next]_vars =>
        [\A series \in Series, range \in Ranges :
           /\ Cardinality(points(series, range)) <= MaxPoints + 1
           /\ range >= MaxPoints * MinWidth /\ FullChart(series, range) =>
                  Cardinality(points(series, range)) = MaxPoints + 1]_vars
  BY <1>2, <1>3
<1> QED
  BY <1>1, <1>2, <1>4, PTL DEF Spec, CeilingIsPassedByOne
=============================================================================
