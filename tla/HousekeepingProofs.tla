------------------------- MODULE HousekeepingProofs -------------------------
(***************************************************************************)
(* Theorems about Housekeeping, for every set of series, every length of   *)
(* the hour and of the retention, and every bound that satisfy its         *)
(* assumption.                                                             *)
(***************************************************************************)
EXTENDS Housekeeping, TLAPS

-----------------------------------------------------------------------------
\* The start of the hour of t is at most one hour before t.
LEMMA TruncBounds ==
    ASSUME NEW t \in Nat
    PROVE  Trunc(t) \in Int /\ t - Hour < Trunc(t) /\ Trunc(t) <= t
  BY HousekeepingAssumption DEF Trunc

\* Later instants are in the same hour or in a later one.
LEMMA TruncMonotonic ==
    ASSUME NEW s \in Nat, NEW t \in Nat, s <= t
    PROVE  Trunc(s) <= Trunc(t)
  BY HousekeepingAssumption, Z3 DEF Trunc

\* Instants are natural numbers.
LEMMA TimeIsNat == Time \subseteq Nat
  BY HousekeepingAssumption DEF Time

\* The time of a reading is a natural number.
LEMMA ReadingTime == ASSUME NEW r \in Reading PROVE r.at \in Nat
  BY TimeIsNat DEF Reading

\* The clock never goes back, and a step of the loop ends no later than it began.
LEMMA ClockMonotonic ==
    ASSUME TypeOK, [Next]_vars
    PROVE  clock' \in Time /\ clock <= clock'
  BY HousekeepingAssumption
  DEF TypeOK, Time, Next, vars, keeper, Tick, SaveReadings, CommitReadings, RollbackReadings,
      BeginCycle, upsert_hourly_aggregates, delete_older_than, Commit, StatementTooLarge,
      CycleFails

-----------------------------------------------------------------------------
(***************************************************************************)
(* The inductive invariant.                                                *)
(***************************************************************************)
\* Initially there is no reading anywhere.
LEMMA InitIInv == Init => IInv
  BY HousekeepingAssumption
  DEF Init, IInv, TypeOK, PendingIsRecent, SessionIsSound, OnlyClosedHours, Time

\* Every step keeps the state well formed.
LEMMA NextType == TypeOK /\ [Next]_vars => TypeOK'
<1> SUFFICES ASSUME TypeOK, [Next]_vars PROVE TypeOK'
  OBVIOUS
<1> USE DEF TypeOK, keeper
<1>1. clock' \in Time
  BY ClockMonotonic
<1>2. ASSUME NEW s \in SUBSET Series, SaveReadings(s) PROVE TypeOK'
  BY <1>2 DEF SaveReadings, Reading
<1>3. ASSUME EndCycle PROVE /\ pc' = "sleeping" /\ now' \in Time
                           /\ upserted' = {} /\ deleted' = {}
  BY <1>3, HousekeepingAssumption DEF EndCycle, Time
<1>4. CASE Tick
  BY <1>1, <1>4 DEF Tick
<1>5. CASE CommitReadings
  BY <1>5 DEF CommitReadings
<1>6. CASE RollbackReadings
  BY <1>6, HousekeepingAssumption DEF RollbackReadings
<1>7. CASE BeginCycle
  BY <1>7 DEF BeginCycle
<1>8. CASE upsert_hourly_aggregates
  BY <1>8 DEF upsert_hourly_aggregates, Aggregated
<1>9. CASE delete_older_than
  BY <1>9 DEF delete_older_than, OldRows
<1>10. CASE Commit
  BY <1>3, <1>10 DEF Commit, Replaced
<1>11. CASE StatementTooLarge
  BY <1>3, <1>11 DEF StatementTooLarge
<1>12. CASE CycleFails
  BY <1>3, <1>12, HousekeepingAssumption DEF CycleFails
<1>13. CASE UNCHANGED vars
  BY <1>13 DEF vars
<1> QED
  BY <1>2, <1>4, <1>5, <1>6, <1>7, <1>8, <1>9, <1>10, <1>11, <1>12, <1>13 DEF Next

\* A reading waits for its commit no longer than WriteDelay.
LEMMA NextPending == IInv /\ [Next]_vars => PendingIsRecent'
<1> SUFFICES ASSUME IInv, [Next]_vars PROVE PendingIsRecent'
  OBVIOUS
<1>1. clock \in Nat /\ \A r \in pending : r.at \in Nat
  BY TimeIsNat, ReadingTime DEF IInv, TypeOK
<1>2. CASE Tick
  BY <1>1, <1>2, HousekeepingAssumption DEF Tick, IInv, PendingIsRecent
<1>3. ASSUME NEW s \in SUBSET Series, SaveReadings(s) PROVE PendingIsRecent'
  BY <1>1, <1>3, HousekeepingAssumption DEF SaveReadings, IInv, PendingIsRecent
<1>4. CASE UNCHANGED <<clock, pending>>
  BY <1>4 DEF IInv, PendingIsRecent
<1>5. CASE pending' = {}
  BY <1>5 DEF PendingIsRecent
<1> QED
  BY <1>2, <1>3, <1>4, <1>5
  DEF Next, vars, CommitReadings, RollbackReadings, BeginCycle, upsert_hourly_aggregates,
      delete_older_than, Commit, StatementTooLarge, CycleFails

\* The readings a commit adds are too recent to be deleted by a housekeeping
\* cycle already begun, whatever it has counted.
LEMMA CommitIsRecent ==
    ASSUME IInv
    PROVE  \A r \in pending : ~(r.at < now - Retention)
<1> TAKE r \in pending
<1>1. /\ r.at \in Nat /\ clock \in Nat /\ now \in Nat
  BY TimeIsNat, ReadingTime DEF IInv, TypeOK
<1>2. clock - r.at <= WriteDelay /\ now <= clock
  BY DEF IInv, PendingIsRecent, SessionIsSound
<1> QED
  BY <1>1, <1>2, HousekeepingAssumption

\* What the open session has counted covers what it may delete.
LEMMA NextSession == IInv /\ [Next]_vars => SessionIsSound'
<1> SUFFICES ASSUME IInv, [Next]_vars PROVE SessionIsSound'
  OBVIOUS
<1> USE DEF keeper
<1>1. /\ clock \in Nat /\ clock' \in Nat /\ clock <= clock'
      /\ now \in Nat /\ now <= clock
  BY ClockMonotonic, TimeIsNat DEF IInv, TypeOK, SessionIsSound
<1>2. \A r \in raw : r.at \in Nat
  BY ReadingTime DEF IInv, TypeOK
<1>3. CASE UNCHANGED <<raw, pc, now, upserted, deleted>>
  BY <1>1, <1>3 DEF IInv, SessionIsSound, Trunc
<1>4. CASE CommitReadings
  BY <1>1, <1>4, CommitIsRecent DEF CommitReadings, IInv, SessionIsSound, Trunc
<1>5. CASE BeginCycle
  BY <1>1, <1>5 DEF BeginCycle, IInv, TypeOK, SessionIsSound
<1>6. CASE upsert_hourly_aggregates
  <2>1. \A r \in raw : r.at < now - Retention => r.at < closed_hour_boundary
    BY <1>1, <1>2, TruncBounds, HousekeepingAssumption DEF closed_hour_boundary
  <2>2. \A r \in raw : IsNumeric(r) /\ r.at < now - Retention => r \in upserted'
    BY <1>6, <2>1 DEF upsert_hourly_aggregates, Aggregated
  <2>3. \A r \in upserted' : IsNumeric(r) /\ r.at < Trunc(now)
    BY <1>6 DEF upsert_hourly_aggregates, Aggregated, closed_hour_boundary
  <2> QED
    BY <1>6, <2>2, <2>3 DEF upsert_hourly_aggregates, IInv, SessionIsSound, IsNumeric, Trunc
<1>7. CASE delete_older_than
  BY <1>7 DEF delete_older_than, OldRows, retention_cutoff, IInv, SessionIsSound, IsNumeric, Trunc
<1>8. CASE EndCycle /\ clock' = clock
  BY <1>1, <1>8 DEF EndCycle, SessionIsSound
<1> QED
  BY <1>3, <1>4, <1>5, <1>6, <1>7, <1>8
  DEF Next, vars, Tick, SaveReadings, RollbackReadings, Commit, StatementTooLarge, CycleFails

\* Only what the open session has counted is ever added to metric_trends.
LEMMA StepPublishesSession ==
    ASSUME [Next]_vars
    PROVE  trends' \subseteq trends \cup upserted
  BY DEF Next, vars, keeper, Tick, SaveReadings, CommitReadings, RollbackReadings, BeginCycle,
         upsert_hourly_aggregates, delete_older_than, Commit, Replaced, StatementTooLarge,
         CycleFails

\* A commit publishes what the session has counted: closed hours only.
LEMMA NextClosed == IInv /\ [Next]_vars => OnlyClosedHours'
<1> SUFFICES ASSUME IInv, [Next]_vars PROVE OnlyClosedHours'
  OBVIOUS
<1>1. /\ clock \in Nat /\ clock' \in Nat /\ clock <= clock'
      /\ now \in Nat /\ now <= clock
  BY ClockMonotonic, TimeIsNat DEF IInv, TypeOK, SessionIsSound
<1>2. /\ Trunc(now) <= Trunc(clock) /\ Trunc(clock) <= Trunc(clock')
      /\ Trunc(now) \in Int /\ Trunc(clock) \in Int /\ Trunc(clock') \in Int
  BY <1>1, TruncMonotonic, TruncBounds
<1>3. \A r \in trends \cup upserted : r.at \in Nat
  BY ReadingTime DEF IInv, TypeOK
<1>4. \A r \in trends : IsNumeric(r) /\ r.at < Trunc(clock)
  BY DEF IInv, OnlyClosedHours
<1>5. \A r \in upserted : IsNumeric(r) /\ r.at < Trunc(now)
  BY DEF IInv, SessionIsSound
<1>6. trends' \subseteq trends \cup upserted
  BY StepPublishesSession
<1>7. \A r \in trends \cup upserted : IsNumeric(r) /\ r.at < Trunc(clock')
  BY <1>2, <1>3, <1>4, <1>5
<1>8. OnlyClosedHours' <=> \A r \in trends' : IsNumeric(r) /\ r.at < Trunc(clock')
  BY DEF OnlyClosedHours, IsNumeric, Trunc
<1> QED
  BY <1>6, <1>7, <1>8

\* The invariant survives every step.
LEMMA NextIInv == IInv /\ [Next]_vars => IInv'
  BY NextType, NextPending, NextSession, NextClosed DEF IInv

-----------------------------------------------------------------------------
(***************************************************************************)
(* What leaves metric_history leaves it in the order of time.              *)
(***************************************************************************)
\* What the session of the thread holds covers every reading that is too old,
\* although readings are committed between its statements.
LEMMA NextThorough ==
    ASSUME IInv, SessionIsThorough, [Next]_vars
    PROVE  SessionIsThorough'
<1> USE DEF keeper
<1>1. /\ clock \in Nat /\ clock' \in Nat /\ clock <= clock'
      /\ \A r \in raw \cup pending : r.at \in Nat
  BY ClockMonotonic, TimeIsNat, ReadingTime DEF IInv, TypeOK
<1>2. /\ upserted \subseteq raw /\ \A q \in raw : q.at <= clock /\ q.at <= clock'
      /\ pc = "committing" =>
            \A q \in raw \cup pending : q.at < now - Retention => q \in deleted
  BY <1>1 DEF SessionIsThorough
<1>3. \A q \in pending : q.at <= clock /\ ~(q.at < now - Retention)
  BY CommitIsRecent DEF IInv, PendingIsRecent
<1>4. CASE UNCHANGED <<raw, pending, pc, now, upserted, deleted>>
  BY <1>1, <1>2, <1>4 DEF SessionIsThorough
<1>5. ASSUME NEW s \in SUBSET Series, SaveReadings(s) PROVE SessionIsThorough'
  <2>1. \A q \in pending' \ pending : ~(q.at < now - Retention)
    <3>1. \A q \in pending' \ pending : q.at = clock
      BY <1>5 DEF SaveReadings
    <3>2. now \in Nat /\ now <= clock
      BY TimeIsNat DEF IInv, TypeOK, SessionIsSound
    <3> QED
      BY <1>1, <3>1, <3>2, HousekeepingAssumption
  <2> QED
    BY <1>2, <1>3, <1>5, <2>1 DEF SaveReadings, SessionIsThorough
<1>6. CASE CommitReadings
  BY <1>2, <1>3, <1>6 DEF CommitReadings, SessionIsThorough
<1>7. CASE RollbackReadings
  BY <1>2, <1>7 DEF RollbackReadings, SessionIsThorough
<1>8. CASE BeginCycle
  BY <1>2, <1>8 DEF BeginCycle, SessionIsThorough
<1>9. CASE upsert_hourly_aggregates
  BY <1>2, <1>9 DEF upsert_hourly_aggregates, Aggregated, SessionIsThorough
<1>10. CASE delete_older_than
  BY <1>2, <1>3, <1>10 DEF delete_older_than, OldRows, retention_cutoff, SessionIsThorough
<1>11. CASE EndCycle /\ raw' \subseteq raw /\ clock' = clock
  BY <1>2, <1>11 DEF EndCycle, SessionIsThorough
<1> QED
  BY <1>4, <1>5, <1>6, <1>7, <1>8, <1>9, <1>10, <1>11
  DEF Next, vars, Tick, Commit, StatementTooLarge, CycleFails

\* Every step keeps what has left metric_history older than what is there.
LEMMA NextOldest ==
    ASSUME IInv, SessionIsThorough, DeletedIsOldest, [Next]_vars
    PROVE  DeletedIsOldest'
<1> USE DEF keeper
<1>1. CASE trends' = trends /\ raw' = raw /\ pending' \subseteq pending
  BY <1>1 DEF DeletedIsOldest
<1>2. ASSUME NEW s \in SUBSET Series, SaveReadings(s) PROVE DeletedIsOldest'
  <2>1. /\ trends' = trends /\ raw' = raw
        /\ \A q \in pending' \ pending : q.at = clock
    BY <1>2 DEF SaveReadings
  <2>2. ASSUME NEW r \in trends PROVE r.at < clock
    <3>1. r.at \in Nat /\ clock \in Nat /\ r.at < Trunc(clock)
      BY TimeIsNat, ReadingTime DEF IInv, TypeOK, OnlyClosedHours
    <3> QED
      BY <3>1, TruncBounds
  <2> QED
    BY <2>1, <2>2 DEF DeletedIsOldest
<1>3. CASE CommitReadings
  BY <1>3 DEF CommitReadings, DeletedIsOldest
<1>4. CASE Commit
  <2>1. /\ pc = "committing" /\ trends' \subseteq trends \cup upserted
        /\ raw' = raw \ deleted /\ pending' = pending
    BY <1>4 DEF Commit, Replaced
  <2> SUFFICES ASSUME NEW r \in trends' \ raw', NEW q \in raw' \cup pending'
               PROVE  r.at < q.at
    BY DEF DeletedIsOldest
  <2>2. CASE r \notin raw
    <3>1. r \in trends
      BY <2>1, <2>2 DEF SessionIsThorough
    <3> QED
      BY <2>1, <2>2, <3>1 DEF DeletedIsOldest
  <2>3. CASE r \in deleted
    <3>1. r.at < now - Retention
      BY <2>3 DEF IInv, SessionIsSound
    <3>2. ~(q.at < now - Retention)
      BY <2>1, CommitIsRecent DEF SessionIsThorough
    <3>3. r.at \in Nat /\ q.at \in Nat /\ now \in Nat /\ Retention \in Nat
      BY <2>1, <2>3, TimeIsNat, ReadingTime, HousekeepingAssumption DEF IInv, TypeOK
    <3> QED
      BY <3>1, <3>2, <3>3
  <2> QED
    BY <2>1, <2>2, <2>3
<1> QED
  BY <1>1, <1>2, <1>3, <1>4
  DEF Next, vars, Tick, RollbackReadings, BeginCycle, upsert_hourly_aggregates,
      delete_older_than, StatementTooLarge, CycleFails

\* A counted reading that has left metric_history is older than every reading
\* there and every reading on its way.
THEOREM OldestGoFirst == Spec => []DeletedIsOldest
<1>1. Init => IInv /\ SessionIsThorough /\ DeletedIsOldest
  BY InitIInv DEF Init, SessionIsThorough, DeletedIsOldest
<1>2. IInv /\ SessionIsThorough /\ DeletedIsOldest /\ [Next]_vars
        => IInv' /\ SessionIsThorough' /\ DeletedIsOldest'
  BY NextIInv, NextThorough, NextOldest
<1> QED
  BY <1>1, <1>2, PTL DEF Spec

-----------------------------------------------------------------------------
\* The state stays well formed and no trend counts a reading of an open hour.
THEOREM ClosedHours == Spec => [](TypeOK /\ OnlyClosedHours)
<1>1. Init => IInv
  BY InitIInv
<1>2. IInv /\ [Next]_vars => IInv'
  BY NextIInv
<1>3. IInv => TypeOK /\ OnlyClosedHours
  BY DEF IInv
<1> QED
  BY <1>1, <1>2, <1>3, PTL DEF Spec

\* A numeric reading is deleted only by the transaction whose trend counts it.
THEOREM NothingDeletedUncounted == Spec => DeletedAreCounted
<1>1. Init => IInv
  BY InitIInv
<1>2. IInv /\ [Next]_vars => IInv'
  BY NextIInv
<1>3. IInv /\ [Next]_vars => [DeletesOnlyCounted]_vars
  <2> SUFFICES ASSUME IInv, [Next]_vars PROVE DeletesOnlyCounted \/ UNCHANGED vars
    OBVIOUS
  <2>1. CASE Commit
    <3>1. \A r \in deleted : IsNumeric(r) => r \in upserted
      BY <2>1 DEF Commit, IInv, SessionIsSound
    <3>2. raw \ raw' \subseteq deleted /\ upserted \subseteq trends'
      BY <2>1 DEF Commit, Replaced
    <3> QED
      BY <3>1, <3>2 DEF DeletesOnlyCounted
  <2>2. CASE raw \subseteq raw'
    BY <2>2 DEF DeletesOnlyCounted
  <2> QED
    BY <2>1, <2>2
    DEF Next, vars, Tick, SaveReadings, CommitReadings, RollbackReadings, BeginCycle,
        upsert_hourly_aggregates, delete_older_than, StatementTooLarge, CycleFails
<1> QED
  BY <1>1, <1>2, <1>3, PTL DEF Spec, DeletedAreCounted

\* No step removes a bucket from metric_trends.
LEMMA StepKeepsBuckets ==
    ASSUME [Next]_vars
    PROVE  Buckets(trends) \subseteq Buckets(trends')
<1>1. CASE Commit
  <2>1. trends' = Replaced(trends, upserted)
    BY <1>1 DEF Commit
  <2>2. ASSUME NEW r \in trends PROVE Bucket(r) \in Buckets(trends')
    <3>1. CASE Bucket(r) \in Buckets(upserted)
      BY <2>1, <3>1 DEF Replaced, Buckets
    <3>2. CASE Bucket(r) \notin Buckets(upserted)
      BY <2>1, <3>2 DEF Replaced, Buckets
    <3> QED
      BY <3>1, <3>2
  <2> QED
    BY <2>2 DEF Buckets
<1>2. CASE trends' = trends
  BY <1>2
<1> QED
  BY <1>1, <1>2
  DEF Next, vars, Tick, SaveReadings, CommitReadings, RollbackReadings, BeginCycle,
      upsert_hourly_aggregates, delete_older_than, StatementTooLarge, CycleFails

\* A bucket once published stays: an upsert replaces it, nothing removes it.
THEOREM PublishedBucketsStay == Spec => BucketsStay
<1>1. [Next]_vars => [Buckets(trends) \subseteq Buckets(trends')]_vars
  BY StepKeepsBuckets
<1> QED
  BY <1>1, PTL DEF Spec, BucketsStay

\* What is stored or held are readings, and the session of the housekeeping thread
\* is empty between two cycles, committed or failed.
THEOREM TypeCorrect == Spec => []TypeOK
<1>1. TypeOK /\ OnlyClosedHours => TypeOK
  OBVIOUS
<1> QED
  BY ClosedHours, <1>1, PTL
=============================================================================
