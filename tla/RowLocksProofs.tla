--------------------------- MODULE RowLocksProofs ---------------------------
(***************************************************************************)
(* Theorems about RowLocks: its state stays well formed, no row is locked  *)
(* twice, and who holds rows across an await needs no row of another.      *)
(***************************************************************************)
EXTENDS RowLocks, FiniteSetTheorems, TLAPS

\* The writes of a stretch are a sequence of rows of the given set.
LEMMA OrdersAreSequences ==
    ASSUME NEW S \in SUBSET Rows, NEW f \in Orders(S)
    PROVE  f \in Seq(S)
<1>1. IsFiniteSet(S)
  BY RowLocksAssumption, FS_Subset
<1>2. Cardinality(S) \in Nat
  BY <1>1, FS_CardinalityType
<1>3. PICK n \in 0 .. Cardinality(S) : f \in [1 .. n -> S]
  BY DEF Orders
<1> QED
  BY <1>2, <1>3

\* Whatever a session may write next is a sequence of rows.
LEMMA WritesAreRows ==
    ASSUME TypeOK, NEW s \in Sessions, pc[s] # "idle", NEW f \in Writes(s)
    PROVE  /\ f \in Seq(Rows)
           /\ pc[s] = "collecting" => f = <<>>
           /\ pc[s] = "probing" => f \in Seq(locked[s])
<1>1. locked[s] \in SUBSET Rows
  BY DEF TypeOK
<1>2. CASE pc[s] = "pinging"
  BY <1>2, OrdersAreSequences DEF Writes
<1>3. CASE pc[s] = "collecting"
  BY <1>3 DEF Writes
<1>4. CASE pc[s] = "discovering"
  BY <1>4, OrdersAreSequences DEF Writes, Ascending
<1>5. CASE pc[s] = "probing"
  <2>1. f \in Seq(locked[s])
    BY <1>1, <1>5, OrdersAreSequences DEF Writes
  <2> QED
    BY <1>1, <1>5, <2>1
<1>6. CASE pc[s] = "reprobing"
  BY <1>6, OrdersAreSequences DEF Writes
<1>7. pc[s] \in {"pinging", "collecting", "discovering", "probing", "reprobing"}
  BY DEF TypeOK
<1> QED
  BY <1>2, <1>3, <1>4, <1>5, <1>6, <1>7

\* Initially no session is open.
LEMMA InitIInv == Init => IInv
  BY RowLocksAssumption
     DEF Init, IInv, TypeOK, RowsAreExclusive, LastWritesAreLocked, FirstAwaitsLockNothing

\* A session that ends has nothing left to write and nothing locked.
LEMMA EndKeepsIInv ==
    ASSUME IInv, NEW s \in Sessions, running[LoopOf[s]] = s, EndSession(s), LeaveLoop(s)
    PROVE  IInv'
<1> USE RowLocksAssumption DEF EndSession, LeaveLoop
<1>1. TypeOK'
  <2>1. /\ pc' \in [Sessions -> {"idle", "pinging", "collecting", "discovering",
                                 "probing", "reprobing"}]
        /\ running' \in [Loops -> Sessions \cup {Nobody}]
    BY DEF IInv, TypeOK
  <2>4. todo' \in [Sessions -> Seq(Rows)]
    <3>1. <<>> \in Seq(Rows) /\ todo \in [Sessions -> Seq(Rows)]
      BY DEF IInv, TypeOK
    <3> QED
      BY <3>1
  <2>5. locked' \in [Sessions -> SUBSET Rows]
    BY DEF IInv, TypeOK
  <2>2. \A l \in Loops : running'[l] \in Sessions => LoopOf[running'[l]] = l
    BY DEF IInv, TypeOK
  <2>3. ASSUME NEW t \in Sessions
        PROVE  /\ pc'[t] = "idle" => running'[LoopOf[t]] # t /\ locked'[t] = {}
               /\ running'[LoopOf[t]] # t => todo'[t] = <<>>
    BY DEF IInv, TypeOK
  <2> QED
    BY <2>1, <2>2, <2>3, <2>4, <2>5 DEF TypeOK
<1>2. RowsAreExclusive'
  BY DEF IInv, TypeOK, RowsAreExclusive
<1>3. LastWritesAreLocked'
  BY DEF IInv, TypeOK, LastWritesAreLocked
<1>4. FirstAwaitsLockNothing'
  BY DEF IInv, TypeOK, FirstAwaitsLockNothing
<1> QED
  BY <1>1, <1>2, <1>3, <1>4 DEF IInv

\* The invariant survives the opening of a session.
LEMMA BeginKeepsIInv == ASSUME IInv, NEW s \in Sessions, Begin(s) PROVE IInv'
<1> USE RowLocksAssumption DEF Begin, LoopIsFree
<1>1. PICK await \in {"pinging", "discovering", "reprobing"} : pc' = [pc EXCEPT ![s] = await]
  OBVIOUS
<1>2. TypeOK'
  BY <1>1 DEF IInv, TypeOK
<1>3. RowsAreExclusive'
  BY DEF IInv, RowsAreExclusive
<1>4. LastWritesAreLocked'
  BY <1>1 DEF IInv, TypeOK, LastWritesAreLocked
<1>5. FirstAwaitsLockNothing'
  BY <1>1 DEF IInv, TypeOK, FirstAwaitsLockNothing
<1> QED
  BY <1>2, <1>3, <1>4, <1>5 DEF IInv

\* The invariant survives the end of an await.
LEMMA ResumeKeepsIInv == ASSUME IInv, NEW s \in Sessions, Resume(s) PROVE IInv'
<1> USE RowLocksAssumption DEF Resume, LoopIsFree
<1>1. PICK rows \in Writes(s) : todo' = [todo EXCEPT ![s] = rows]
  OBVIOUS
<1>2. /\ rows \in Seq(Rows)
      /\ pc[s] = "collecting" => rows = <<>>
      /\ pc[s] = "probing" => rows \in Seq(locked[s])
  BY WritesAreRows DEF IInv
<1>3. TypeOK'
  <2>1. /\ running' \in [Loops -> Sessions \cup {Nobody}]
        /\ todo' \in [Sessions -> Seq(Rows)]
    BY <1>1, <1>2 DEF IInv, TypeOK
  <2>2. \A l \in Loops : running'[l] \in Sessions => LoopOf[running'[l]] = l
    BY DEF IInv, TypeOK
  <2>3. ASSUME NEW t \in Sessions
        PROVE  /\ pc'[t] = "idle" => running'[LoopOf[t]] # t /\ locked'[t] = {}
               /\ running'[LoopOf[t]] # t => todo'[t] = <<>>
    <3>1. CASE t = s
      BY <3>1 DEF IInv, TypeOK
    <3>2. CASE t # s
      <4>1. pc'[t] = pc[t] /\ todo'[t] = todo[t] /\ locked'[t] = locked[t]
        BY <1>1, <3>2 DEF IInv, TypeOK
      <4>2. running[LoopOf[t]] # t => running'[LoopOf[t]] # t
        BY <3>2 DEF IInv, TypeOK
      <4>3. running[LoopOf[t]] = t => running'[LoopOf[t]] = t
        BY <3>2 DEF IInv, TypeOK
      <4> QED
        BY <4>1, <4>2, <4>3 DEF IInv, TypeOK
    <3> QED
      BY <3>1, <3>2
  <2> QED
    BY <2>1, <2>2, <2>3 DEF IInv, TypeOK
<1>4. RowsAreExclusive'
  BY DEF IInv, RowsAreExclusive
<1>5. LastWritesAreLocked'
  BY <1>1, <1>2 DEF IInv, TypeOK, LastWritesAreLocked
<1>6. FirstAwaitsLockNothing'
  BY DEF IInv, TypeOK, FirstAwaitsLockNothing
<1> QED
  BY <1>3, <1>4, <1>5, <1>6 DEF IInv

\* The invariant survives the flush of one row.
LEMMA WriteKeepsIInv == ASSUME IInv, NEW s \in Sessions, Write(s) PROVE IInv'
<1> DEFINE row == Head(todo[s])
           rest == Tail(todo[s])
<1> USE RowLocksAssumption
<1>1. todo[s] \in Seq(Rows) /\ todo[s] # <<>>
  BY DEF Write, IInv, TypeOK
<1>2. /\ row \in Rows /\ rest \in Seq(Rows) /\ Len(rest) = Len(todo[s]) - 1
      /\ \A i \in 1 .. Len(rest) : i + 1 \in 1 .. Len(todo[s]) /\ rest[i] = todo[s][i + 1]
  BY <1>1
<1>3. \A t \in Sessions \ {s} : row \notin locked[t]
  BY DEF Write, WaitsFor
<1>4. /\ locked' = [locked EXCEPT ![s] = locked[s] \cup {row}]
      /\ todo' = [todo EXCEPT ![s] = rest]
      /\ UNCHANGED <<pc, running>>
      /\ running[LoopOf[s]] = s
  BY DEF Write
<1> HIDE DEF row, rest
<1>5. TypeOK'
  BY <1>2, <1>4 DEF IInv, TypeOK
<1>6. RowsAreExclusive'
  BY <1>3, <1>4 DEF IInv, TypeOK, RowsAreExclusive
<1>7. ASSUME NEW t \in Sessions
      PROVE  /\ pc'[t] = "collecting" => todo'[t] = <<>>
             /\ pc'[t] = "probing" =>
                    \A i \in 1 .. Len(todo'[t]) : todo'[t][i] \in locked'[t]
  <2>1. CASE t = s
    <3>1. todo'[t] = rest /\ locked'[t] = locked[s] \cup {row} /\ pc'[t] = pc[s]
      BY <1>4, <2>1 DEF IInv, TypeOK
    <3> QED
      BY <1>1, <1>2, <3>1 DEF IInv, LastWritesAreLocked
  <2>2. CASE t # s
    BY <1>4, <2>2 DEF IInv, TypeOK, LastWritesAreLocked
  <2> QED
    BY <2>1, <2>2
<1>8. LastWritesAreLocked'
  BY <1>7 DEF LastWritesAreLocked
<1>9. FirstAwaitsLockNothing'
  BY <1>4 DEF IInv, TypeOK, FirstAwaitsLockNothing
<1> QED
  BY <1>5, <1>6, <1>8, <1>9 DEF IInv

\* The invariant survives the beginning of the SNMP requests.
LEMMA SuspendKeepsIInv == ASSUME IInv, NEW s \in Sessions, Suspend(s) PROVE IInv'
<1> USE RowLocksAssumption DEF Suspend, LeaveLoop
<1>1. TypeOK'
  BY DEF IInv, TypeOK
<1>2. RowsAreExclusive'
  BY DEF IInv, RowsAreExclusive
<1>3. LastWritesAreLocked'
  BY DEF IInv, TypeOK, LastWritesAreLocked
<1>4. FirstAwaitsLockNothing'
  BY DEF IInv, TypeOK, FirstAwaitsLockNothing
<1> QED
  BY <1>1, <1>2, <1>3, <1>4 DEF IInv

\* The invariant survives a restart.
LEMMA RestartKeepsIInv == ASSUME IInv, NEW l \in Loops, Restart(l) PROVE IInv'
<1> USE RowLocksAssumption DEF Restart
<1>1. TypeOK'
  BY DEF IInv, TypeOK
<1>2. RowsAreExclusive'
  BY DEF IInv, TypeOK, RowsAreExclusive
<1>3. LastWritesAreLocked'
  BY DEF IInv, TypeOK, LastWritesAreLocked
<1>4. FirstAwaitsLockNothing'
  BY DEF IInv, TypeOK, FirstAwaitsLockNothing
<1> QED
  BY <1>1, <1>2, <1>3, <1>4 DEF IInv

\* The invariant survives every step.
LEMMA NextIInv == IInv /\ [Next]_vars => IInv'
<1> SUFFICES ASSUME IInv, [Next]_vars PROVE IInv'
  OBVIOUS
<1>1. CASE UNCHANGED vars
  BY <1>1 DEF vars, IInv, TypeOK, RowsAreExclusive, LastWritesAreLocked,
            FirstAwaitsLockNothing
<1>2. ASSUME NEW s \in Sessions, Begin(s) PROVE IInv'
  BY <1>2, BeginKeepsIInv
<1>3. ASSUME NEW s \in Sessions, Resume(s) PROVE IInv'
  BY <1>3, ResumeKeepsIInv
<1>4. ASSUME NEW s \in Sessions, Write(s) PROVE IInv'
  BY <1>4, WriteKeepsIInv
<1>5. ASSUME NEW s \in Sessions, Suspend(s) PROVE IInv'
  BY <1>5, SuspendKeepsIInv
<1>6. ASSUME NEW s \in Sessions, Commit(s) PROVE IInv'
  BY <1>6, EndKeepsIInv DEF Commit
<1>7. ASSUME NEW s \in Sessions, DeadlockVictim(s) PROVE IInv'
  <2>1. running[LoopOf[s]] = s
    BY <1>7 DEF DeadlockVictim, Deadlocked, WaitsFor
  <2> QED
    BY <1>7, <2>1, EndKeepsIInv DEF DeadlockVictim
<1>8. ASSUME NEW s \in Sessions, Fail(s) PROVE IInv'
  BY <1>8, EndKeepsIInv DEF Fail
<1>9. ASSUME NEW l \in Loops, Restart(l) PROVE IInv'
  BY <1>9, RestartKeepsIInv
<1> QED
  BY <1>1, <1>2, <1>3, <1>4, <1>5, <1>6, <1>7, <1>8, <1>9 DEF Next

\* Where rows are exclusive, the last writes already locked and the first awaits
\* without locks, who holds rows across an await needs no other.
LEMMA IInvHoldersNeedNoOther == IInv => HoldersNeedNoOther
<1>1. ASSUME IInv, NEW s \in Sessions, running[LoopOf[s]] # s, locked[s] # {}
      PROVE  pc[s] \in {"collecting", "probing"}
  BY <1>1 DEF IInv, TypeOK, FirstAwaitsLockNothing
<1>2. ASSUME IInv, NEW s \in Sessions, NEW t \in Sessions,
             pc[s] \in {"collecting", "probing"}, WaitsFor(s, t)
      PROVE  FALSE
  <2>1. s # t /\ todo[s] # <<>> /\ todo[s][1] \in locked[t]
    BY <1>2 DEF WaitsFor, IInv, TypeOK
  <2>2. todo[s] \in Seq(Rows) /\ 1 \in 1 .. Len(todo[s])
    BY <1>2, <2>1 DEF IInv, TypeOK
  <2>3. pc[s] # "collecting"
    BY <1>2, <2>1 DEF IInv, LastWritesAreLocked
  <2>4. pc[s] # "probing"
    BY <1>2, <2>1, <2>2 DEF IInv, LastWritesAreLocked, RowsAreExclusive
  <2> QED
    BY <1>2, <2>3, <2>4
<1> QED
  BY <1>1, <1>2 DEF HoldersNeedNoOther

\* In every behaviour the state stays well formed, and a session that holds rows
\* across an await needs no row of another session to end.
THEOREM HoldersGoOn == Spec => [](TypeOK /\ HoldersNeedNoOther)
<1>1. Init => IInv
  BY InitIInv
<1>2. IInv /\ [Next]_vars => IInv'
  BY NextIInv
<1>3. IInv => TypeOK /\ HoldersNeedNoOther
  BY IInvHoldersNeedNoOther DEF IInv
<1> QED
  BY <1>1, <1>2, <1>3, PTL DEF Spec

\* An idle session holds no lock, a session has rows left to write only while its
\* event loop runs it, and a loop runs only sessions of its own.
THEOREM TypeCorrect == Spec => []TypeOK
<1>1. TypeOK /\ HoldersNeedNoOther => TypeOK
  OBVIOUS
<1> QED
  BY HoldersGoOn, <1>1, PTL
=============================================================================
