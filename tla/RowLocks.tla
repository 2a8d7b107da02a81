------------------------------ MODULE RowLocks ------------------------------
(***************************************************************************)
(* The sessions that write rows of devices: the collection cycle and the   *)
(* scans.  Each keeps one transaction open across its awaits, so that the  *)
(* rows it has flushed stay locked while it is suspended, and flushes with *)
(* a synchronous call: a session that waits for a row blocks its event     *)
(* loop, and with it every other session of the same process.  A scan runs *)
(* on the loop of the collection cycle (POST /devices/scan) or in a        *)
(* process of its own (python -m composer.registry_devices).               *)
(***************************************************************************)
EXTENDS Integers, Sequences, FiniteSets

CONSTANTS
    Cycle,   \* the collection loop
    Scans,   \* callers of run_ip_and_snmp_scan
    Rows,    \* the primary keys of devices
    Loops,   \* event loops, one for each process
    LoopOf,  \* the event loop of each session
    Nobody   \* no session

Sessions == {Cycle} \cup Scans

ASSUME RowLocksAssumption ==
    /\ Cycle \notin Scans
    /\ Rows \subseteq Nat
    /\ IsFiniteSet(Rows)
    /\ LoopOf \in [Sessions -> Loops]
    /\ Nobody \notin Sessions

VARIABLES
    pc,       \* the await at which each session is suspended
    running,  \* the session each event loop is running
    todo,     \* rows the session has still to write before its next await
    locked    \* rows its open transaction has written

vars == <<pc, running, todo, locked>>

-----------------------------------------------------------------------------
\* A stretch of code writes some rows, each once, in some order.
Orders(S) == {f \in UNION {[1 .. n -> S] : n \in 0 .. Cardinality(S)} :
                 \A i, j \in DOMAIN f : i # j => f[i] # f[j]}

\* The unit of work of one flush writes rows by primary key.
Ascending(S) == {f \in Orders(S) : \A i, j \in DOMAIN f : i < j => f[i] < f[j]}

\* Mutant: a scan identifies any device that answers, not only its own.
Writes_of_others(s) ==
    CASE pc[s] = "pinging"     -> Orders(Rows) \ {<<>>}
      [] pc[s] = "collecting"  -> {<<>>}
      [] pc[s] = "discovering" -> Ascending(Rows)
      [] OTHER                 -> Orders(Rows)

\* What a session writes when the await at which it is suspended is over: the
\* cycle one poll result at a time, in the order of the query; a scan all its
\* devices in one flush, and then the identities of those that answered.
Writes(s) ==
    CASE pc[s] = "pinging"     -> Orders(Rows) \ {<<>>}
      [] pc[s] = "collecting"  -> {<<>>}
      [] pc[s] = "discovering" -> Ascending(Rows)
      [] pc[s] = "probing"     -> Orders(locked[s])
      [] pc[s] = "reprobing"   -> Orders(Rows)

WaitsFor(s, t) ==
    /\ s # t
    /\ running[LoopOf[s]] = s
    /\ todo[s] # <<>>
    /\ Head(todo[s]) \in locked[t]

Init ==
    /\ pc = [s \in Sessions |-> "idle"]
    /\ running = [l \in Loops |-> Nobody]
    /\ todo = [s \in Sessions |-> <<>>]
    /\ locked = [s \in Sessions |-> {}]

LoopIsFree(s) == running[LoopOf[s]] = Nobody

LeaveLoop(s) == running' = [running EXCEPT ![LoopOf[s]] = Nobody]

\* The session is opened and the first await begins: the pings of a cycle, the
\* ARP of a scan, or, with ipscan=False, the probes of all known devices.
Begin(s) ==
    /\ pc[s] = "idle"
    /\ LoopIsFree(s)
    /\ \E await \in IF s = Cycle THEN {"pinging"} ELSE {"discovering", "reprobing"} :
          pc' = [pc EXCEPT ![s] = await]
    /\ UNCHANGED <<running, todo, locked>>

\* The await is over and the loop gives the session its turn.
Resume(s) ==
    /\ pc[s] # "idle"
    /\ LoopIsFree(s)
    /\ running' = [running EXCEPT ![LoopOf[s]] = s]
    /\ \E rows \in Writes(s) : todo' = [todo EXCEPT ![s] = rows]
    /\ UNCHANGED <<pc, locked>>

\* flush(): the UPDATE returns when no other transaction has the row.
Write(s) ==
    /\ running[LoopOf[s]] = s
    /\ todo[s] # <<>>
    /\ \A t \in Sessions : ~WaitsFor(s, t)
    /\ locked' = [locked EXCEPT ![s] = @ \cup {Head(todo[s])}]
    /\ todo' = [todo EXCEPT ![s] = Tail(@)]
    /\ UNCHANGED <<pc, running>>

\* The next await: the SNMP requests.
Suspend(s) ==
    /\ running[LoopOf[s]] = s
    /\ todo[s] = <<>>
    /\ pc[s] \in {"pinging", "discovering"}
    /\ pc' = [pc EXCEPT ![s] = IF s = Cycle THEN "collecting" ELSE "probing"]
    /\ LeaveLoop(s)
    /\ UNCHANGED <<todo, locked>>

\* Mutant: the transaction is left open.
EndSession_keeps_locks(s) ==
    /\ pc' = [pc EXCEPT ![s] = "idle"]
    /\ todo' = [todo EXCEPT ![s] = <<>>]
    /\ UNCHANGED locked

\* The transaction ends and its rows are free.
EndSession(s) ==
    /\ pc' = [pc EXCEPT ![s] = "idle"]
    /\ todo' = [todo EXCEPT ![s] = <<>>]
    /\ locked' = [locked EXCEPT ![s] = {}]

Commit(s) ==
    /\ running[LoopOf[s]] = s
    /\ todo[s] = <<>>
    /\ pc[s] \in {"collecting", "probing", "reprobing"}
    /\ EndSession(s)
    /\ LeaveLoop(s)

\* The database finds sessions that wait for each other and ends one of them:
\* the exception rolls its session back.  It knows nothing of event loops.
Deadlocked(s) ==
    \E S \in SUBSET Sessions :
        /\ s \in S
        /\ \A x \in S : \E y \in S : WaitsFor(x, y)
        /\ \A y \in S : \E x \in S : WaitsFor(x, y)

DeadlockVictim(s) ==
    /\ Deadlocked(s)
    /\ EndSession(s)
    /\ LeaveLoop(s)

\* Any other exception, raised when the session has its turn: an await that
\* failed, or a connection that was lost, also while it waited for a row.
Fail(s) ==
    /\ running[LoopOf[s]] = s
    /\ EndSession(s)
    /\ LeaveLoop(s)

\* A process stops and starts again: the database rolls its sessions back.
Restart(l) ==
    LET mine == {s \in Sessions : LoopOf[s] = l}
    IN  /\ \E s \in mine : pc[s] # "idle"
        /\ pc' = [s \in Sessions |-> IF s \in mine THEN "idle" ELSE pc[s]]
        /\ todo' = [s \in Sessions |-> IF s \in mine THEN <<>> ELSE todo[s]]
        /\ locked' = [s \in Sessions |-> IF s \in mine THEN {} ELSE locked[s]]
        /\ running' = [running EXCEPT ![l] = Nobody]

Next ==
    \/ \E s \in Sessions :
          \/ Begin(s)
          \/ Resume(s)
          \/ Write(s)
          \/ Suspend(s)
          \/ Commit(s)
          \/ DeadlockVictim(s)
          \/ Fail(s)
    \/ \E l \in Loops : Restart(l)

(***************************************************************************)
(* Every await ends, and an event loop gives each of its ready tasks its   *)
(* turn, in order.  The database queues the transactions that wait for a   *)
(* row and looks for deadlocks.  The collection loop begins a cycle after  *)
(* each sleep; nothing is assumed of scans beginning, failures, restarts.  *)
(***************************************************************************)
Fairness ==
    /\ SF_vars(Begin(Cycle))
    /\ \A s \in Sessions :
          /\ SF_vars(Resume(s))
          /\ SF_vars(Write(s))
          /\ WF_vars(Suspend(s))
          /\ WF_vars(Commit(s))
    /\ WF_vars(\E s \in Sessions : DeadlockVictim(s))

Spec == Init /\ [][Next]_vars

FairSpec == Spec /\ Fairness
-----------------------------------------------------------------------------
\* Every variable keeps to its domain; only the session a loop runs has rows to
\* write, only an open one has rows locked.
TypeOK ==
    /\ pc \in [Sessions -> {"idle", "pinging", "collecting", "discovering",
                            "probing", "reprobing"}]
    /\ running \in [Loops -> Sessions \cup {Nobody}]
    /\ todo \in [Sessions -> Seq(Rows)]
    /\ locked \in [Sessions -> SUBSET Rows]
    /\ \A l \in Loops : running[l] \in Sessions => LoopOf[running[l]] = l
    /\ \A s \in Sessions :
          /\ pc[s] = "idle" => running[LoopOf[s]] # s /\ locked[s] = {}
          /\ running[LoopOf[s]] # s => todo[s] = <<>>

\* No row is written by two open transactions.
RowsAreExclusive ==
    \A s, t \in Sessions : s # t => locked[s] \cap locked[t] = {}

\* What is left to write after the SNMP requests is already locked.
LastWritesAreLocked ==
    \A s \in Sessions :
        /\ pc[s] = "collecting" => todo[s] = <<>>
        /\ pc[s] = "probing" => \A i \in 1 .. Len(todo[s]) : todo[s][i] \in locked[s]

\* A stretch that may write rows it has not locked begins with no row locked.
FirstAwaitsLockNothing ==
    \A s \in Sessions :
        running[LoopOf[s]] # s /\ pc[s] \in {"pinging", "discovering", "reprobing"} =>
            locked[s] = {}

\* Who holds rows across an await needs no row of another session to end: it is
\* suspended in the SNMP requests of a cycle or of a scan that has registered
\* what it found, and from there on it waits for nobody.  Sessions do wait, also
\* with rows they have just flushed, in the stretch before those requests (the
\* cycle flushes one ping result after another) and in the one that ends a scan
\* of all known devices; the second begins with no row held.
HoldersNeedNoOther ==
    \A s \in Sessions :
        /\ running[LoopOf[s]] # s /\ locked[s] # {} => pc[s] \in {"collecting", "probing"}
        /\ pc[s] \in {"collecting", "probing"} => \A t \in Sessions : ~WaitsFor(s, t)

\* The inductive invariant of the safety proof.
IInv == TypeOK /\ RowsAreExclusive /\ LastWritesAreLocked /\ FirstAwaitsLockNothing

\* A cycle begins again and again: one is tried at every tick (run_forever),
\* whatever scans do and whichever sessions the database rolls back.
CyclesGoOn == []<>(pc[Cycle] = "idle") /\ []<>(pc[Cycle] # "idle")

\* A scan that has begun ends.
ScansEnd == \A s \in Scans : pc[s] # "idle" ~> pc[s] = "idle"
=============================================================================
