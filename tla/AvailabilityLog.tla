-------------------------- MODULE AvailabilityLog --------------------------
(***************************************************************************)
(* What the availability log promises its readers (models/                 *)
(* availability_event.py): for each device, a gapless record of its status *)
(* since the first poll, where a change of status ends the open event and  *)
(* opens the next one at the same instant, and nothing else is ever        *)
(* written.  Devices may change together, as the devices of one collection *)
(* cycle do.  Polling implements this specification.                       *)
(***************************************************************************)
EXTENDS Integers, Sequences, TLAPS

CONSTANTS Devices, MaxTime

VARIABLES
    status,  \* status of each device, UNKNOWN before its first poll
    log      \* events of each device, oldest first

vars == <<status, log>>

UNKNOWN == "UNKNOWN"
ONLINE  == "ONLINE"
OFFLINE == "OFFLINE"
NULL == -1
Time == 0 .. MaxTime

Event == [status : {ONLINE, OFFLINE}, started_at : Time, ended_at : Time \cup {NULL}]

Init ==
    /\ status = [d \in Devices |-> UNKNOWN]
    /\ log = [d \in Devices |-> <<>>]

Opened(s, now) == [status |-> s, started_at |-> now, ended_at |-> NULL]

\* The log with its last event ended.
Ended(l, now) == [l EXCEPT ![Len(l)].ended_at = now]

\* No event starts before the one it follows.
NotBefore(l, now) == l # <<>> => l[Len(l)].started_at <= now

\* Device d goes from a status to another, at the instant now.
Changes(d, now) ==
    /\ status'[d] \in {ONLINE, OFFLINE} \ {status[d]}
    /\ NotBefore(log[d], now)
    /\ log'[d] = Append(IF log[d] = <<>> THEN <<>> ELSE Ended(log[d], now),
                        Opened(status'[d], now))

Keeps(d) == status'[d] = status[d] /\ log'[d] = log[d]

\* At one instant, some devices change and the others keep their status.
Next ==
    /\ status' = [d \in Devices |-> status'[d]]
    /\ log' = [d \in Devices |-> log'[d]]
    /\ \E now \in Time : \A d \in Devices : Keeps(d) \/ Changes(d, now)

Spec == Init /\ [][Next]_vars
-----------------------------------------------------------------------------
TypeOK ==
    /\ status \in [Devices -> {UNKNOWN, ONLINE, OFFLINE}]
    /\ log \in [Devices -> Seq(Event)]

\* One open event at most, the last, and it tells the status.
LastIsOpen ==
    \A d \in Devices :
        /\ status[d] = UNKNOWN <=> log[d] = <<>>
        /\ \A i \in 1 .. Len(log[d]) : log[d][i].ended_at = NULL <=> i = Len(log[d])
        /\ log[d] # <<>> => log[d][Len(log[d])].status = status[d]

\* Each event ends when the next one starts, not before it started itself, and
\* has another status than it.
Contiguous ==
    \A d \in Devices : \A i \in 1 .. Len(log[d]) - 1 :
        /\ log[d][i].ended_at = log[d][i + 1].started_at
        /\ log[d][i].started_at <= log[d][i].ended_at
        /\ log[d][i].status # log[d][i + 1].status

\* The promise, as one inductive invariant.
Inv == TypeOK /\ LastIsOpen /\ Contiguous
-----------------------------------------------------------------------------
\* A change of status extends a log that keeps the promise to one that does.
LEMMA ChangeKeepsPromise ==
    ASSUME Inv, NEW d \in Devices, NEW now \in Time, Changes(d, now)
    PROVE  /\ log'[d] \in Seq(Event)
           /\ status'[d] # UNKNOWN /\ log'[d] # <<>>
           /\ \A i \in 1 .. Len(log'[d]) : log'[d][i].ended_at = NULL <=> i = Len(log'[d])
           /\ log'[d][Len(log'[d])].status = status'[d]
           /\ \A i \in 1 .. Len(log'[d]) - 1 :
                /\ log'[d][i].ended_at = log'[d][i + 1].started_at
                /\ log'[d][i].started_at <= log'[d][i].ended_at
                /\ log'[d][i].status # log'[d][i + 1].status
<1> DEFINE l == log[d]
           n == Len(l)
           closed == IF l = <<>> THEN <<>> ELSE Ended(l, now)
           e == Opened(status'[d], now)
           new == log'[d]
<1>1. l \in Seq(Event) /\ n \in Nat /\ now # NULL
  BY DEF Inv, TypeOK, Time, NULL
<1>2. e \in Event /\ e.status = status'[d] /\ e.started_at = now /\ e.ended_at = NULL
  BY DEF Changes, Opened, Event
<1>3. \A i \in 1 .. n : l[i] \in Event
  BY <1>1
<1>4. closed \in Seq(Event) /\ Len(closed) = n
  BY <1>1, <1>3 DEF Ended, Event
<1>5. \A i \in 1 .. n - 1 : closed[i] = l[i]
  BY <1>1 DEF Ended
<1>6. n # 0 => /\ closed[n].ended_at = now
               /\ closed[n].status = l[n].status
               /\ closed[n].started_at = l[n].started_at
  <2> SUFFICES ASSUME n # 0 PROVE /\ closed[n].ended_at = now
                                   /\ closed[n].status = l[n].status
                                   /\ closed[n].started_at = l[n].started_at
    OBVIOUS
  <2>1. l # <<>> /\ n \in 1 .. n
    BY <1>1
  <2>2. closed[n] = [l[n] EXCEPT !.ended_at = now]
    BY <1>1, <2>1 DEF Ended
  <2> QED
    BY <1>3, <2>1, <2>2 DEF Event
<1>7. new = Append(closed, e)
  BY DEF Changes
<1>8. n # 0 => l[n].started_at <= now /\ l[n].status # status'[d]
  BY <1>1 DEF Changes, NotBefore, Inv, LastIsOpen
<1>9. \A i \in 1 .. n - 1 : /\ l[i].ended_at # NULL
                             /\ l[i].ended_at = l[i + 1].started_at
                             /\ l[i].started_at <= l[i].ended_at
                             /\ l[i].status # l[i + 1].status
  BY <1>1 DEF Inv, LastIsOpen, Contiguous
<1>10. status'[d] # UNKNOWN
  BY DEF Changes, UNKNOWN, ONLINE, OFFLINE
<1> HIDE DEF l, n, closed, e
<1>11. /\ new \in Seq(Event) /\ Len(new) = n + 1 /\ new # <<>>
       /\ \A i \in 1 .. n : new[i] = closed[i]
       /\ new[n + 1] = e
  BY <1>1, <1>2, <1>4, <1>7
<1> HIDE DEF new
<1>12. \A i \in 1 .. n : /\ new[i].ended_at = new[i + 1].started_at
                         /\ new[i].started_at <= new[i].ended_at
                         /\ new[i].status # new[i + 1].status
                         /\ new[i].ended_at # NULL
  <2> TAKE i \in 1 .. n
  <2>1. CASE i = n
    BY <1>1, <1>2, <1>6, <1>8, <1>11, <2>1
  <2>2. CASE i = n - 1
    BY <1>1, <1>5, <1>6, <1>9, <1>11, <2>2
  <2>3. CASE i < n - 1
    <3>1. i \in 1 .. n - 1 /\ i + 1 \in 1 .. n - 1
      BY <1>1, <2>3
    <3>2. new[i] = l[i] /\ new[i + 1] = l[i + 1]
      BY <1>1, <1>5, <1>11, <3>1
    <3> QED
      BY <1>9, <3>1, <3>2
  <2> QED
    BY <1>1, <2>1, <2>2, <2>3
<1>13. \A i \in 1 .. Len(new) : new[i].ended_at = NULL <=> i = Len(new)
  BY <1>1, <1>2, <1>11, <1>12
<1> QED
  BY <1>1, <1>2, <1>10, <1>11, <1>12, <1>13 DEF new

\* The promise survives every step.
LEMMA NextInv == Inv /\ [Next]_vars => Inv'
<1>1. CASE UNCHANGED vars
  BY <1>1 DEF vars, Inv, TypeOK, LastIsOpen, Contiguous
<1>2. ASSUME Inv, Next PROVE Inv'
  <2>1. PICK now \in Time : \A d \in Devices : Keeps(d) \/ Changes(d, now)
    BY <1>2 DEF Next
  <2>2. ASSUME NEW d \in Devices
        PROVE  /\ status'[d] \in {UNKNOWN, ONLINE, OFFLINE} /\ log'[d] \in Seq(Event)
               /\ status'[d] = UNKNOWN <=> log'[d] = <<>>
               /\ \A i \in 1 .. Len(log'[d]) : log'[d][i].ended_at = NULL <=> i = Len(log'[d])
               /\ log'[d] # <<>> => log'[d][Len(log'[d])].status = status'[d]
               /\ \A i \in 1 .. Len(log'[d]) - 1 :
                    /\ log'[d][i].ended_at = log'[d][i + 1].started_at
                    /\ log'[d][i].started_at <= log'[d][i].ended_at
                    /\ log'[d][i].status # log'[d][i + 1].status
    <3>1. CASE Keeps(d)
      BY <1>2, <3>1 DEF Keeps, Inv, TypeOK, LastIsOpen, Contiguous
    <3>2. CASE Changes(d, now)
      <4>1. status'[d] \in {UNKNOWN, ONLINE, OFFLINE}
        BY <3>2 DEF Changes
      <4> QED
        BY <1>2, <3>2, <4>1, ChangeKeepsPromise
    <3> QED
      BY <2>1, <3>1, <3>2
  <2>3. /\ status' = [d \in Devices |-> status'[d]]
        /\ log' = [d \in Devices |-> log'[d]]
    BY <1>2 DEF Next
  <2>4. TypeOK'
    BY <2>2, <2>3 DEF TypeOK
  <2>5. LastIsOpen' /\ Contiguous'
    BY <2>2 DEF LastIsOpen, Contiguous
  <2> QED
    BY <2>4, <2>5 DEF Inv
<1> QED
  BY <1>1, <1>2

\* Whoever keeps the log this way gives its readers one open event, the last,
\* that tells the status, and a record with no gap and no overlap.
THEOREM Promise == Spec => [](LastIsOpen /\ Contiguous)
<1>1. Init => Inv
  BY DEF Init, Inv, TypeOK, LastIsOpen, Contiguous
<1>2. Inv /\ [Next]_vars => Inv'
  BY NextInv
<1>3. Inv => LastIsOpen /\ Contiguous
  BY DEF Inv
<1> QED
  BY <1>1, <1>2, <1>3, PTL DEF Spec
=============================================================================
