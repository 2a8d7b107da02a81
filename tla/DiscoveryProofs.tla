-------------------------- MODULE DiscoveryProofs --------------------------
(***************************************************************************)
(* Theorems about Discovery, for every network, any number of scans at     *)
(* once and every bound.                                                   *)
(***************************************************************************)
EXTENDS Discovery, TLAPS

\* A scan that is not running keeps nothing.
LEMMA IdleOK == ASSUME begun \in Nat PROVE SessionOK(Idle)
<1>1. Range(NoAnswers) = {} /\ DOMAIN NoAnswers = {}
  BY DEF Range, NoAnswers
<1>2. \A S, T : Partial(NoAnswers, S, T)
  BY DEF Partial, NoAnswers
<1> HIDE DEF NoAnswers
<1>3. /\ Idle.pc = "idle" /\ Idle.n = 0 /\ Idle.cidr = None
      /\ Idle.found = NoAnswers /\ Idle.target = NoAnswers
      /\ Idle.loaded = NoAnswers /\ Idle.work = NoAnswers
  BY DEF Idle
<1> QED
  BY <1>1, <1>2, <1>3 DEF SessionOK

\* The initial state satisfies the invariant.
LEMMA InitIInv == Init => IInv
<1> SUFFICES ASSUME Init PROVE IInv
  OBVIOUS
<1>1. TypeOK
  <2>1. \A s \in Scans : SessionOK(session[s])
    BY IdleOK DEF Init
  <2>2. Partial(devices, DeviceIds, Row) /\ Partial(subnets, SubnetIds, Cidrs)
    BY DEF Init, NoAnswers, Partial
  <2> QED
    BY <2>1, <2>2, DiscoveryAssumption DEF Init, TypeOK
<1> USE DEF Init, Idle, NoAnswers
<1>2. IdsAreFresh /\ SessionsOnlyAdd /\ OneRowPerMac /\ FlushedMacsAreNew
  BY DEF IdsAreFresh, SessionsOnlyAdd, OneRowPerMac, FlushedMacsAreNew, Inserted
<1> QED
  BY <1>1, <1>2 DEF IInv

-----------------------------------------------------------------------------
(***************************************************************************)
(* What a step of one session has to keep.                                 *)
(***************************************************************************)
\* The rows of s have ids that no other has.
Fresh(s) ==
    /\ \A id \in Inserted(s) : id[1] = session[s].n
    /\ session[s].pc # "idle" =>
          /\ \A id \in DOMAIN devices : id[1] # session[s].n
          /\ \A t \in Scans \ {s} : session[t].n # session[s].n

\* s only adds to the rows it has read.
OnlyAdds(s) ==
    \A id \in DOMAIN session[s].loaded :
        /\ Updates(session[s].work[id], session[s].loaded[id])
        /\ session[s].loaded[id].mac = devices[id].mac

\* The MACs s will insert, once flushed, belong to no other row.
FlushedNew(s) ==
    /\ session[s].pc \in {"asking", "sweeping", "flushing"} => session[s].cidr # None
    /\ session[s].pc \in {"probing", "committing"} =>
          /\ ~Duplicate(s)
          /\ session[s].cidr = None => Inserted(s) = {}
          /\ \A t \in Scans \ {s} :
                session[t].pc \in {"probing", "committing"} => NewMacs(s) \cap NewMacs(t) = {}

\* A step of one session that commits nothing keeps the invariant, if what it
\* leaves in that session is sound.
LEMMA SessionStep ==
    ASSUME IInv, NEW s \in Scans,
           UNCHANGED <<holder, devices, subnets>>,
           begun' \in begun .. MaxScans,
           DOMAIN session' = Scans,
           \A t \in Scans \ {s} : session'[t] = session[t],
           SessionOK(session[s])', Fresh(s)', OnlyAdds(s)', FlushedNew(s)'
    PROVE  IInv'
<1>1. TypeOK'
  <2>1. \A t \in Scans \ {s} : SessionOK(session[t])'
    <3> TAKE t \in Scans \ {s}
    <3>1. SessionOK(session[t])
      BY DEF IInv, TypeOK
    <3>2. begun \in Nat /\ begun' \in Nat /\ begun <= begun'
      BY DiscoveryAssumption DEF IInv, TypeOK
    <3> QED
      BY <3>1, <3>2 DEF SessionOK
  <2>2. begun' \in 0 .. MaxScans
    BY DiscoveryAssumption DEF IInv, TypeOK
  <2> QED
    BY <2>1, <2>2 DEF IInv, TypeOK
<1>2. IdsAreFresh'
  <2>1. \A id \in DOMAIN devices : id[1] <= begun'
    <3>1. \A id \in DOMAIN devices : id[1] \in Nat
      BY DEF IInv, TypeOK, Partial, DeviceIds, SubnetIds
    <3> QED
      BY <3>1, DiscoveryAssumption DEF IInv, TypeOK, IdsAreFresh
  <2>2. \A t \in Scans \ {s} : Fresh(t)'
    <3> TAKE t \in Scans \ {s}
    <3>1. session'[t] = session[t] /\ Inserted(t)' = Inserted(t)
      BY DEF Inserted
    <3>2. session'[t].pc # "idle" => session'[s].n # session'[t].n
      <4>1. CASE session'[s].pc = "idle"
        <5>1. session'[s].n = 0
          BY <4>1 DEF SessionOK
        <5>2. session[t].pc # "idle" => session[t].n # 0
          BY DEF IInv, TypeOK, SessionOK
        <5> QED
          BY <3>1, <5>1, <5>2
      <4>2. CASE session'[s].pc # "idle"
        BY <4>2 DEF Fresh
      <4> QED
        BY <4>1, <4>2
    <3> QED
      BY <3>1, <3>2 DEF IInv, IdsAreFresh, Fresh
  <2> QED
    BY <2>1, <2>2 DEF IdsAreFresh, Fresh
<1>3. SessionsOnlyAdd'
  BY DEF IInv, SessionsOnlyAdd, OnlyAdds
<1>4. OneRowPerMac'
  BY DEF IInv, OneRowPerMac
<1>5. FlushedMacsAreNew'
  <2>1. \A t \in Scans \ {s} : FlushedNew(t)'
    <3> TAKE t \in Scans \ {s}
    <3>1. session'[t] = session[t]
      OBVIOUS
    <3>2. Inserted(t)' = Inserted(t)
      BY <3>1 DEF Inserted
    <3>3. NewMacs(t)' = NewMacs(t) /\ Duplicate(t)' = Duplicate(t)
      BY <3>1, <3>2 DEF NewMacs, Duplicate
    <3>4. \A u \in Scans \ {s} : NewMacs(u)' = NewMacs(u)
      BY DEF NewMacs, Inserted
    <3>5. session'[t].pc \in {"probing", "committing"} =>
            \A u \in Scans \ {t} :
               session'[u].pc \in {"probing", "committing"}
                  => NewMacs(t)' \cap NewMacs(u)' = {}
      <4> SUFFICES ASSUME session'[t].pc \in {"probing", "committing"},
                          NEW u \in Scans \ {t},
                          session'[u].pc \in {"probing", "committing"}
                   PROVE  NewMacs(t)' \cap NewMacs(u)' = {}
        OBVIOUS
      <4>1. CASE u = s
        BY <4>1 DEF FlushedNew
      <4>2. CASE u # s
        BY <3>1, <3>3, <3>4, <4>2 DEF IInv, FlushedMacsAreNew
      <4> QED
        BY <4>1, <4>2
    <3> QED
      BY <3>1, <3>2, <3>3, <3>5 DEF IInv, FlushedMacsAreNew, FlushedNew
  <2> QED
    BY <2>1 DEF FlushedMacsAreNew, FlushedNew
<1> QED
  BY <1>1, <1>2, <1>3, <1>4, <1>5 DEF IInv

\* The end of a session, committed or rolled back, leaves the others alone.
LEMMA EndStep ==
    ASSUME IInv, NEW s \in Scans, EndSession(s), UNCHANGED <<holder, devices, subnets, begun>>
    PROVE  IInv'
<1>1. /\ DOMAIN session' = Scans
      /\ \A t \in Scans \ {s} : session'[t] = session[t]
      /\ session'[s] = Idle
  BY DEF IInv, TypeOK, EndSession
<1>2. begun \in Nat /\ begun' \in begun .. MaxScans
  BY DiscoveryAssumption DEF IInv, TypeOK
<1>3. SessionOK(session[s])'
  <2>1. SessionOK(Idle)
    BY <1>2, IdleOK
  <2> QED
    BY <1>1, <2>1 DEF SessionOK
<1>4. /\ session'[s].pc = "idle"
      /\ DOMAIN session'[s].work = {}
      /\ DOMAIN session'[s].loaded = {}
  BY <1>1 DEF Idle, NoAnswers
<1>5. Fresh(s)' /\ OnlyAdds(s)' /\ FlushedNew(s)'
  BY <1>4 DEF Fresh, OnlyAdds, FlushedNew, Inserted
<1> QED
  BY <1>1, <1>2, <1>3, <1>5, SessionStep

\* The sequence number a scan begins with is of no other scan and of no row.
LEMMA NewNumber ==
    ASSUME IInv, begun < MaxScans, begun' = begun + 1
    PROVE  /\ begun' \in begun .. MaxScans
           /\ begun' \in Nat \ {0}
           /\ \A id \in DOMAIN devices : id[1] # begun'
           /\ \A t \in Scans : session[t].n # begun'
<1>1. begun \in Nat /\ MaxScans \in Nat
  BY DiscoveryAssumption DEF IInv, TypeOK
<1>2. \A id \in DOMAIN devices : id[1] \in Nat /\ id[1] <= begun
  BY <1>1 DEF IInv, TypeOK, IdsAreFresh, Partial, DeviceIds, SubnetIds
<1>3. \A t \in Scans : session[t].n \in 0 .. begun
  BY DEF IInv, TypeOK, SessionOK
<1> QED
  BY <1>1, <1>2, <1>3

\* A scan begins with nothing.
LEMMA BeginStep ==
    ASSUME IInv, NEW s \in Scans, NEW given \in Cidrs \cup {None}, Begin(s, given)
    PROVE  IInv'
<1> DEFINE cidr == IF given = None THEN detect_scannable_subnet ELSE given
           r == [Idle EXCEPT !.pc = "asking", !.n = begun', !.cidr = cidr]
<1>1. /\ session[s].pc = "idle"
      /\ begun < MaxScans
      /\ begun' = begun + 1
      /\ session' = [session EXCEPT ![s] = r]
      /\ UNCHANGED <<holder, devices, subnets>>
  BY DEF Begin
<1>2. cidr \in Cidrs /\ cidr # None
  BY DiscoveryAssumption DEF detect_scannable_subnet
<1> HIDE DEF cidr
<1>3. /\ DOMAIN r = DOMAIN Idle
      /\ r.pc = "asking" /\ r.n = begun' /\ r.cidr = cidr
      /\ r.found = NoAnswers /\ r.target = NoAnswers
      /\ r.loaded = NoAnswers /\ r.work = NoAnswers
  BY DEF Idle
<1> HIDE DEF r
<1>4. /\ DOMAIN session' = Scans
      /\ \A t \in Scans \ {s} : session'[t] = session[t]
      /\ session'[s] = r
  BY <1>1 DEF IInv, TypeOK
<1>5. /\ begun' \in begun .. MaxScans
      /\ begun' \in Nat \ {0}
      /\ \A id \in DOMAIN devices : id[1] # begun'
      /\ \A t \in Scans : session[t].n # begun'
  BY <1>1, NewNumber
<1>6. SessionOK(session[s])'
  <2>1. Range(NoAnswers) = {} /\ DOMAIN NoAnswers = {}
    BY DEF Range, NoAnswers
  <2>2. Partial(NoAnswers, Addresses, Macs \cup {None}) /\ Partial(NoAnswers, DeviceIds, Row)
    BY DEF Partial, NoAnswers
  <2>3. /\ r.n \in 0 .. begun'
        /\ r.pc = "idle" <=> r.n = 0
        /\ r.cidr \in Cidrs \cup {None}
    BY <1>2, <1>3, <1>5
  <2>4. /\ DOMAIN r.work = Range(r.target)
        /\ DOMAIN r.loaded \subseteq DOMAIN r.work \cap DOMAIN devices'
        /\ Partial(r.found, Addresses, Macs \cup {None})
        /\ Partial(r.work, DeviceIds, Row)
    BY <1>3, <2>1, <2>2
  <2> QED
    BY <1>3, <1>4, <2>3, <2>4 DEF SessionOK
<1>7. DOMAIN session'[s].work = {} /\ DOMAIN session'[s].loaded = {}
  BY <1>3, <1>4 DEF NoAnswers
<1>8. Fresh(s)' /\ OnlyAdds(s)'
  BY <1>1, <1>3, <1>4, <1>5, <1>7 DEF Fresh, OnlyAdds, Inserted
<1>9. FlushedNew(s)'
  BY <1>2, <1>3, <1>4 DEF FlushedNew
<1> QED
  BY <1>1, <1>4, <1>5, <1>6, <1>8, <1>9, SessionStep

\* A scan of all known devices begins with the rows as committed.
LEMMA BeginIdentifyStep ==
    ASSUME IInv, NEW s \in Scans, BeginIdentify(s)
    PROVE  IInv'
<1> DEFINE target == [id \in DOMAIN devices |-> id]
           r == [Idle EXCEPT !.pc = "probing", !.n = begun', !.target = target,
                             !.loaded = devices, !.work = devices]
<1>1. /\ session[s].pc = "idle"
      /\ begun < MaxScans
      /\ begun' = begun + 1
      /\ session' = [session EXCEPT ![s] = r]
      /\ UNCHANGED <<holder, devices, subnets>>
  BY DEF BeginIdentify
<1>2. Range(target) = DOMAIN devices
  BY DEF Range
<1> HIDE DEF target
<1>3. /\ DOMAIN r = DOMAIN Idle
      /\ r.pc = "probing" /\ r.n = begun' /\ r.cidr = None
      /\ r.found = NoAnswers /\ r.target = target
      /\ r.loaded = devices /\ r.work = devices
  BY DEF Idle
<1> HIDE DEF r
<1>4. /\ DOMAIN session' = Scans
      /\ \A t \in Scans \ {s} : session'[t] = session[t]
      /\ session'[s] = r
  BY <1>1 DEF IInv, TypeOK
<1>5. /\ begun' \in begun .. MaxScans
      /\ begun' \in Nat \ {0}
      /\ \A id \in DOMAIN devices : id[1] # begun'
      /\ \A t \in Scans : session[t].n # begun'
  BY <1>1, NewNumber
<1>6. SessionOK(session[s])'
  <2>1. Partial(NoAnswers, Addresses, Macs \cup {None})
    BY DEF Partial, NoAnswers
  <2>2. Partial(devices, DeviceIds, Row)
    BY DEF IInv, TypeOK
  <2> QED
    BY <1>1, <1>2, <1>3, <1>4, <1>5, <2>1, <2>2 DEF SessionOK
<1>7. Inserted(s)' = {}
  BY <1>3, <1>4 DEF Inserted
<1>8. Fresh(s)' /\ OnlyAdds(s)'
  BY <1>1, <1>3, <1>4, <1>5, <1>7 DEF Fresh, OnlyAdds, Updates
<1>9. FlushedNew(s)'
  BY <1>3, <1>4, <1>7 DEF FlushedNew, Duplicate, NewMacs
<1> QED
  BY <1>1, <1>4, <1>5, <1>6, <1>8, <1>9, SessionStep

-----------------------------------------------------------------------------
(***************************************************************************)
(* upsert_many.                                                            *)
(***************************************************************************)
\* An answer is matched with a row known before, or with one of its own.
LEMMA TargetType ==
    ASSUME TypeOK, NEW n \in SubnetIds, NEW a \in Addresses, NEW mac
    PROVE  /\ TargetOf(n, a, mac) \in DeviceIds
           /\ TargetOf(n, a, mac) \in DOMAIN devices \/ TargetOf(n, a, mac) = <<n, a>>
<1>1. <<n, a>> \in DeviceIds /\ DOMAIN devices \subseteq DeviceIds
  BY DEF DeviceIds, TypeOK, Partial
<1>2. CASE Known(n, a, mac) = {}
  BY <1>1, <1>2 DEF TargetOf
<1>3. CASE Known(n, a, mac) # {}
  <2>1. TargetOf(n, a, mac) \in Known(n, a, mac)
    BY <1>3 DEF TargetOf
  <2> QED
    BY <1>1, <2>1 DEF Known
<1> QED
  BY <1>2, <1>3

\* The rows upsert_many assigns are well formed, and keep what it does not assign.
LEMMA AssignedRow ==
    ASSUME NEW row \in Row, NEW n \in SubnetIds, NEW a \in Addresses, NEW mac
    PROVE  /\ Assigned(row, n, a, mac) \in Row
           /\ Updates(Assigned(row, n, a, mac), row)
  BY DEF Assigned, Row, Updates

\* Matching the answers of a scan with the rows keeps the invariant.
LEMMA MatchStep ==
    ASSUME IInv, NEW s \in Scans, session[s].pc \in {"asking", "sweeping"},
           NEW found, Partial(found, Addresses, Macs \cup {None}),
           NEW last \in LastAddresses(session[s], found),
           session' = [session EXCEPT ![s] = Matched(session[s], found, last)],
           UNCHANGED <<holder, devices, subnets, begun>>
    PROVE  IInv'
<1> DEFINE n == session[s].n
           target == [a \in DOMAIN found |-> TargetOf(n, a, found[a])]
           old == Range(target) \cap DOMAIN devices
           work == [id \in Range(target) |->
                      IF id \in old THEN Assigned(devices[id], n, last[id], devices[id].mac)
                      ELSE NewRow(n, id[2], found[id[2]])]
           r == Matched(session[s], found, last)
<1>1. TypeOK /\ SessionOK(session[s])
  BY DEF IInv, TypeOK
<1>2. begun \in Nat /\ begun \in 0 .. MaxScans /\ MaxScans \in Nat
  BY <1>1, DiscoveryAssumption DEF TypeOK
<1>3. n \in SubnetIds /\ n \in 0 .. begun /\ n # 0
  <2>1. session[s].pc # "idle"
    OBVIOUS
  <2> QED
    BY <1>1, <1>2, <2>1 DEF SessionOK, SubnetIds
<1>4. \A a \in DOMAIN found : a \in Addresses /\ found[a] \in Macs \cup {None}
  BY DEF Partial
<1>5. \A id \in Range(target) :
         /\ id \in DeviceIds
         /\ id \in DOMAIN devices \/ \E a \in DOMAIN found : id = <<n, a>>
  <2> TAKE id \in Range(target)
  <2>1. PICK a \in DOMAIN found : id = TargetOf(n, a, found[a])
    BY DEF Range
  <2> QED
    BY <1>1, <1>3, <1>4, <2>1, TargetType
<1>6. \A id \in Range(target) : last[id] \in Addresses
  <2>1. Range(target) = {TargetOf(n, a, found[a]) : a \in DOMAIN found}
    BY DEF Range
  <2>2. last \in [Range(target) -> DOMAIN found]
    BY <2>1 DEF LastAddresses
  <2> QED
    BY <1>4, <2>2
<1>7. \A id \in old : /\ devices[id] \in Row
                      /\ work[id] \in Row
                      /\ Updates(work[id], devices[id])
  <2> TAKE id \in old
  <2>1. devices[id] \in Row /\ last[id] \in Addresses
    BY <1>1, <1>6 DEF TypeOK, Partial
  <2>2. work[id] = Assigned(devices[id], n, last[id], devices[id].mac)
    OBVIOUS
  <2> QED
    BY <1>3, <2>1, <2>2, AssignedRow
<1>8. \A id \in Range(target) \ old : work[id] \in Row /\ id[1] = n
  <2> TAKE id \in Range(target) \ old
  <2>1. PICK a \in DOMAIN found : id = <<n, a>>
    BY <1>5
  <2>2. work[id] = NewRow(n, a, found[a])
    BY <2>1
  <2>3. NewRow(n, a, found[a]) \in Row
    BY <1>3, <1>4 DEF NewRow, Row
  <2> QED
    BY <2>1, <2>2, <2>3
<1>9. Partial(work, DeviceIds, Row)
  <2>1. DOMAIN work = Range(target)
    OBVIOUS
  <2> QED
    BY <1>5, <1>7, <1>8, <2>1 DEF Partial
<1>10. /\ DOMAIN r = DOMAIN Idle
       /\ r.pc = "flushing" /\ r.n = n /\ r.cidr = session[s].cidr
       /\ r.found = found /\ r.target = target
       /\ r.loaded = Restrict(devices, old) /\ r.work = work
  <2>1. DOMAIN session[s] = DOMAIN Idle
    BY <1>1 DEF SessionOK
  <2>2. DOMAIN Idle = {"pc", "n", "cidr", "found", "target", "loaded", "work"}
    BY DEF Idle
  <2> HIDE DEF target, work, old
  <2>3. r = [session[s] EXCEPT !.pc = "flushing", !.found = found, !.target = target,
                              !.loaded = Restrict(devices, old), !.work = work]
    BY DEF Matched, target, work, old
  <2> QED
    BY <2>1, <2>2, <2>3
<1>11. /\ DOMAIN r.work = Range(target)
       /\ DOMAIN r.loaded = old
       /\ \A id \in old : r.loaded[id] = devices[id]
  BY <1>10 DEF Restrict
<1> HIDE DEF r, work
<1>12. /\ DOMAIN session' = Scans
       /\ \A t \in Scans \ {s} : session'[t] = session[t]
       /\ session'[s] = r
  BY <1>1 DEF TypeOK, r
<1>13. SessionOK(session[s])'
  <2>1. /\ r.n \in 0 .. begun'
        /\ r.pc = "idle" <=> r.n = 0
        /\ r.cidr \in Cidrs \cup {None}
    BY <1>1, <1>3, <1>10 DEF SessionOK
  <2>2. /\ DOMAIN r.work = Range(r.target)
        /\ DOMAIN r.loaded \subseteq DOMAIN r.work \cap DOMAIN devices'
        /\ Partial(r.found, Addresses, Macs \cup {None})
        /\ Partial(r.work, DeviceIds, Row)
    BY <1>9, <1>10, <1>11
  <2> HIDE DEF target, old
  <2> QED
    BY <1>10, <1>12, <2>1, <2>2 DEF SessionOK
<1>14. Fresh(s)'
  <2>1. \A id \in Inserted(s)' : id[1] = r.n
    BY <1>8, <1>10, <1>11, <1>12 DEF Inserted
  <2>2. /\ \A id \in DOMAIN devices : id[1] # n
        /\ \A t \in Scans \ {s} : session[t].n # n
    <3>1. session[s].pc # "idle"
      OBVIOUS
    <3> QED
      BY <3>1 DEF IInv, IdsAreFresh
  <2> QED
    BY <1>10, <1>12, <2>1, <2>2 DEF Fresh
<1>15. OnlyAdds(s)'
  BY <1>7, <1>10, <1>11, <1>12 DEF OnlyAdds
<1>16. FlushedNew(s)'
  <2>1. session[s].cidr # None
    BY DEF IInv, FlushedMacsAreNew
  <2> QED
    BY <1>10, <1>12, <2>1 DEF FlushedNew
<1>17. begun' \in begun .. MaxScans
  BY <1>2
<1> QED
  BY <1>12, <1>13, <1>14, <1>15, <1>16, <1>17, SessionStep

\* Answers of the network are addresses with the hosts that hold them.
LEMMA AnswersType ==
    ASSUME IInv, NEW cidr \in Cidrs, NEW heard \in SUBSET Answering(cidr)
    PROVE  /\ Partial([a \in heard |-> holder[a]], Addresses, Macs \cup {None})
           /\ Partial([a \in heard |-> None], Addresses, Macs \cup {None})
<1>1. Answering(cidr) \subseteq Addresses
  BY DiscoveryAssumption DEF Answering
<1>2. \A a \in heard : holder[a] \in Macs \cup {None}
  BY <1>1 DEF IInv, TypeOK
<1> QED
  BY <1>1, <1>2 DEF Partial

-----------------------------------------------------------------------------
(***************************************************************************)
(* The steps of a session that only move on, or identify its rows.         *)
(***************************************************************************)
\* A session that goes on to p with the rows w keeps the invariant, if w only
\* adds to the rows it had, and what it will insert once flushed is new.
LEMMA MoveOn ==
    ASSUME IInv, NEW s \in Scans, NEW p, NEW w,
           session[s].pc # "idle",
           p \in {"sweeping", "probing", "committing"},
           UNCHANGED <<holder, devices, subnets, begun>>,
           DOMAIN session' = Scans,
           \A t \in Scans \ {s} : session'[t] = session[t],
           DOMAIN session'[s] = DOMAIN Idle,
           session'[s].pc = p, session'[s].n = session[s].n,
           session'[s].cidr = session[s].cidr, session'[s].found = session[s].found,
           session'[s].target = session[s].target, session'[s].loaded = session[s].loaded,
           session'[s].work = w,
           Partial(w, DeviceIds, Row),
           DOMAIN w = DOMAIN session[s].work,
           \A id \in DOMAIN w : Updates(w[id], session[s].work[id]),
           p = "sweeping" => session[s].cidr # None,
           p # "sweeping" => /\ ~Duplicate(s)
                             /\ session[s].cidr = None => Inserted(s) = {}
                             /\ \A t \in Scans \ {s} :
                                   session[t].pc \in {"probing", "committing"}
                                      => NewMacs(s) \cap NewMacs(t) = {}
    PROVE  IInv'
<1>1. SessionOK(session[s]) /\ begun' \in begun .. MaxScans
  BY DiscoveryAssumption DEF IInv, TypeOK
<1>2. SessionOK(session[s])'
  <2>1. session[s].n \in 0 .. begun' /\ session[s].n # 0
    BY <1>1 DEF SessionOK
  <2> QED
    BY <1>1, <2>1 DEF SessionOK
<1>3. Inserted(s)' = Inserted(s) /\ \A id \in Inserted(s) : w[id].mac = session[s].work[id].mac
  BY DEF Inserted, Updates
<1>4. NewMacs(s)' = NewMacs(s)
  BY <1>3 DEF NewMacs
<1>5. Duplicate(s)' = Duplicate(s)
  BY <1>3 DEF Duplicate
<1>6. \A t \in Scans \ {s} : NewMacs(t)' = NewMacs(t)
  BY DEF NewMacs, Inserted
<1>7. Fresh(s)'
  BY <1>3 DEF IInv, IdsAreFresh, Fresh
<1>8. OnlyAdds(s)'
  <2> SUFFICES ASSUME NEW id \in DOMAIN session[s].loaded
               PROVE  /\ Updates(w[id], session[s].loaded[id])
                      /\ session[s].loaded[id].mac = devices[id].mac
    BY DEF OnlyAdds
  <2>1. id \in DOMAIN w
    BY <1>1 DEF SessionOK
  <2>2. /\ Updates(session[s].work[id], session[s].loaded[id])
        /\ session[s].loaded[id].mac = devices[id].mac
    BY DEF IInv, SessionsOnlyAdd
  <2> QED
    BY <2>1, <2>2 DEF Updates
<1>9. FlushedNew(s)'
  BY <1>3, <1>4, <1>5, <1>6 DEF FlushedNew
<1> QED
  BY <1>1, <1>2, <1>7, <1>8, <1>9, SessionStep

\* Going on to p with the rows as they are.
LEMMA PcStep ==
    ASSUME IInv, NEW s \in Scans, NEW p,
           session[s].pc # "idle",
           p \in {"sweeping", "probing", "committing"},
           UNCHANGED <<holder, devices, subnets, begun>>,
           session' = [session EXCEPT ![s].pc = p],
           p = "sweeping" => session[s].cidr # None,
           p # "sweeping" => /\ ~Duplicate(s)
                             /\ session[s].cidr = None => Inserted(s) = {}
                             /\ \A t \in Scans \ {s} :
                                   session[t].pc \in {"probing", "committing"}
                                      => NewMacs(s) \cap NewMacs(t) = {}
    PROVE  IInv'
<1>1. SessionOK(session[s]) /\ DOMAIN session = Scans
  BY DEF IInv, TypeOK
<1>2. DOMAIN Idle = {"pc", "n", "cidr", "found", "target", "loaded", "work"}
  BY DEF Idle
<1>3. /\ DOMAIN session' = Scans
      /\ \A t \in Scans \ {s} : session'[t] = session[t]
      /\ session'[s] = [session[s] EXCEPT !.pc = p]
  BY <1>1
<1>4. DOMAIN session[s] = DOMAIN Idle
  BY <1>1 DEF SessionOK
<1>5. /\ DOMAIN session'[s] = DOMAIN Idle
      /\ session'[s].pc = p /\ session'[s].n = session[s].n
      /\ session'[s].cidr = session[s].cidr /\ session'[s].found = session[s].found
      /\ session'[s].target = session[s].target /\ session'[s].loaded = session[s].loaded
      /\ session'[s].work = session[s].work
  BY <1>2, <1>3, <1>4
<1>6. Partial(session[s].work, DeviceIds, Row)
  BY <1>1 DEF SessionOK
<1>7. \A id \in DOMAIN session[s].work : Updates(session[s].work[id], session[s].work[id])
  BY DEF Updates
<1> QED
  BY <1>3, <1>5, <1>6, <1>7, MoveOn

\* The answers to the ARP requests.
LEMMA ArpStep == ASSUME IInv, NEW s \in Scans, ArpAnswers(s) PROVE IInv'
<1>1. session[s].cidr \in Cidrs /\ session[s].cidr # None
  BY DEF ArpAnswers, IInv, TypeOK, SessionOK, FlushedMacsAreNew
<1>2. PICK heard \in SUBSET Answering(session[s].cidr) :
         IF heard = {} THEN session' = [session EXCEPT ![s].pc = "sweeping"]
         ELSE \E last \in LastAddresses(session[s], [a \in heard |-> holder[a]]) :
                 session' = [session EXCEPT ![s] =
                               Matched(session[s], [a \in heard |-> holder[a]], last)]
  BY DEF ArpAnswers
<1>3. CASE heard = {}
  BY <1>1, <1>2, <1>3, PcStep DEF ArpAnswers
<1>4. CASE heard # {}
  <2>1. Partial([a \in heard |-> holder[a]], Addresses, Macs \cup {None})
    BY <1>1, AnswersType
  <2> QED
    BY <1>2, <1>4, <2>1, MatchStep DEF ArpAnswers
<1> QED
  BY <1>3, <1>4

\* The answers to the pings.
LEMMA SweepStep == ASSUME IInv, NEW s \in Scans, SweepAnswers(s) PROVE IInv'
<1>1. session[s].cidr \in Cidrs
  BY DEF SweepAnswers, IInv, TypeOK, SessionOK, FlushedMacsAreNew
<1>2. PICK heard \in SUBSET Answering(session[s].cidr) :
         \E last \in LastAddresses(session[s], [a \in heard |-> None]) :
            session' = [session EXCEPT ![s] =
                          Matched(session[s], [a \in heard |-> None], last)]
  BY DEF SweepAnswers
<1>3. Partial([a \in heard |-> None], Addresses, Macs \cup {None})
  BY <1>1, AnswersType
<1> QED
  BY <1>2, <1>3, MatchStep DEF SweepAnswers

\* A flush goes through only with MACs that no row, committed or flushed, has.
LEMMA FlushStep == ASSUME IInv, NEW s \in Scans, Flush(s) PROVE IInv'
<1>1. /\ session[s].pc = "flushing"
      /\ ~Waits(s)
      /\ ~Duplicate(s)
      /\ session' = [session EXCEPT ![s].pc = "probing"]
      /\ UNCHANGED <<holder, devices, subnets, begun>>
  BY DEF Flush
<1>2. session[s].cidr # None
  BY <1>1 DEF IInv, FlushedMacsAreNew
<1>3. ASSUME NEW t \in Scans \ {s}, session[t].pc \in {"probing", "committing"}
      PROVE  NewMacs(s) \cap NewMacs(t) = {}
  <2>1. CASE session[t].cidr = None
    <3>1. Inserted(t) = {}
      BY <1>3, <2>1 DEF IInv, FlushedMacsAreNew
    <3> QED
      BY <3>1 DEF NewMacs
  <2>2. CASE session[t].cidr # None
    BY <1>1, <1>3, <2>2 DEF Waits, HasFlushed
  <2> QED
    BY <2>1, <2>2
<1> QED
  BY <1>1, <1>2, <1>3, PcStep

\* The identities an SNMP scan assigns.
LEMMA SnmpStep == ASSUME IInv, NEW s \in Scans, SnmpAnswers(s) PROVE IInv'
<1>1. SessionOK(session[s]) /\ DOMAIN session = Scans
  BY DEF IInv, TypeOK
<1>2. PICK answered \in SUBSET {a \in {session[s].work[id].ip : id \in Range(session[s].target)} :
                                   holder[a] # None} :
         session' = [session EXCEPT
                        ![s].pc = "committing",
                        ![s].work = [id \in DOMAIN session[s].work |->
                                       IF Identified(s, id, answered)
                                       THEN [session[s].work[id] EXCEPT
                                               !.identity = holder[session[s].work[id].ip]]
                                       ELSE session[s].work[id]]]
  BY DEF SnmpAnswers
<1> DEFINE w == [id \in DOMAIN session[s].work |->
                   IF Identified(s, id, answered)
                   THEN [session[s].work[id] EXCEPT
                           !.identity = holder[session[s].work[id].ip]]
                   ELSE session[s].work[id]]
<1>3. session[s].pc = "probing" /\ UNCHANGED <<holder, devices, subnets, begun>>
  BY DEF SnmpAnswers
<1>4. \A id \in DOMAIN w : w[id] \in Row /\ Updates(w[id], session[s].work[id])
  <2> TAKE id \in DOMAIN w
  <2>1. session[s].work[id] \in Row
    BY <1>1 DEF SessionOK, Partial
  <2>2. CASE Identified(s, id, answered)
    <3>1. /\ holder[session[s].work[id].ip] \in Macs \cup {None}
          /\ holder[session[s].work[id].ip] # None
      BY <2>1, <2>2 DEF Identified, Row, IInv, TypeOK
    <3>2. w[id] = [session[s].work[id] EXCEPT !.identity = holder[session[s].work[id].ip]]
      BY <2>2
    <3> QED
      BY <2>1, <3>1, <3>2 DEF Row, Updates
  <2>3. CASE ~Identified(s, id, answered)
    BY <2>1, <2>3 DEF Updates
  <2> QED
    BY <2>2, <2>3
<1>5. DOMAIN w = DOMAIN session[s].work
  OBVIOUS
<1>6. Partial(w, DeviceIds, Row)
  BY <1>1, <1>4, <1>5 DEF Partial, SessionOK
<1>7. session' = [session EXCEPT ![s].pc = "committing", ![s].work = w]
  BY <1>2
<1> HIDE DEF w
<1>8. DOMAIN session[s] = {"pc", "n", "cidr", "found", "target", "loaded", "work"}
      /\ DOMAIN session[s] = DOMAIN Idle
  BY <1>1 DEF SessionOK, Idle
<1>9. /\ DOMAIN session' = Scans
      /\ \A t \in Scans \ {s} : session'[t] = session[t]
      /\ session'[s] = [session[s] EXCEPT !.pc = "committing", !.work = w]
  BY <1>1, <1>7, <1>8
<1>10. /\ DOMAIN session'[s] = DOMAIN Idle
       /\ session'[s].pc = "committing" /\ session'[s].n = session[s].n
       /\ session'[s].cidr = session[s].cidr /\ session'[s].found = session[s].found
       /\ session'[s].target = session[s].target /\ session'[s].loaded = session[s].loaded
       /\ session'[s].work = w
  BY <1>8, <1>9
<1>11. /\ ~Duplicate(s)
       /\ session[s].cidr = None => Inserted(s) = {}
       /\ \A t \in Scans \ {s} :
             session[t].pc \in {"probing", "committing"} => NewMacs(s) \cap NewMacs(t) = {}
  BY <1>3 DEF IInv, FlushedMacsAreNew
<1> QED
  BY <1>3, <1>4, <1>5, <1>6, <1>9, <1>10, <1>11, MoveOn

-----------------------------------------------------------------------------
(***************************************************************************)
(* The network and the collection loop.                                    *)
(***************************************************************************)
\* Polls leave the rows, their MACs and their identities.
LEMMA PollStep == ASSUME IInv, Poll PROVE IInv'
<1>1. /\ DOMAIN devices' = DOMAIN devices
      /\ \A id \in DOMAIN devices : devices'[id] = [devices[id] EXCEPT !.status = "POLLED"]
      /\ UNCHANGED <<holder, subnets, session, begun>>
  BY DEF Poll
<1>2. \A id \in DOMAIN devices : devices[id] \in Row /\ id \in DeviceIds
  BY DEF IInv, TypeOK, Partial
<1>3. \A id \in DOMAIN devices : devices'[id] \in Row /\ devices'[id].mac = devices[id].mac
  BY <1>1, <1>2 DEF Row
<1>4. Partial(devices, DeviceIds, Row)'
  <2>1. devices' = [id \in DOMAIN devices' |-> devices'[id]]
    BY DEF Poll
  <2> QED
    BY <1>1, <1>2, <1>3, <2>1 DEF Partial
<1>5. TypeOK'
  BY <1>1, <1>4 DEF IInv, TypeOK, SessionOK
<1>6. IdsAreFresh' /\ OneRowPerMac'
  BY <1>1, <1>3 DEF IInv, IdsAreFresh, OneRowPerMac, Inserted
<1>7. SessionsOnlyAdd'
  <2>1. \A s \in Scans : DOMAIN session[s].loaded \subseteq DOMAIN devices
    BY DEF IInv, TypeOK, SessionOK
  <2> QED
    BY <1>1, <1>3, <2>1 DEF IInv, SessionsOnlyAdd
<1>8. FlushedMacsAreNew'
  <2>1. \A s \in Scans : Inserted(s)' = Inserted(s)
    BY <1>1 DEF Inserted
  <2>2. \A s \in Scans : NewMacs(s)' = NewMacs(s) /\ Duplicate(s)' = Duplicate(s)
    BY <1>1, <1>3, <2>1 DEF NewMacs, Duplicate
  <2> QED
    BY <1>1, <2>1, <2>2 DEF IInv, FlushedMacsAreNew
<1> QED
  BY <1>5, <1>6, <1>7, <1>8 DEF IInv

\* Addresses change hands without touching the registry.
LEMMA RenewStep == ASSUME IInv, NEW a \in Addresses, Renew(a) PROVE IInv'
<1>1. UNCHANGED <<devices, subnets, session, begun>>
  BY DEF Renew
<1>2. holder' \in [Addresses -> Macs \cup {None}]
  BY DEF Renew, IInv, TypeOK
<1>3. TypeOK'
  BY <1>1, <1>2 DEF IInv, TypeOK, SessionOK
<1>4. IdsAreFresh' /\ OneRowPerMac'
  BY <1>1 DEF IInv, IdsAreFresh, OneRowPerMac, Inserted
<1>5. SessionsOnlyAdd'
  BY <1>1 DEF IInv, SessionsOnlyAdd
<1>6. FlushedMacsAreNew'
  <2>1. \A s \in Scans : /\ Inserted(s)' = Inserted(s)
                         /\ NewMacs(s)' = NewMacs(s)
                         /\ Duplicate(s)' = Duplicate(s)
    BY <1>1 DEF Inserted, NewMacs, Duplicate
  <2> QED
    BY <1>1, <2>1 DEF IInv, FlushedMacsAreNew
<1> QED
  BY <1>3, <1>4, <1>5, <1>6 DEF IInv

-----------------------------------------------------------------------------
(***************************************************************************)
(* The commit of a scan.                                                   *)
(***************************************************************************)
\* A row read before is written as one that only grew since.
LEMMA WrittenUpdate ==
    ASSUME IInv, NEW s \in Scans, NEW id \in DOMAIN session[s].loaded
    PROVE  /\ id \in DOMAIN devices
           /\ WrittenRow(s, id) \in Row
           /\ Updates(WrittenRow(s, id), devices[id])
<1>1. SessionOK(session[s])
  BY DEF IInv, TypeOK
<1>2. id \in DOMAIN session[s].work /\ id \in DOMAIN devices
  BY <1>1 DEF SessionOK
<1>3. session[s].work[id] \in Row /\ devices[id] \in Row
  BY <1>1, <1>2 DEF IInv, TypeOK, SessionOK, Partial
<1>4. Updates(session[s].work[id], session[s].loaded[id])
  BY DEF IInv, SessionsOnlyAdd
<1> DEFINE new == session[s].work[id]
           row == [c \in DOMAIN new |->
                     IF new[c] = session[s].loaded[id][c] THEN devices[id][c] ELSE new[c]]
<1>5. WrittenRow(s, id) = row
  BY <1>2 DEF WrittenRow, Inserted
<1>6. DOMAIN new = {"ip", "mac", "subnet", "identity", "status"}
  BY <1>3 DEF Row
<1>7. /\ row.ip \in Addresses /\ row.mac \in Macs \cup {None} /\ row.subnet \in SubnetIds
      /\ row.identity \in Macs \cup {None} /\ row.status \in {"UNKNOWN", "POLLED"}
  BY <1>3, <1>6 DEF Row
<1>8. row \in Row
  <2>1. row = [ip |-> row.ip, mac |-> row.mac, subnet |-> row.subnet,
               identity |-> row.identity, status |-> row.status]
    BY <1>6
  <2> HIDE DEF row
  <2> QED
    BY <1>7, <2>1 DEF Row
<1>9. Updates(row, devices[id])
  BY <1>4, <1>6 DEF Updates
<1> QED
  BY <1>2, <1>5, <1>8, <1>9

\* The registry after a commit: the rows there were, which only grew, and the
\* rows inserted.
LEMMA CommittedRows ==
    ASSUME IInv, NEW s \in Scans, Commit(s)
    PROVE  /\ DOMAIN devices' = DOMAIN devices \cup Inserted(s)
           /\ DOMAIN devices \cap Inserted(s) = {}
           /\ \A id \in DOMAIN devices : devices'[id] \in Row /\ Updates(devices'[id], devices[id])
           /\ \A id \in Inserted(s) : devices'[id] = session[s].work[id] /\ devices'[id] \in Row
           /\ Partial(devices, DeviceIds, Row)'
<1>1. SessionOK(session[s]) /\ session[s].pc = "committing"
  BY DEF IInv, TypeOK, Commit
<1>2. devices' = [id \in DOMAIN session[s].work \cup DOMAIN devices |->
                    IF id \in DOMAIN session[s].work THEN WrittenRow(s, id) ELSE devices[id]]
  BY DEF Commit
<1>3. /\ DOMAIN devices' = DOMAIN session[s].work \cup DOMAIN devices
      /\ \A id \in DOMAIN session[s].work : devices'[id] = WrittenRow(s, id)
      /\ \A id \in DOMAIN devices \ DOMAIN session[s].work : devices'[id] = devices[id]
      /\ devices' = [id \in DOMAIN devices' |-> devices'[id]]
  BY <1>2
<1>4. \A id \in Inserted(s) : id[1] = session[s].n
  BY DEF IInv, IdsAreFresh
<1>5. \A id \in DOMAIN devices : id[1] # session[s].n
  BY <1>1 DEF IInv, IdsAreFresh
<1>6. DOMAIN devices \cap Inserted(s) = {}
  BY <1>4, <1>5
<1>7. DOMAIN session[s].work = DOMAIN session[s].loaded \cup Inserted(s)
  BY <1>1 DEF Inserted, SessionOK
<1>8. DOMAIN session[s].loaded \subseteq DOMAIN devices
  BY <1>1 DEF SessionOK
<1>9. \A id \in DOMAIN devices : devices'[id] \in Row /\ Updates(devices'[id], devices[id])
  <2> TAKE id \in DOMAIN devices
  <2>1. CASE id \in DOMAIN session[s].loaded
    BY <1>3, <1>7, <2>1, WrittenUpdate
  <2>2. CASE id \notin DOMAIN session[s].loaded
    <3>1. id \notin DOMAIN session[s].work
      BY <1>6, <1>7, <2>2
    <3>2. devices[id] \in Row
      BY DEF IInv, TypeOK, Partial
    <3> QED
      BY <1>3, <3>1, <3>2 DEF Updates
  <2> QED
    BY <2>1, <2>2
<1>10. \A id \in Inserted(s) : devices'[id] = session[s].work[id] /\ devices'[id] \in Row
  <2> TAKE id \in Inserted(s)
  <2>1. devices'[id] = session[s].work[id]
    BY <1>3, <1>7 DEF WrittenRow
  <2>2. session[s].work[id] \in Row
    BY <1>1, <1>7 DEF SessionOK, Partial
  <2> QED
    BY <2>1, <2>2
<1>11. DOMAIN devices' = DOMAIN devices \cup Inserted(s)
  BY <1>3, <1>7, <1>8
<1>12. Partial(devices, DeviceIds, Row)'
  <2>1. DOMAIN devices' \subseteq DeviceIds
    BY <1>1, <1>3 DEF IInv, TypeOK, SessionOK, Partial
  <2>2. \A id \in DOMAIN devices' : devices'[id] \in Row
    BY <1>9, <1>10, <1>11
  <2> QED
    BY <1>3, <2>1, <2>2 DEF Partial
<1> QED
  BY <1>6, <1>9, <1>10, <1>11, <1>12

\* A commit keeps the invariant: what it inserts no other session can.
LEMMA CommitStep == ASSUME IInv, NEW s \in Scans, Commit(s) PROVE IInv'
<1>1. /\ DOMAIN devices' = DOMAIN devices \cup Inserted(s)
      /\ DOMAIN devices \cap Inserted(s) = {}
      /\ \A id \in DOMAIN devices : devices'[id] \in Row /\ devices'[id].mac = devices[id].mac
      /\ \A id \in Inserted(s) : devices'[id] = session[s].work[id]
      /\ Partial(devices, DeviceIds, Row)'
  BY CommittedRows DEF Updates
<1>2. /\ DOMAIN session' = Scans
      /\ \A t \in Scans \ {s} : session'[t] = session[t]
      /\ session'[s] = Idle
      /\ holder' = holder /\ begun' = begun
      /\ session[s].pc = "committing"
  BY DEF IInv, TypeOK, Commit, EndSession
<1>3. begun \in Nat /\ begun \in 0 .. MaxScans
  BY DiscoveryAssumption DEF IInv, TypeOK
<1>4. session[s].n \in SubnetIds /\ session[s].n \in 1 .. begun
  BY <1>2, <1>3, DiscoveryAssumption DEF IInv, TypeOK, SessionOK, SubnetIds
<1>5. /\ session'[s].pc = "idle"
      /\ DOMAIN session'[s].work = {}
      /\ DOMAIN session'[s].loaded = {}
  BY <1>2 DEF Idle, NoAnswers
<1>6. /\ Inserted(s)' = {}
      /\ \A t \in Scans \ {s} : Inserted(t)' = Inserted(t) /\ NewMacs(t)' = NewMacs(t)
  BY <1>2, <1>5 DEF Inserted, NewMacs
<1>7. TypeOK'
  <2>1. Partial(subnets, SubnetIds, Cidrs)'
    <3>1. Partial(subnets, SubnetIds, Cidrs) /\ session[s].cidr \in Cidrs \cup {None}
      BY DEF IInv, TypeOK, SessionOK
    <3>2. CASE session[s].cidr = None
      BY <3>1, <3>2 DEF Commit
    <3>3. CASE session[s].cidr # None
      <4>1. subnets' = [i \in DOMAIN subnets \cup {session[s].n} |->
                        IF i = session[s].n THEN session[s].cidr ELSE subnets[i]]
        BY <3>3 DEF Commit
      <4>2. /\ DOMAIN subnets' = {session[s].n} \cup DOMAIN subnets
            /\ subnets' = [i \in DOMAIN subnets' |-> subnets'[i]]
            /\ \A i \in DOMAIN subnets' : subnets'[i] =
                  IF i = session[s].n THEN session[s].cidr ELSE subnets[i]
        BY <4>1
      <4> QED
        BY <1>4, <3>1, <3>3, <4>2 DEF Partial
    <3> QED
      BY <3>2, <3>3
  <2>2. \A t \in Scans : SessionOK(session[t])'
    <3> TAKE t \in Scans
    <3>1. CASE t = s
      <4>1. SessionOK(Idle)
        BY <1>3, IdleOK
      <4>2. DOMAIN session'[s].loaded \subseteq DOMAIN session'[s].work \cap DOMAIN devices'
        BY <1>5
      <4> QED
        BY <1>2, <3>1, <4>1, <4>2 DEF SessionOK
    <3>2. CASE t # s
      BY <1>1, <1>2, <3>2 DEF IInv, TypeOK, SessionOK
    <3> QED
      BY <3>1, <3>2
  <2> QED
    BY <1>1, <1>2, <2>1, <2>2 DEF IInv, TypeOK
<1>8. IdsAreFresh'
  <2>1. \A id \in Inserted(s) : id[1] = session[s].n
    BY DEF IInv, IdsAreFresh
  <2>2. \A id \in DOMAIN devices' : id[1] <= begun'
    BY <1>1, <1>2, <1>3, <1>4, <2>1 DEF IInv, IdsAreFresh
  <2>3. \A t \in Scans : \A id \in Inserted(t)' : id[1] = session'[t].n
    BY <1>2, <1>6 DEF IInv, IdsAreFresh
  <2>4. ASSUME NEW t \in Scans, session'[t].pc # "idle"
        PROVE  /\ \A id \in DOMAIN devices' : id[1] # session'[t].n
               /\ \A u \in Scans \ {t} : session'[u].n # session'[t].n
    <3>1. t # s /\ session'[t] = session[t]
      BY <1>2, <1>5, <2>4
    <3>2. /\ \A id \in DOMAIN devices : id[1] # session[t].n
          /\ \A u \in Scans \ {t} : session[u].n # session[t].n
      BY <2>4, <3>1 DEF IInv, IdsAreFresh
    <3>3. session'[s].n # session[t].n
      <4>1. session'[s].n = 0
        BY <1>2 DEF Idle
      <4>2. session[t].n # 0
        BY <2>4, <3>1 DEF IInv, TypeOK, SessionOK
      <4> QED
        BY <4>1, <4>2
    <3> QED
      BY <1>1, <1>2, <2>1, <3>1, <3>2, <3>3
  <2> QED
    BY <2>2, <2>3, <2>4 DEF IdsAreFresh
<1>9. SessionsOnlyAdd'
  <2>1. \A t \in Scans : DOMAIN session[t].loaded \subseteq DOMAIN devices
    BY DEF IInv, TypeOK, SessionOK
  <2> QED
    BY <1>1, <1>2, <1>5, <2>1 DEF IInv, SessionsOnlyAdd
<1>10. \A id \in Inserted(s) : session[s].work[id].mac # None =>
          /\ \A other \in DOMAIN devices : devices[other].mac # session[s].work[id].mac
          /\ \A other \in Inserted(s) \ {id} : session[s].work[other].mac # session[s].work[id].mac
  BY <1>2 DEF IInv, FlushedMacsAreNew, Duplicate
<1>11. OneRowPerMac'
  <2> SUFFICES ASSUME NEW i \in DOMAIN devices', NEW j \in DOMAIN devices',
                      devices'[i].mac = devices'[j].mac, devices'[i].mac # None, i # j
               PROVE  FALSE
    BY DEF OneRowPerMac
  <2>1. CASE i \in DOMAIN devices /\ j \in DOMAIN devices
    BY <1>1, <2>1 DEF IInv, OneRowPerMac
  <2>2. CASE i \in Inserted(s)
    BY <1>1, <1>10, <2>2
  <2>3. CASE j \in Inserted(s)
    BY <1>1, <1>10, <2>3
  <2> QED
    BY <1>1, <2>1, <2>2, <2>3
<1>12. FlushedMacsAreNew'
  <2> SUFFICES ASSUME NEW t \in Scans \ {s} PROVE FlushedNew(t)'
    BY <1>2, <1>5 DEF FlushedMacsAreNew, FlushedNew
  <2>1. session'[t] = session[t] /\ Inserted(t)' = Inserted(t) /\ NewMacs(t)' = NewMacs(t)
    BY <1>2, <1>6
  <2>2. ASSUME session[t].pc \in {"probing", "committing"}
        PROVE  ~Duplicate(t)'
    <3>1. ~Duplicate(t)
      BY <2>2 DEF IInv, FlushedMacsAreNew
    <3>2. NewMacs(s) \cap NewMacs(t) = {}
      BY <1>2, <2>2 DEF IInv, FlushedMacsAreNew
    <3>3. SUFFICES ASSUME NEW id \in Inserted(t), session[t].work[id].mac # None,
                          NEW other \in DOMAIN devices',
                          devices'[other].mac = session[t].work[id].mac
                   PROVE  FALSE
      BY <2>1, <3>1 DEF Duplicate
    <3>4. CASE other \in DOMAIN devices
      BY <1>1, <3>1, <3>3, <3>4 DEF Duplicate
    <3>5. CASE other \in Inserted(s)
      <4>1. session[t].work[id].mac \in NewMacs(s)
        BY <1>1, <3>3, <3>5 DEF NewMacs
      <4>2. session[t].work[id].mac \in NewMacs(t)
        BY <3>3 DEF NewMacs
      <4> QED
        BY <3>2, <4>1, <4>2
    <3> QED
      BY <1>1, <3>4, <3>5
  <2>3. ASSUME session[t].pc \in {"probing", "committing"},
               NEW u \in Scans \ {t}, session'[u].pc \in {"probing", "committing"}
        PROVE  NewMacs(t)' \cap NewMacs(u)' = {}
    <3>1. u # s
      BY <1>5, <2>3
    <3> QED
      BY <1>2, <1>6, <2>1, <2>3, <3>1 DEF IInv, FlushedMacsAreNew
  <2> QED
    BY <2>1, <2>2, <2>3 DEF IInv, FlushedMacsAreNew, FlushedNew
<1> QED
  BY <1>7, <1>8, <1>9, <1>11, <1>12 DEF IInv

-----------------------------------------------------------------------------
\* Every step keeps the invariant.
LEMMA NextIInv == IInv /\ [Next]_vars => IInv'
<1> SUFFICES ASSUME IInv, [Next]_vars PROVE IInv'
  OBVIOUS
<1>1. CASE UNCHANGED vars
  <2>1. UNCHANGED <<holder, devices, subnets, session, begun>>
    BY <1>1 DEF vars
  <2>2. TypeOK' /\ IdsAreFresh' /\ OneRowPerMac'
    BY <2>1 DEF IInv, TypeOK, SessionOK, IdsAreFresh, OneRowPerMac, Inserted
  <2>3. SessionsOnlyAdd'
    BY <2>1 DEF IInv, SessionsOnlyAdd
  <2>4. FlushedMacsAreNew'
    <3>1. \A s \in Scans : /\ Inserted(s)' = Inserted(s)
                           /\ NewMacs(s)' = NewMacs(s)
                           /\ Duplicate(s)' = Duplicate(s)
      BY <2>1 DEF Inserted, NewMacs, Duplicate
    <3> QED
      BY <2>1, <3>1 DEF IInv, FlushedMacsAreNew
  <2> QED
    BY <2>2, <2>3, <2>4 DEF IInv
<1>2. ASSUME NEW a \in Addresses, Renew(a) PROVE IInv'
  BY <1>2, RenewStep
<1>3. CASE Poll
  BY <1>3, PollStep
<1>4. ASSUME NEW s \in Scans, NEW given \in Cidrs \cup {None}, Begin(s, given) PROVE IInv'
  BY <1>4, BeginStep
<1>5. ASSUME NEW s \in Scans, BeginIdentify(s) PROVE IInv'
  BY <1>5, BeginIdentifyStep
<1>6. ASSUME NEW s \in Scans, ArpAnswers(s) PROVE IInv'
  BY <1>6, ArpStep
<1>7. ASSUME NEW s \in Scans, SweepAnswers(s) PROVE IInv'
  BY <1>7, SweepStep
<1>8. ASSUME NEW s \in Scans, Flush(s) PROVE IInv'
  BY <1>8, FlushStep
<1>9. ASSUME NEW s \in Scans, FlushFails(s) PROVE IInv'
  BY <1>9, EndStep DEF FlushFails
<1>10. ASSUME NEW s \in Scans, SnmpAnswers(s) PROVE IInv'
  BY <1>10, SnmpStep
<1>11. ASSUME NEW s \in Scans, Commit(s) PROVE IInv'
  BY <1>11, CommitStep
<1>12. ASSUME NEW s \in Scans, ScanFails(s) PROVE IInv'
  BY <1>12, EndStep DEF ScanFails
<1> QED
  BY <1>1, <1>2, <1>3, <1>4, <1>5, <1>6, <1>7, <1>8, <1>9, <1>10, <1>11, <1>12 DEF Next

\* The invariant holds in every state the system reaches.
LEMMA Invariance == Spec => []IInv
  BY InitIInv, NextIInv, PTL DEF Spec

\* Every session keeps to what upsert_many and update_snmp_info build, and the
\* rows committed are well formed.
THEOREM TypeCorrect == Spec => []TypeOK
<1>1. IInv => TypeOK
  BY DEF IInv
<1> QED
  BY Invariance, <1>1, PTL

\* However many scans run at once, find the same host at several addresses,
\* fail or wait for one another, no MAC ever has two rows in the registry.
THEOREM OneHostOneRow == Spec => []OneRowPerMac
<1>1. IInv => OneRowPerMac
  BY DEF IInv
<1> QED
  BY Invariance, <1>1, PTL

\* No step takes anything from the registry.
LEMMA NextGrows ==
    ASSUME IInv, [Next]_vars
    PROVE  \A id \in DOMAIN devices : id \in DOMAIN devices' /\ KeptIn(devices[id], devices'[id])
<1>1. CASE devices' = devices
  BY <1>1 DEF KeptIn
<1>2. CASE Poll
  <2> TAKE id \in DOMAIN devices
  <2>1. devices[id] \in Row
    BY DEF IInv, TypeOK, Partial
  <2>2. id \in DOMAIN devices' /\ devices'[id] = [devices[id] EXCEPT !.status = "POLLED"]
    BY <1>2 DEF Poll
  <2> QED
    BY <2>1, <2>2 DEF Row, KeptIn
<1>3. ASSUME NEW s \in Scans, Commit(s)
      PROVE  \A id \in DOMAIN devices :
                id \in DOMAIN devices' /\ KeptIn(devices[id], devices'[id])
  <2> TAKE id \in DOMAIN devices
  <2>1. id \in DOMAIN devices' /\ Updates(devices'[id], devices[id])
    BY <1>3, CommittedRows
  <2> QED
    BY <2>1 DEF Updates, KeptIn
<1> QED
  BY <1>1, <1>2, <1>3 DEF Next, vars, Renew, Begin, BeginIdentify, ArpAnswers, SweepAnswers,
                         Flush, FlushFails, SnmpAnswers, ScanFails

\* A scan never takes anything from the registry.
THEOREM GrowsOnly == Spec => RegistryGrows
<1>1. IInv /\ [Next]_vars =>
        [\A id \in DOMAIN devices : id \in DOMAIN devices' /\ KeptIn(devices[id], devices'[id])]_vars
  BY NextGrows
<1> QED
  BY Invariance, <1>1, PTL DEF Spec, RegistryGrows

-----------------------------------------------------------------------------
(***************************************************************************)
(* What a scan knows of the network while it runs: no address changes      *)
(* hands, so what its answers said of a host stays true until it commits.  *)
(***************************************************************************)
\* The session that upsert_many leaves is matched with its answers.
LEMMA MatchedIsMatching ==
    ASSUME IInv, NumbersAreOwn, NEW s \in Scans, session[s].pc \in {"asking", "sweeping"},
           NEW found, Partial(found, Addresses, Macs \cup {None}),
           \/ \A a \in DOMAIN found : found[a] = None
           \/ \A a \in DOMAIN found : found[a] # None /\ found[a] = holder[a],
           NEW last \in LastAddresses(session[s], found)
    PROVE  /\ Matching(Matched(session[s], found, last))
           /\ Matched(session[s], found, last).pc = "flushing"
           /\ Matched(session[s], found, last).n = session[s].n
           /\ Matched(session[s], found, last).cidr = session[s].cidr
<1> DEFINE n == session[s].n
           target == [a \in DOMAIN found |-> TargetOf(n, a, found[a])]
           old == Range(target) \cap DOMAIN devices
           work == [id \in Range(target) |->
                      IF id \in old THEN Assigned(devices[id], n, last[id], devices[id].mac)
                      ELSE NewRow(n, id[2], found[id[2]])]
           r == Matched(session[s], found, last)
<1>1. SessionOK(session[s]) /\ session[s].pc # "idle"
  BY DEF IInv, TypeOK
<1>2. /\ \A id \in DOMAIN devices : id[1] # n /\ devices[id].subnet # n
      /\ \A id \in DOMAIN devices : devices[id] \in Row
  BY <1>1 DEF IInv, TypeOK, Partial, IdsAreFresh, NumbersAreOwn
<1>3. /\ r.pc = "flushing" /\ r.n = n /\ r.cidr = session[s].cidr
      /\ r.found = found /\ r.target = target
      /\ r.loaded = Restrict(devices, old) /\ r.work = work
  <2>1. DOMAIN session[s] = {"pc", "n", "cidr", "found", "target", "loaded", "work"}
    BY <1>1 DEF SessionOK, Idle
  <2> HIDE DEF target, work, old
  <2>2. r = [session[s] EXCEPT !.pc = "flushing", !.found = found, !.target = target,
                              !.loaded = Restrict(devices, old), !.work = work]
    BY DEF Matched, target, work, old
  <2> QED
    BY <2>1, <2>2
<1>4. /\ DOMAIN r.work = Range(target)
      /\ DOMAIN r.loaded = old
      /\ \A id \in old : r.loaded[id] = devices[id]
  BY <1>3 DEF Restrict
<1>5. ASSUME NEW a \in DOMAIN found
      PROVE  /\ target[a] \in Range(target)
             /\ work[target[a]].mac = found[a]
             /\ IF target[a] \in old THEN found[a] # None ELSE target[a] = <<n, a>>
  <2>1. target[a] = TargetOf(n, a, found[a]) /\ target[a] \in Range(target)
    BY DEF Range
  <2>2. CASE Known(n, a, found[a]) = {}
    <3>1. target[a] = <<n, a>> /\ target[a] \notin old
      BY <1>2, <2>1, <2>2 DEF TargetOf
    <3>2. work[target[a]] = NewRow(n, a, found[a])
      BY <2>1, <3>1
    <3> QED
      BY <2>1, <3>1, <3>2 DEF NewRow
  <2>3. CASE Known(n, a, found[a]) # {}
    <3>1. target[a] \in Known(n, a, found[a])
      BY <2>1, <2>3 DEF TargetOf
    <3>2. target[a] \in old /\ found[a] # None /\ devices[target[a]].mac = found[a]
      BY <1>2, <2>1, <3>1 DEF Known
    <3>3. work[target[a]] = Assigned(devices[target[a]], n, last[target[a]], found[a])
      BY <2>1, <3>2
    <3> QED
      BY <1>2, <2>1, <3>2, <3>3 DEF Assigned, Row
  <2> QED
    BY <2>2, <2>3
<1>6. ASSUME NEW id \in Range(target)
      PROVE  /\ work[id].subnet = n
             /\ \E a \in DOMAIN found : target[a] = id /\ work[id].ip = a
             /\ work[id].identity = IF id \in old THEN devices[id].identity ELSE None
  <2>1. CASE id \in old
    <3>1. work[id] = Assigned(devices[id], n, last[id], devices[id].mac) /\ devices[id] \in Row
      BY <1>2, <2>1
    <3>2. last[id] \in DOMAIN found /\ target[last[id]] = id
      <4>1. Range(target) = {TargetOf(n, a, found[a]) : a \in DOMAIN found}
        BY DEF Range
      <4>2. last \in [Range(target) -> DOMAIN found]
            /\ \A i \in DOMAIN last : TargetOf(n, last[i], found[last[i]]) = i
        BY <4>1 DEF LastAddresses
      <4> QED
        BY <4>2
    <3> QED
      BY <2>1, <3>1, <3>2 DEF Assigned, Row
  <2>2. CASE id \notin old
    <3>1. PICK a \in DOMAIN found : target[a] = id
      BY DEF Range
    <3>2. id = <<n, a>>
      BY <1>5, <2>2, <3>1
    <3>3. work[id] = NewRow(n, a, found[a])
      BY <2>2, <3>2
    <3> QED
      BY <2>2, <3>1, <3>3 DEF NewRow
  <2> QED
    BY <2>1, <2>2
<1>7. ByPing(r) \/ ByArp(r)
  BY <1>3 DEF ByPing, ByArp
<1>8. \A id \in old : id \in Range(target) /\ devices[id].subnet # n
  BY <1>2
<1>9. DOMAIN target = DOMAIN found
  OBVIOUS
<1> HIDE DEF r, target, old, work
<1>10. Matching(r)
  BY <1>3, <1>4, <1>5, <1>6, <1>7, <1>8, <1>9 DEF Matching
<1> QED
  BY <1>3, <1>10 DEF r, n

\* The columns that a commit writes to a row read before.
LEMMA WrittenColumns ==
    ASSUME IInv, NEW s \in Scans, NEW id \in DOMAIN session[s].loaded
    PROVE  LET new == session[s].work[id]
               old == session[s].loaded[id]
               row == WrittenRow(s, id)
           IN  /\ row.ip = IF new.ip = old.ip THEN devices[id].ip ELSE new.ip
               /\ row.subnet = IF new.subnet = old.subnet THEN devices[id].subnet ELSE new.subnet
               /\ row.identity = IF new.identity = old.identity THEN devices[id].identity
                                 ELSE new.identity
<1>1. id \in DOMAIN session[s].work /\ session[s].work[id] \in Row
  BY DEF IInv, TypeOK, SessionOK, Partial
<1>2. WrittenRow(s, id) = [c \in DOMAIN session[s].work[id] |->
                             IF session[s].work[id][c] = session[s].loaded[id][c]
                             THEN devices[id][c] ELSE session[s].work[id][c]]
  BY <1>1 DEF WrittenRow, Inserted
<1>3. DOMAIN session[s].work[id] = {"ip", "mac", "subnet", "identity", "status"}
  BY <1>1 DEF Row
<1> QED
  BY <1>2, <1>3

\* What the commit of a scan by ARP or by ping leaves of the rows it writes:
\* they are in its subnet, at an address where their host is now, or, without a
\* MAC, where it was pinged.
LEMMA CommittedMatch ==
    ASSUME IInv, SessionsAreMatched, NEW s \in Scans, Commit(s), session[s].cidr # None,
           NEW id \in DOMAIN session[s].work
    PROVE  /\ id \in DOMAIN devices'
           /\ devices'[id].subnet = session[s].n
           /\ devices'[id].mac = session[s].work[id].mac
           /\ devices'[id].mac # None => holder[devices'[id].ip] = devices'[id].mac
           /\ id \in DOMAIN devices => devices'[id].mac # None
           /\ devices'[id].mac = None => devices'[id] = session[s].work[id]
<1> DEFINE r == session[s]
<1>1. /\ r.pc = "committing" /\ SessionOK(r) /\ Matching(r)
      /\ DOMAIN r.work = DOMAIN r.loaded \cup Inserted(s)
      /\ DOMAIN r.loaded \subseteq DOMAIN devices
      /\ DOMAIN r.loaded \cap Inserted(s) = {}
  BY DEF Commit, IInv, TypeOK, SessionsAreMatched, SessionOK, Inserted
<1>2. PICK a \in DOMAIN r.found : r.target[a] = id /\ r.work[id].ip = a
  BY <1>1 DEF Matching
<1>3. r.work[id].subnet = r.n /\ r.work[id].mac = r.found[a]
  BY <1>1, <1>2 DEF Matching
<1>4. r.found[a] # None => holder[a] = r.work[id].mac
  BY <1>1, <1>3 DEF Matching, ByPing, ByArp
<1>5. CASE id \in Inserted(s)
  <2>1. /\ devices'[id] = r.work[id]
        /\ id \in DOMAIN devices'
        /\ id \notin DOMAIN devices
    BY <1>5, CommittedRows
  <2> QED
    BY <1>2, <1>3, <1>4, <2>1
<1>6. CASE id \in DOMAIN r.loaded
  <2>1. /\ id \in DOMAIN devices /\ id \in DOMAIN devices'
        /\ devices'[id] = WrittenRow(s, id)
    BY <1>1, <1>6 DEF Commit
  <2>2. /\ r.found[a] # None
        /\ r.loaded[id].subnet # r.n
        /\ devices[id].ip = r.loaded[id].ip \/ holder[devices[id].ip] = devices[id].mac
    BY <1>1, <1>2, <1>6 DEF Matching
  <2>3. devices'[id].subnet = r.n
    BY <1>3, <1>6, <2>1, <2>2, WrittenColumns
  <2>4. /\ devices'[id].mac = devices[id].mac
        /\ devices[id].mac = r.work[id].mac
    BY <1>6, <2>1, WrittenUpdate DEF Updates, IInv, SessionsOnlyAdd
  <2>5. holder[devices'[id].ip] = devices'[id].mac
    <3>1. devices'[id].ip = IF r.work[id].ip = r.loaded[id].ip THEN devices[id].ip ELSE r.work[id].ip
      BY <1>6, <2>1, WrittenColumns
    <3>2. holder[r.work[id].ip] = r.work[id].mac
      BY <1>2, <1>4, <2>2
    <3> QED
      BY <2>2, <2>4, <3>1, <3>2
  <2> QED
    BY <1>3, <2>1, <2>2, <2>3, <2>4, <2>5
<1> QED
  BY <1>1, <1>5, <1>6

\* The commit of a scan of the known devices moves no row.
LEMMA CommittedInPlace ==
    ASSUME IInv, SessionsAreMatched, NEW s \in Scans, Commit(s), session[s].cidr = None
    PROVE  /\ DOMAIN devices' = DOMAIN devices
           /\ \A id \in DOMAIN devices :
                 /\ devices'[id].ip = devices[id].ip
                 /\ devices'[id].subnet = devices[id].subnet
<1>1. session[s].pc = "committing" /\ Identifying(session[s])
  BY DEF Commit, SessionsAreMatched
<1>2. DOMAIN session[s].loaded = DOMAIN session[s].work
      /\ DOMAIN session[s].loaded \subseteq DOMAIN devices
  BY <1>1 DEF Identifying, IInv, TypeOK, SessionOK
<1>3. /\ DOMAIN devices' = DOMAIN session[s].work \cup DOMAIN devices
      /\ \A id \in DOMAIN devices' : devices'[id] =
            IF id \in DOMAIN session[s].work THEN WrittenRow(s, id) ELSE devices[id]
  BY DEF Commit
<1>4. \A id \in DOMAIN session[s].loaded :
         /\ WrittenRow(s, id).ip = devices[id].ip
         /\ WrittenRow(s, id).subnet = devices[id].subnet
  BY <1>1, WrittenColumns DEF Identifying
<1> QED
  BY <1>2, <1>3, <1>4

\* A step of one session that commits nothing, if that session is idle, or
\* goes on under its number or a new one, and is matched after the step.
LEMMA QuietStep ==
    ASSUME RegistryInv, NEW s \in Scans,
           UNCHANGED <<holder, devices, subnets>>,
           begun' >= begun, begun' \in Nat,
           \A t \in Scans \ {s} : session'[t] = session[t],
           \/ session'[s].pc = "idle"
           \/ session'[s].n = begun + 1
           \/ session[s].pc # "idle" /\ session'[s].n = session[s].n,
           session'[s].pc \in {"flushing", "probing", "committing"} =>
              IF session'[s].cidr = None THEN Identifying(session'[s]) ELSE Matching(session'[s])
    PROVE  NumbersAreOwn' /\ SessionsAreMatched' /\ AddressesAreUnique'
<1>1. begun \in Nat
  BY DiscoveryAssumption DEF RegistryInv, IInv, TypeOK
<1>2. /\ \A n \in DOMAIN subnets : n \in Nat /\ n <= begun
      /\ \A id \in DOMAIN devices : devices[id].subnet \in Nat /\ devices[id].subnet <= begun
  BY DEF RegistryInv, IInv, TypeOK, Partial, Row, SubnetIds, NumbersAreOwn
<1>3. NumbersAreOwn'
  <2>1. ASSUME session'[s].pc # "idle"
        PROVE  /\ session'[s].n \notin DOMAIN subnets
               /\ \A id \in DOMAIN devices : devices[id].subnet # session'[s].n
    <3>1. CASE session'[s].n = begun + 1
      BY <1>1, <1>2, <3>1
    <3>2. CASE session[s].pc # "idle" /\ session'[s].n = session[s].n
      BY <3>2 DEF RegistryInv, NumbersAreOwn
    <3> QED
      BY <2>1, <3>1, <3>2
  <2>2. /\ \A n \in DOMAIN subnets : n <= begun'
        /\ \A id \in DOMAIN devices : devices[id].subnet <= begun'
    BY <1>1, <1>2
  <2> QED
    BY <2>1, <2>2 DEF RegistryInv, NumbersAreOwn
<1>4. SessionsAreMatched'
  <2> SUFFICES ASSUME NEW t \in Scans,
                      session'[t].pc \in {"flushing", "probing", "committing"}
               PROVE  IF session'[t].cidr = None THEN Identifying(session'[t])
                      ELSE Matching(session[t])'
    BY DEF SessionsAreMatched, Identifying
  <2>1. IF session'[t].cidr = None THEN Identifying(session'[t]) ELSE Matching(session'[t])
    BY DEF RegistryInv, SessionsAreMatched
  <2> QED
    BY <2>1 DEF Matching, ByPing, ByArp
<1>5. AddressesAreUnique'
  BY DEF RegistryInv, AddressesAreUnique
<1> QED
  BY <1>3, <1>4, <1>5

\* The answers to the ARP requests or to the pings are matched.
LEMMA ArpMatched ==
    ASSUME RegistryInv, NEW s \in Scans, ArpAnswers(s)
    PROVE  NumbersAreOwn' /\ SessionsAreMatched' /\ AddressesAreUnique'
<1>1. /\ session[s].pc = "asking" /\ DOMAIN session = Scans
      /\ SessionOK(session[s]) /\ session[s].cidr \in Cidrs
      /\ begun \in Nat
  <2>1. session[s].pc = "asking" /\ session[s].cidr # None
    BY DEF ArpAnswers, RegistryInv, IInv, FlushedMacsAreNew
  <2>2. DOMAIN session = Scans /\ SessionOK(session[s]) /\ begun \in Nat
    BY DiscoveryAssumption DEF RegistryInv, IInv, TypeOK
  <2> QED
    BY <2>1, <2>2 DEF SessionOK
<1>2. UNCHANGED <<holder, devices, subnets, begun>>
  BY DEF ArpAnswers
<1>3. PICK heard \in SUBSET Answering(session[s].cidr) :
         IF heard = {} THEN session' = [session EXCEPT ![s].pc = "sweeping"]
         ELSE \E last \in LastAddresses(session[s], [a \in heard |-> holder[a]]) :
                 session' = [session EXCEPT ![s] =
                               Matched(session[s], [a \in heard |-> holder[a]], last)]
  BY DEF ArpAnswers
<1>4. CASE heard = {}
  <2>1. /\ session' = [session EXCEPT ![s].pc = "sweeping"]
        /\ DOMAIN session[s] = {"pc", "n", "cidr", "found", "target", "loaded", "work"}
    BY <1>1, <1>3, <1>4 DEF SessionOK, Idle
  <2>2. /\ \A t \in Scans \ {s} : session'[t] = session[t]
        /\ session'[s].pc = "sweeping" /\ session'[s].n = session[s].n
    BY <1>1, <2>1
  <2> QED
    BY <1>1, <1>2, <2>2, QuietStep
<1>5. CASE heard # {}
  <2> DEFINE found == [a \in heard |-> holder[a]]
  <2>1. PICK last \in LastAddresses(session[s], found) :
           session' = [session EXCEPT ![s] = Matched(session[s], found, last)]
    BY <1>3, <1>5
  <2>2. Partial(found, Addresses, Macs \cup {None})
    BY <1>1, AnswersType DEF RegistryInv
  <2>3. \A a \in DOMAIN found : found[a] # None /\ found[a] = holder[a]
    BY DEF Answering
  <2> HIDE DEF found
  <2>4. /\ Matching(Matched(session[s], found, last))
        /\ Matched(session[s], found, last).pc = "flushing"
        /\ Matched(session[s], found, last).n = session[s].n
        /\ Matched(session[s], found, last).cidr = session[s].cidr
    BY <1>1, <2>2, <2>3, MatchedIsMatching DEF RegistryInv
  <2>5. /\ \A t \in Scans \ {s} : session'[t] = session[t]
        /\ session'[s] = Matched(session[s], found, last)
    BY <1>1, <2>1
  <2>6. /\ session'[s].n = session[s].n
        /\ session[s].cidr # None
        /\ IF session'[s].cidr = None THEN Identifying(session'[s]) ELSE Matching(session'[s])
    BY <1>1, <2>4, <2>5, DiscoveryAssumption
  <2> QED
    BY <1>1, <1>2, <2>5, <2>6, QuietStep
<1> QED
  BY <1>4, <1>5

LEMMA SweepMatched ==
    ASSUME RegistryInv, NEW s \in Scans, SweepAnswers(s)
    PROVE  NumbersAreOwn' /\ SessionsAreMatched' /\ AddressesAreUnique'
<1>1. /\ session[s].pc = "sweeping" /\ DOMAIN session = Scans
      /\ SessionOK(session[s]) /\ session[s].cidr \in Cidrs
      /\ begun \in Nat
  <2>1. session[s].pc = "sweeping" /\ session[s].cidr # None
    BY DEF SweepAnswers, RegistryInv, IInv, FlushedMacsAreNew
  <2>2. DOMAIN session = Scans /\ SessionOK(session[s]) /\ begun \in Nat
    BY DiscoveryAssumption DEF RegistryInv, IInv, TypeOK
  <2> QED
    BY <2>1, <2>2 DEF SessionOK
<1>2. UNCHANGED <<holder, devices, subnets, begun>>
  BY DEF SweepAnswers
<1>3. PICK heard \in SUBSET Answering(session[s].cidr) :
         \E last \in LastAddresses(session[s], [a \in heard |-> None]) :
            session' = [session EXCEPT ![s] =
                          Matched(session[s], [a \in heard |-> None], last)]
  BY DEF SweepAnswers
<1> DEFINE found == [a \in heard |-> None]
<1>4. PICK last \in LastAddresses(session[s], found) :
         session' = [session EXCEPT ![s] = Matched(session[s], found, last)]
  BY <1>3
<1>5. Partial(found, Addresses, Macs \cup {None})
  BY <1>1, AnswersType DEF RegistryInv
<1>6. \A a \in DOMAIN found : found[a] = None
  OBVIOUS
<1> HIDE DEF found
<1>7. /\ Matching(Matched(session[s], found, last))
      /\ Matched(session[s], found, last).pc = "flushing"
      /\ Matched(session[s], found, last).n = session[s].n
      /\ Matched(session[s], found, last).cidr = session[s].cidr
  BY <1>1, <1>5, <1>6, MatchedIsMatching DEF RegistryInv
<1>8. /\ \A t \in Scans \ {s} : session'[t] = session[t]
      /\ session'[s] = Matched(session[s], found, last)
  BY <1>1, <1>4
<1>9. /\ session'[s].n = session[s].n
      /\ IF session'[s].cidr = None THEN Identifying(session'[s]) ELSE Matching(session'[s])
  BY <1>1, <1>7, <1>8, DiscoveryAssumption
<1> QED
  BY <1>1, <1>2, <1>8, <1>9, QuietStep

\* A flush and the answers to SNMP keep the matching: only identities change,
\* and to the host at the address of the row.
LEMMA FlushMatched ==
    ASSUME RegistryInv, NEW s \in Scans, Flush(s)
    PROVE  NumbersAreOwn' /\ SessionsAreMatched' /\ AddressesAreUnique'
<1>1. /\ session[s].pc = "flushing" /\ DOMAIN session = Scans
      /\ SessionOK(session[s]) /\ begun \in Nat
      /\ session' = [session EXCEPT ![s].pc = "probing"]
      /\ UNCHANGED <<holder, devices, subnets, begun>>
      /\ IF session[s].cidr = None THEN Identifying(session[s]) ELSE Matching(session[s])
  BY DiscoveryAssumption DEF Flush, RegistryInv, IInv, TypeOK, SessionsAreMatched
<1>2. DOMAIN session[s] = {"pc", "n", "cidr", "found", "target", "loaded", "work"}
  BY <1>1 DEF SessionOK, Idle
<1>3. /\ \A t \in Scans \ {s} : session'[t] = session[t]
      /\ session'[s].n = session[s].n
      /\ session'[s].cidr = session[s].cidr /\ session'[s].found = session[s].found
      /\ session'[s].target = session[s].target /\ session'[s].loaded = session[s].loaded
      /\ session'[s].work = session[s].work
  BY <1>1, <1>2
<1>4. IF session'[s].cidr = None THEN Identifying(session'[s]) ELSE Matching(session'[s])
  BY <1>1, <1>3 DEF Identifying, Matching, ByPing, ByArp
<1> QED
  BY <1>1, <1>3, <1>4, QuietStep

LEMMA SnmpMatched ==
    ASSUME RegistryInv, NEW s \in Scans, SnmpAnswers(s)
    PROVE  NumbersAreOwn' /\ SessionsAreMatched' /\ AddressesAreUnique'
<1>1. /\ session[s].pc = "probing" /\ DOMAIN session = Scans
      /\ SessionOK(session[s]) /\ begun \in Nat
      /\ UNCHANGED <<holder, devices, subnets, begun>>
      /\ IF session[s].cidr = None THEN Identifying(session[s]) ELSE Matching(session[s])
  BY DiscoveryAssumption DEF SnmpAnswers, RegistryInv, IInv, TypeOK, SessionsAreMatched
<1>2. PICK answered \in SUBSET {a \in {session[s].work[id].ip : id \in Range(session[s].target)} :
                                   holder[a] # None} :
         session' = [session EXCEPT
                        ![s].pc = "committing",
                        ![s].work = [id \in DOMAIN session[s].work |->
                                       IF Identified(s, id, answered)
                                       THEN [session[s].work[id] EXCEPT
                                               !.identity = holder[session[s].work[id].ip]]
                                       ELSE session[s].work[id]]]
  BY DEF SnmpAnswers
<1> DEFINE w == [id \in DOMAIN session[s].work |->
                   IF Identified(s, id, answered)
                   THEN [session[s].work[id] EXCEPT
                           !.identity = holder[session[s].work[id].ip]]
                   ELSE session[s].work[id]]
<1>3. DOMAIN w = DOMAIN session[s].work
      /\ \A id \in DOMAIN w : /\ w[id].ip = session[s].work[id].ip
                              /\ w[id].mac = session[s].work[id].mac
                              /\ w[id].subnet = session[s].work[id].subnet
                              /\ \/ w[id].identity = session[s].work[id].identity
                                 \/ w[id].identity = holder[w[id].ip]
  <2>1. ASSUME NEW id \in DOMAIN session[s].work
        PROVE  /\ w[id].ip = session[s].work[id].ip
               /\ w[id].mac = session[s].work[id].mac
               /\ w[id].subnet = session[s].work[id].subnet
               /\ \/ w[id].identity = session[s].work[id].identity
                  \/ w[id].identity = holder[w[id].ip]
    <3>1. session[s].work[id] \in Row
      BY <1>1 DEF SessionOK, Partial
    <3> QED
      BY <3>1 DEF Row
  <2> QED
    BY <2>1
<1>4. session' = [session EXCEPT ![s].pc = "committing", ![s].work = w]
  BY <1>2
<1> HIDE DEF w
<1>5. DOMAIN session[s] = {"pc", "n", "cidr", "found", "target", "loaded", "work"}
  BY <1>1 DEF SessionOK, Idle
<1>6. /\ \A t \in Scans \ {s} : session'[t] = session[t]
      /\ session'[s] = [session[s] EXCEPT !.pc = "committing", !.work = w]
  BY <1>1, <1>4, <1>5
<1>7. /\ session'[s].pc = "committing" /\ session'[s].n = session[s].n
      /\ session'[s].cidr = session[s].cidr /\ session'[s].found = session[s].found
      /\ session'[s].target = session[s].target /\ session'[s].loaded = session[s].loaded
      /\ session'[s].work = w
  BY <1>5, <1>6
<1>8. IF session'[s].cidr = None THEN Identifying(session'[s]) ELSE Matching(session'[s])
  <2>1. CASE session[s].cidr = None
    <3>1. DOMAIN session[s].loaded = DOMAIN session[s].work
          /\ \A id \in DOMAIN session[s].loaded :
                /\ session[s].work[id].ip = session[s].loaded[id].ip
                /\ session[s].work[id].subnet = session[s].loaded[id].subnet
      BY <1>1, <2>1 DEF Identifying
    <3> QED
      BY <1>3, <1>7, <2>1, <3>1 DEF Identifying
  <2>2. CASE session[s].cidr # None
    <3>1. Matching(session[s])
      BY <1>1, <2>2
    <3>2. \A a \in DOMAIN session[s].found : session[s].target[a] \in DOMAIN session[s].work
      BY <1>1, <3>1 DEF Matching, SessionOK, Range
    <3>3. ByPing(session'[s]) \/ ByArp(session'[s])
      BY <1>7, <3>1 DEF Matching, ByPing, ByArp
    <3>4. Matching(session'[s])
      BY <1>3, <1>7, <3>1, <3>2, <3>3 DEF Matching
    <3> QED
      BY <1>7, <2>2, <3>4
  <2> QED
    BY <2>1, <2>2
<1>9. /\ UNCHANGED <<holder, devices, subnets>> /\ begun' >= begun /\ begun' \in Nat
      /\ \A t \in Scans \ {s} : session'[t] = session[t]
      /\ session[s].pc # "idle" /\ session'[s].n = session[s].n
  BY <1>1, <1>6, <1>7
<1> QED
  BY <1>8, <1>9, QuietStep

\* A commit leaves the rows of a scan at addresses that differ, and the other
\* sessions matched with the rows as they are then.
LEMMA CommitUnique ==
    ASSUME RegistryInv, NEW s \in Scans, Commit(s)
    PROVE  AddressesAreUnique'
<1>1. /\ IInv /\ SessionsAreMatched /\ NumbersAreOwn /\ AddressesAreUnique
      /\ session[s].pc = "committing"
  BY DEF RegistryInv, Commit
<1>2. OneRowPerMac'
  BY <1>1, CommitStep DEF IInv
<1>3. CASE session[s].cidr = None
  BY <1>1, <1>3, CommittedInPlace DEF AddressesAreUnique
<1>4. CASE session[s].cidr # None
  <2> DEFINE r == session[s]
  <2>1. Matching(r) /\ SessionOK(r)
    BY <1>1, <1>4 DEF SessionsAreMatched, IInv, TypeOK
  <2>2. /\ DOMAIN devices' = DOMAIN r.work \cup DOMAIN devices
        /\ \A id \in DOMAIN devices \ DOMAIN r.work : devices'[id] = devices[id]
    BY DEF Commit
  <2>3. \A id \in DOMAIN devices \ DOMAIN r.work : devices'[id].subnet # r.n
    BY <1>1, <2>2 DEF NumbersAreOwn
  <2>4. \A id \in DOMAIN r.work :
           /\ devices'[id].subnet = r.n
           /\ devices'[id].mac = r.work[id].mac
           /\ devices'[id].mac # None => holder[devices'[id].ip] = devices'[id].mac
           /\ devices'[id].mac = None => devices'[id] = r.work[id]
    BY <1>1, <1>4, CommittedMatch
  <2>5. \A id \in DOMAIN r.work :
           \E a \in DOMAIN r.found : r.target[a] = id /\ r.work[id].ip = a /\ r.work[id].mac = r.found[a]
    BY <2>1 DEF Matching
  <2>6. ASSUME NEW i \in DOMAIN r.work, NEW j \in DOMAIN r.work, i # j
        PROVE  devices'[i].ip # devices'[j].ip
    <3>1. CASE ByPing(r)
      <4>1. r.work[i].mac = None /\ r.work[j].mac = None
        BY <2>5, <3>1 DEF ByPing
      <4>2. devices'[i] = r.work[i] /\ devices'[j] = r.work[j]
        BY <2>4, <4>1
      <4> QED
        BY <2>5, <2>6, <4>2
    <3>2. CASE ByArp(r)
      <4>1. r.work[i].mac # None /\ r.work[j].mac # None
        BY <2>5, <3>2 DEF ByArp
      <4>2. devices'[i].mac # devices'[j].mac
        BY <1>2, <2>2, <2>4, <2>6, <4>1 DEF OneRowPerMac
      <4> QED
        BY <2>4, <4>1, <4>2
    <3> QED
      BY <2>1, <3>1, <3>2 DEF Matching
  <2> SUFFICES ASSUME NEW i \in DOMAIN devices', NEW j \in DOMAIN devices',
                      i # j, devices'[i].subnet = devices'[j].subnet
               PROVE  devices'[i].ip # devices'[j].ip
    BY DEF AddressesAreUnique
  <2>7. CASE i \in DOMAIN r.work
    BY <2>2, <2>3, <2>4, <2>6, <2>7
  <2>8. CASE j \in DOMAIN r.work
    BY <2>2, <2>3, <2>4, <2>6, <2>8
  <2>9. CASE i \notin DOMAIN r.work /\ j \notin DOMAIN r.work
    BY <1>1, <2>2, <2>9 DEF AddressesAreUnique
  <2> QED
    BY <2>7, <2>8, <2>9
<1> QED
  BY <1>3, <1>4

LEMMA CommitNumbers ==
    ASSUME RegistryInv, NEW s \in Scans, Commit(s)
    PROVE  NumbersAreOwn'
<1>1. /\ IInv /\ SessionsAreMatched /\ NumbersAreOwn
      /\ session[s].pc = "committing" /\ SessionOK(session[s])
      /\ begun' = begun /\ begun \in Nat
      /\ \A t \in Scans \ {s} : session'[t] = session[t]
      /\ session'[s].pc = "idle"
  BY DiscoveryAssumption DEF RegistryInv, Commit, EndSession, Idle, IInv, TypeOK
<1>2. session[s].n <= begun
  BY <1>1 DEF SessionOK
<1>3. DOMAIN subnets' \subseteq DOMAIN subnets \cup {session[s].n}
  BY DEF Commit
<1>4. \A id \in DOMAIN devices' : \/ devices'[id].subnet = session[s].n
                                  \/ id \in DOMAIN devices /\ devices'[id].subnet = devices[id].subnet
  <2>1. CASE session[s].cidr = None
    BY <1>1, <2>1, CommittedInPlace
  <2>2. CASE session[s].cidr # None
    <3>1. \A id \in DOMAIN session[s].work : devices'[id].subnet = session[s].n
      BY <1>1, <2>2, CommittedMatch
    <3>2. /\ DOMAIN devices' = DOMAIN session[s].work \cup DOMAIN devices
          /\ \A id \in DOMAIN devices \ DOMAIN session[s].work : devices'[id] = devices[id]
      BY DEF Commit
    <3> QED
      BY <3>1, <3>2
  <2> QED
    BY <2>1, <2>2
<1>5. ASSUME NEW t \in Scans, session'[t].pc # "idle"
      PROVE  /\ session'[t].n \notin DOMAIN subnets'
             /\ \A id \in DOMAIN devices' : devices'[id].subnet # session'[t].n
  <2>1. t # s /\ session'[t] = session[t]
    BY <1>1, <1>5
  <2>2. session[s].n # session[t].n
    BY <1>5, <2>1, <1>1 DEF IInv, IdsAreFresh
  <2> QED
    BY <1>1, <1>3, <1>4, <1>5, <2>1, <2>2 DEF NumbersAreOwn
<1> QED
  BY <1>1, <1>2, <1>3, <1>4, <1>5 DEF NumbersAreOwn

LEMMA CommitMatched ==
    ASSUME RegistryInv, NEW s \in Scans, Commit(s)
    PROVE  SessionsAreMatched'
<1>1. /\ IInv /\ SessionsAreMatched
      /\ session[s].pc = "committing"
      /\ holder' = holder
      /\ \A t \in Scans \ {s} : session'[t] = session[t]
      /\ session'[s].pc = "idle"
  BY DEF RegistryInv, Commit, EndSession, Idle, IInv, TypeOK
<1>2. /\ \A id \in DOMAIN devices : devices'[id].mac = devices[id].mac
      /\ DOMAIN devices \subseteq DOMAIN devices'
  BY <1>1, CommittedRows DEF Updates
<1>3. ASSUME NEW id \in DOMAIN devices
      PROVE  devices'[id].ip = devices[id].ip \/ holder[devices'[id].ip] = devices'[id].mac
  <2>1. CASE session[s].cidr = None
    BY <1>1, <2>1, CommittedInPlace
  <2>2. CASE session[s].cidr # None /\ id \in DOMAIN session[s].work
    BY <1>1, <2>2, CommittedMatch
  <2>3. CASE id \notin DOMAIN session[s].work
    BY <2>3 DEF Commit
  <2> QED
    BY <2>1, <2>2, <2>3
<1> SUFFICES ASSUME NEW t \in Scans,
                    session'[t].pc \in {"flushing", "probing", "committing"}
             PROVE  IF session'[t].cidr = None THEN Identifying(session'[t])
                    ELSE Matching(session[t])'
  BY DEF SessionsAreMatched, Identifying
<1>4. t # s /\ session'[t] = session[t]
  BY <1>1
<1>5. IF session[t].cidr = None THEN Identifying(session[t]) ELSE Matching(session[t])
  BY <1>1, <1>4 DEF SessionsAreMatched
<1>6. DOMAIN session[t].loaded \subseteq DOMAIN devices
  BY <1>1 DEF IInv, TypeOK, SessionOK
<1>7. ASSUME Matching(session[t]), NEW id \in DOMAIN session[t].loaded
      PROVE  devices'[id].ip = session[t].loaded[id].ip \/ holder[devices'[id].ip] = devices'[id].mac
  BY <1>2, <1>3, <1>6, <1>7 DEF Matching
<1>8. Matching(session[t]) => Matching(session[t])'
  BY <1>1, <1>4, <1>7 DEF Matching, ByPing, ByArp
<1> QED
  BY <1>4, <1>5, <1>8

-----------------------------------------------------------------------------
\* Every step keeps the invariant of the registry.
LEMMA NextRegistryInv == RegistryInv /\ [Next]_vars => RegistryInv'
<1> SUFFICES ASSUME RegistryInv, [Next]_vars
             PROVE  NumbersAreOwn' /\ SessionsAreMatched' /\ AddressesAreUnique'
  BY NextIInv DEF RegistryInv
<1>1. CASE UNCHANGED <<devices, subnets, session, begun>> /\ (holder' = holder \/ AllIdle)
  <2>1. NumbersAreOwn' /\ AddressesAreUnique'
    BY <1>1 DEF RegistryInv, NumbersAreOwn, AddressesAreUnique
  <2>2. SessionsAreMatched'
    <3>1. CASE AllIdle
      BY <1>1, <3>1 DEF AllIdle, SessionsAreMatched
    <3>2. CASE holder' = holder
      BY <1>1, <3>2 DEF RegistryInv, SessionsAreMatched, Matching, Identifying, ByPing, ByArp
    <3> QED
      BY <1>1, <3>1, <3>2
  <2> QED
    BY <2>1, <2>2
<1>2. CASE Poll
  <2>1. /\ DOMAIN devices' = DOMAIN devices
        /\ \A id \in DOMAIN devices : /\ devices'[id].ip = devices[id].ip
                                      /\ devices'[id].mac = devices[id].mac
                                      /\ devices'[id].subnet = devices[id].subnet
        /\ UNCHANGED <<holder, subnets, session, begun>>
    <3>1. \A id \in DOMAIN devices : devices[id] \in Row
      BY DEF RegistryInv, IInv, TypeOK, Partial
    <3> QED
      BY <1>2, <3>1 DEF Poll, Row
  <2>2. NumbersAreOwn' /\ AddressesAreUnique'
    BY <2>1 DEF RegistryInv, NumbersAreOwn, AddressesAreUnique
  <2>3. \A s \in Scans : DOMAIN session[s].loaded \subseteq DOMAIN devices
    BY DEF RegistryInv, IInv, TypeOK, SessionOK
  <2>4. SessionsAreMatched'
    BY <2>1, <2>3 DEF RegistryInv, SessionsAreMatched, Matching, Identifying, ByPing, ByArp
  <2> QED
    BY <2>2, <2>4
<1>3. ASSUME NEW s \in Scans, NEW given \in Cidrs \cup {None}, Begin(s, given)
      PROVE  NumbersAreOwn' /\ SessionsAreMatched' /\ AddressesAreUnique'
  <2>1. /\ begun' = begun + 1 /\ begun \in Nat
        /\ \A t \in Scans \ {s} : session'[t] = session[t]
        /\ session'[s].pc = "asking" /\ session'[s].n = begun + 1
        /\ UNCHANGED <<holder, devices, subnets>>
    BY <1>3, DiscoveryAssumption DEF Begin, RegistryInv, IInv, TypeOK, Idle
  <2> QED
    BY <2>1, QuietStep
<1>4. ASSUME NEW s \in Scans, BeginIdentify(s)
      PROVE  NumbersAreOwn' /\ SessionsAreMatched' /\ AddressesAreUnique'
  <2>1. /\ begun' = begun + 1 /\ begun \in Nat
        /\ \A t \in Scans \ {s} : session'[t] = session[t]
        /\ session'[s].n = begun + 1 /\ session'[s].cidr = None
        /\ session'[s].loaded = devices /\ session'[s].work = devices
        /\ UNCHANGED <<holder, devices, subnets>>
    BY <1>4, DiscoveryAssumption DEF BeginIdentify, RegistryInv, IInv, TypeOK, Idle
  <2>2. Identifying(session'[s])
    BY <2>1 DEF Identifying
  <2> QED
    BY <2>1, <2>2, QuietStep
<1>5. ASSUME NEW s \in Scans, EndSession(s), UNCHANGED <<holder, devices, subnets, begun>>
      PROVE  NumbersAreOwn' /\ SessionsAreMatched' /\ AddressesAreUnique'
  <2>1. /\ begun \in Nat
        /\ \A t \in Scans \ {s} : session'[t] = session[t]
        /\ session'[s].pc = "idle"
    BY <1>5, DiscoveryAssumption DEF EndSession, RegistryInv, IInv, TypeOK, Idle
  <2> QED
    BY <1>5, <2>1, QuietStep
<1>6. ASSUME NEW s \in Scans, Commit(s)
      PROVE  NumbersAreOwn' /\ SessionsAreMatched' /\ AddressesAreUnique'
  BY <1>6, CommitNumbers, CommitMatched, CommitUnique
<1>7. CASE \E s \in Scans : FlushFails(s) \/ ScanFails(s)
  BY <1>5, <1>7 DEF FlushFails, ScanFails
<1>8. CASE UNCHANGED vars \/ \E a \in Addresses : Renew(a)
  BY <1>1, <1>8 DEF vars, Renew
<1> QED
  BY <1>2, <1>3, <1>4, <1>6, <1>7, <1>8, ArpMatched, SweepMatched, FlushMatched, SnmpMatched DEF Next

LEMMA RegistryInvariance == Spec => []RegistryInv
<1>1. Init => RegistryInv
  <2> SUFFICES ASSUME Init PROVE RegistryInv
    OBVIOUS
  <2>1. NumbersAreOwn /\ SessionsAreMatched /\ AddressesAreUnique
    BY DEF Init, Idle, NoAnswers, NumbersAreOwn, SessionsAreMatched, AddressesAreUnique
  <2> QED
    BY <2>1, InitIInv DEF RegistryInv
<1> QED
  BY <1>1, NextRegistryInv, PTL DEF Spec

\* However the scans interleave, no subnet ever lists an address twice: a row
\* that another scan moved while this one ran is where its host is, and two
\* hosts are not at one address.
THEOREM OneRowPerAddress == Spec => []AddressesAreUnique
<1>1. RegistryInv => AddressesAreUnique
  BY DEF RegistryInv
<1> QED
  BY RegistryInvariance, <1>1, PTL

\* A step after which the subnet of a running scan is there is its commit.
LEMMA CommitsIsCommit ==
    ASSUME RegistryInv, [Next]_vars, NEW s \in Scans, Commits(s)
    PROVE  Commit(s) /\ session[s].cidr # None
<1>1. session[s].pc = "committing" /\ session'[s].pc = "idle" /\ session[s].n \in DOMAIN subnets'
  BY DEF Commits
<1>2. session[s].n \notin DOMAIN subnets
  BY <1>1 DEF RegistryInv, NumbersAreOwn
<1>3. subnets' # subnets
  BY <1>1, <1>2
<1>4. PICK t \in Scans : Commit(t)
  BY <1>3 DEF Next, vars, Renew, Poll, Begin, BeginIdentify, ArpAnswers, SweepAnswers,
             Flush, FlushFails, SnmpAnswers, ScanFails
<1>5. t = s
  <2>1. DOMAIN session = Scans
    BY DEF RegistryInv, IInv, TypeOK
  <2> QED
    BY <1>1, <1>4, <2>1 DEF Commit, EndSession
<1> QED
  BY <1>3, <1>4, <1>5 DEF Commit

\* A scan that commits has registered all it found, in its subnet and at an
\* address of the host, whatever was inserted or moved since it read the rows.
THEOREM AllRegistered == Spec => CommitRegistersAll
<1>1. ASSUME RegistryInv, [Next]_vars, NEW s \in Scans, Commits(s),
             NEW a \in DOMAIN session[s].found
      PROVE  IF session[s].found[a] = None THEN RegisteredAddress(s, a)
             ELSE RegisteredMac(s, session[s].found[a])
  <2> DEFINE r == session[s]
             id == r.target[a]
             mac == r.found[a]
  <2>1. /\ Commit(s) /\ r.cidr # None /\ r.pc = "committing"
        /\ IInv /\ SessionsAreMatched
    BY <1>1, CommitsIsCommit DEF Commit, RegistryInv
  <2>2. Matching(r) /\ SessionOK(r)
    BY <2>1 DEF SessionsAreMatched, IInv, TypeOK
  <2>3. id \in DOMAIN r.work /\ r.work[id].mac = mac
    BY <1>1, <2>2 DEF Matching, SessionOK, Range
  <2>4. /\ id \in DOMAIN devices'
        /\ devices'[id].subnet = r.n
        /\ devices'[id].mac = mac
        /\ devices'[id].mac # None => holder[devices'[id].ip] = mac
        /\ devices'[id].mac = None => devices'[id] = r.work[id]
    BY <2>1, <2>3, CommittedMatch
  <2>5. CASE mac = None
    <3>1. \A b \in DOMAIN r.found : r.found[b] = None /\ r.target[b] = <<r.n, b>>
      BY <1>1, <2>2, <2>5 DEF Matching, ByPing, ByArp
    <3>2. PICK b \in DOMAIN r.found : r.target[b] = id /\ r.work[id].ip = b
      BY <2>2, <2>3 DEF Matching
    <3>3. b = a
      BY <1>1, <3>1, <3>2
    <3> QED
      BY <2>4, <2>5, <3>2, <3>3 DEF RegisteredAddress
  <2>6. CASE mac # None
    <3>1. OneRowPerMac'
      BY <2>1, CommitStep DEF IInv
    <3>2. {i \in DOMAIN devices' : devices'[i].mac = mac} = {id}
      BY <2>4, <2>6, <3>1 DEF OneRowPerMac
    <3>3. \A i \in DOMAIN devices : i \in DOMAIN devices' /\ devices'[i].mac = devices[i].mac
      BY <2>1, CommittedRows DEF Updates
    <3>4. {i \in DOMAIN devices : devices[i].mac = mac} \subseteq {id}
      BY <3>2, <3>3
    <3> QED
      BY <2>4, <2>6, <3>2, <3>4 DEF RegisteredMac
  <2> QED
    BY <2>5, <2>6
<1>2. RegistryInv /\ [Next]_vars =>
        [\A s \in Scans : Commits(s) =>
            \A a \in DOMAIN session[s].found :
               IF session[s].found[a] = None THEN RegisteredAddress(s, a)
               ELSE RegisteredMac(s, session[s].found[a])]_vars
  BY <1>1
<1> QED
  BY RegistryInvariance, <1>2, PTL DEF Spec, CommitRegistersAll

\* An identity that a scan by ARP changes is that of the host with the MAC of
\* the row.
THEOREM OwnIdentity == Spec => IdentityIsOwn
<1> DEFINE old(id) == IF id \in DOMAIN devices THEN devices[id].identity ELSE None
<1>1. ASSUME RegistryInv, [Next]_vars, NEW s \in Scans, Commits(s),
             NEW id \in DOMAIN session[s].work,
             devices'[id].mac # None, devices'[id].identity # old(id)
      PROVE  devices'[id].identity = devices'[id].mac
  <2> DEFINE r == session[s]
  <2>1. /\ Commit(s) /\ r.cidr # None /\ r.pc = "committing"
        /\ IInv /\ SessionsAreMatched
    BY <1>1, CommitsIsCommit DEF Commit, RegistryInv
  <2>2. Matching(r) /\ SessionOK(r)
    BY <2>1 DEF SessionsAreMatched, IInv, TypeOK
  <2>3. devices'[id].mac = r.work[id].mac
    BY <1>1, <2>1, CommittedMatch
  <2>4. /\ holder[r.work[id].ip] = r.work[id].mac
        /\ \/ r.work[id].identity = IF id \in DOMAIN r.loaded THEN r.loaded[id].identity ELSE None
           \/ r.work[id].identity = holder[r.work[id].ip]
    <3>1. PICK a \in DOMAIN r.found : r.target[a] = id /\ r.work[id].ip = a
      BY <1>1, <2>2 DEF Matching
    <3>2. r.work[id].mac = r.found[a]
      BY <2>2, <3>1 DEF Matching
    <3> QED
      BY <1>1, <2>2, <2>3, <3>1, <3>2 DEF Matching, ByPing, ByArp
  <2>5. CASE id \in DOMAIN r.loaded
    <3>1. id \in DOMAIN devices /\ devices'[id] = WrittenRow(s, id)
      BY <1>1, <2>1, <2>2, <2>5 DEF Commit, SessionOK
    <3>2. devices'[id].identity = IF r.work[id].identity = r.loaded[id].identity
                                  THEN devices[id].identity ELSE r.work[id].identity
      BY <2>1, <2>5, <3>1, WrittenColumns
    <3> QED
      BY <1>1, <2>3, <2>4, <2>5, <3>1, <3>2
  <2>6. CASE id \notin DOMAIN r.loaded
    <3>1. id \in Inserted(s)
      BY <1>1, <2>6 DEF Inserted
    <3>2. devices'[id] = r.work[id] /\ id \notin DOMAIN devices
      BY <2>1, <3>1, CommittedRows
    <3> QED
      BY <1>1, <2>3, <2>4, <2>6, <3>2
  <2> QED
    BY <2>5, <2>6
<1>2. RegistryInv /\ [Next]_vars =>
        [\A s \in Scans : Commits(s) =>
            \A id \in DOMAIN session[s].work :
               LET before == IF id \in DOMAIN devices THEN devices[id].identity ELSE None
               IN  devices'[id].mac # None /\ devices'[id].identity # before
                       => devices'[id].identity = devices'[id].mac]_vars
  BY <1>1
<1> QED
  BY RegistryInvariance, <1>2, PTL DEF Spec, IdentityIsOwn

-----------------------------------------------------------------------------
(***************************************************************************)
(* The registry that scans share with the collection loop.                 *)
(***************************************************************************)
\* What upsert_many adds is not yet polled.
LEMMA MatchedAreDue ==
    ASSUME NEW r, DOMAIN r = DOMAIN Idle, NEW found, NEW last
    PROVE  LET m == Matched(r, found, last)
           IN  \A id \in DOMAIN m.work \ DOMAIN m.loaded : m.work[id].status = "UNKNOWN"
<1> DEFINE target == [a \in DOMAIN found |-> TargetOf(r.n, a, found[a])]
           old == Range(target) \cap DOMAIN devices
           work == [id \in Range(target) |->
                      IF id \in old THEN Assigned(devices[id], r.n, last[id], devices[id].mac)
                      ELSE NewRow(r.n, id[2], found[id[2]])]
           m == Matched(r, found, last)
<1>1. m.work = work /\ m.loaded = Restrict(devices, old)
  <2>1. DOMAIN r = {"pc", "n", "cidr", "found", "target", "loaded", "work"}
    BY DEF Idle
  <2> HIDE DEF target, work, old
  <2>2. m = [r EXCEPT !.pc = "flushing", !.found = found, !.target = target,
                      !.loaded = Restrict(devices, old), !.work = work]
    BY DEF Matched, target, work, old
  <2> QED
    BY <2>1, <2>2
<1>2. DOMAIN m.work = Range(target) /\ DOMAIN m.loaded = old
  BY <1>1 DEF Restrict
<1>3. \A id \in Range(target) \ old : work[id].status = "UNKNOWN"
  BY DEF NewRow
<1> HIDE DEF target, work, old, m
<1>4. \A id \in DOMAIN m.work \ DOMAIN m.loaded : m.work[id].status = "UNKNOWN"
  BY <1>1, <1>2, <1>3
<1> QED
  BY <1>4 DEF m

\* The rows a scan inserts stay so until it ends.
LEMMA NextDue == IInv /\ NewRowsAreDue /\ [Next]_vars => NewRowsAreDue'
<1> SUFFICES ASSUME IInv, NewRowsAreDue, [Next]_vars PROVE NewRowsAreDue'
  OBVIOUS
<1> DEFINE Due(r) == \A id \in DOMAIN r.work \ DOMAIN r.loaded : r.work[id].status = "UNKNOWN"
<1>1. /\ NewRowsAreDue <=> \A s \in Scans : Due(session[s])
      /\ NewRowsAreDue' <=> \A s \in Scans : Due(session'[s])
  BY DEF NewRowsAreDue, Inserted
<1>2. DOMAIN session = Scans /\ \A s \in Scans : DOMAIN session[s] = DOMAIN Idle
  BY DEF IInv, TypeOK, SessionOK
<1>3. DOMAIN Idle = {"pc", "n", "cidr", "found", "target", "loaded", "work"}
  BY DEF Idle
<1>4. Due(Idle)
  BY DEF Idle, NoAnswers
<1>5. ASSUME NEW s \in Scans, NEW r, session' = [session EXCEPT ![s] = r], Due(r)
      PROVE  NewRowsAreDue'
  BY <1>1, <1>2, <1>5
<1>6. CASE session' = session
  BY <1>1, <1>6
<1>7. ASSUME NEW s \in Scans, EndSession(s) PROVE NewRowsAreDue'
  BY <1>4, <1>5, <1>7 DEF EndSession
<1>8. ASSUME NEW s \in Scans, NEW given \in Cidrs \cup {None}, Begin(s, given)
      PROVE  NewRowsAreDue'
  <2>1. PICK cidr : session' = [session EXCEPT ![s] =
                                  [Idle EXCEPT !.pc = "asking", !.n = begun', !.cidr = cidr]]
    BY <1>8 DEF Begin
  <2>2. Due([Idle EXCEPT !.pc = "asking", !.n = begun', !.cidr = cidr])
    BY DEF Idle, NoAnswers
  <2> QED
    BY <1>5, <2>1, <2>2
<1>9. ASSUME NEW s \in Scans, BeginIdentify(s) PROVE NewRowsAreDue'
  <2> DEFINE r == [Idle EXCEPT !.pc = "probing", !.n = begun',
                               !.target = [id \in DOMAIN devices |-> id],
                               !.loaded = devices, !.work = devices]
  <2>1. session' = [session EXCEPT ![s] = r]
    BY <1>9 DEF BeginIdentify
  <2>2. r.work = devices /\ r.loaded = devices
    BY <1>3
  <2>3. Due(r)
    BY <2>2
  <2> HIDE DEF r
  <2> QED
    BY <1>5, <2>1, <2>3
<1>10. ASSUME NEW s \in Scans, NEW pc, session' = [session EXCEPT ![s].pc = pc]
       PROVE  NewRowsAreDue'
  <2>1. session' = [session EXCEPT ![s] = [session[s] EXCEPT !.pc = pc]]
    BY <1>10
  <2>2. /\ [session[s] EXCEPT !.pc = pc].work = session[s].work
        /\ [session[s] EXCEPT !.pc = pc].loaded = session[s].loaded
    BY <1>2, <1>3
  <2>3. Due([session[s] EXCEPT !.pc = pc])
    BY <1>1, <2>2
  <2> QED
    BY <1>5, <2>1, <2>3
<1>11. ASSUME NEW s \in Scans, NEW found, NEW last,
              session' = [session EXCEPT ![s] = Matched(session[s], found, last)]
       PROVE  NewRowsAreDue'
  <2>1. Due(Matched(session[s], found, last))
    BY <1>2, MatchedAreDue
  <2> QED
    BY <1>5, <1>11, <2>1
<1>12. ASSUME NEW s \in Scans, ArpAnswers(s) PROVE NewRowsAreDue'
  BY <1>10, <1>11, <1>12 DEF ArpAnswers
<1>13. ASSUME NEW s \in Scans, SweepAnswers(s) PROVE NewRowsAreDue'
  BY <1>11, <1>13 DEF SweepAnswers
<1>14. ASSUME NEW s \in Scans, SnmpAnswers(s) PROVE NewRowsAreDue'
  <2>1. PICK answered :
          session' = [session EXCEPT
                        ![s].pc = "committing",
                        ![s].work = [id \in DOMAIN session[s].work |->
                                       IF Identified(s, id, answered)
                                       THEN [session[s].work[id] EXCEPT
                                               !.identity = holder[session[s].work[id].ip]]
                                       ELSE session[s].work[id]]]
    BY <1>14 DEF SnmpAnswers
  <2> DEFINE w == [id \in DOMAIN session[s].work |->
                     IF Identified(s, id, answered)
                     THEN [session[s].work[id] EXCEPT
                             !.identity = holder[session[s].work[id].ip]]
                     ELSE session[s].work[id]]
             r == [session[s] EXCEPT !.pc = "committing", !.work = w]
  <2>2. DOMAIN w = DOMAIN session[s].work
        /\ \A id \in DOMAIN w : w[id].status = session[s].work[id].status
    <3>1. \A id \in DOMAIN session[s].work : session[s].work[id] \in Row
      BY DEF IInv, TypeOK, SessionOK, Partial
    <3> QED
      BY <3>1 DEF Row
  <2>3. session' = [session EXCEPT ![s].pc = "committing", ![s].work = w]
    BY <2>1
  <2> HIDE DEF w
  <2>4. session' = [session EXCEPT ![s] = r]
    BY <1>2, <1>3, <2>3
  <2>5. r.work = w /\ r.loaded = session[s].loaded
    BY <1>2, <1>3
  <2>6. Due(r)
    BY <1>1, <2>2, <2>5
  <2> HIDE DEF r
  <2> QED
    BY <1>5, <2>4, <2>6
<1>15. ASSUME NEW s \in Scans, Flush(s) PROVE NewRowsAreDue'
  BY <1>10, <1>15 DEF Flush
<1>16. ASSUME NEW s \in Scans, FlushFails(s) \/ Commit(s) \/ ScanFails(s) PROVE NewRowsAreDue'
  BY <1>7, <1>16 DEF FlushFails, Commit, ScanFails
<1> QED
  BY <1>6, <1>8, <1>9, <1>12, <1>13, <1>14, <1>15, <1>16 DEF Next, vars, Renew, Poll

\* A commit that keeps the registry's terms is a step of it.
LEMMA RegistryStep ==
    ASSUME DOMAIN devices' \subseteq DeviceIds, DOMAIN devices \subseteq DOMAIN devices',
           \/ /\ \A id \in DOMAIN devices :
                    /\ devices'[id].status = "POLLED" <=> devices[id].status = "POLLED"
                    /\ devices[id].identity # None => devices'[id].identity # None
              /\ \A id \in DOMAIN devices' \ DOMAIN devices : devices'[id].status # "POLLED"
           \/ /\ DOMAIN devices' = DOMAIN devices
              /\ \A id \in DOMAIN devices :
                    /\ devices[id].status = "POLLED" => devices'[id].status = "POLLED"
                    /\ devices'[id].identity = devices[id].identity
    PROVE  Registry!Next
<1>1. [id \in DOMAIN devices' |-> [polled     |-> devices'[id].status = "POLLED",
                                   identified |-> devices'[id].identity # None]]
        \in [DOMAIN devices' -> Registry!Row]
  BY DEF Registry!Row
<1>2. CASE /\ \A id \in DOMAIN devices :
                 /\ devices'[id].status = "POLLED" <=> devices[id].status = "POLLED"
                 /\ devices[id].identity # None => devices'[id].identity # None
           /\ \A id \in DOMAIN devices' \ DOMAIN devices : devices'[id].status # "POLLED"
  <2>1. Registry!ScanCommits
    BY <1>2 DEF Registry!ScanCommits, Registry!IsPolled, Registry!IsIdentified
  <2> QED
    BY <1>1, <2>1 DEF Registry!Next
<1>3. CASE /\ DOMAIN devices' = DOMAIN devices
           /\ \A id \in DOMAIN devices :
                 /\ devices[id].status = "POLLED" => devices'[id].status = "POLLED"
                 /\ devices'[id].identity = devices[id].identity
  <2>1. Registry!CycleCommits
    BY <1>3 DEF Registry!CycleCommits, Registry!IsPolled, Registry!IsIdentified
  <2> QED
    BY <1>1, <2>1 DEF Registry!Next
<1> QED
  BY <1>2, <1>3

\* Every step of Discovery is a step of the registry or leaves it alone.
LEMMA NextRegistry == IInv /\ NewRowsAreDue /\ [Next]_vars => [Registry!Next]_Registry!vars
<1> SUFFICES ASSUME IInv, NewRowsAreDue, [Next]_vars PROVE Registry!Next \/ UNCHANGED devices
  BY DEF Registry!vars
<1>1. /\ DOMAIN devices \subseteq DeviceIds /\ DOMAIN devices' \subseteq DeviceIds
      /\ \A id \in DOMAIN devices : devices[id] \in Row
  BY NextIInv DEF IInv, TypeOK, Partial
<1>2. CASE Poll
  <2>1. DOMAIN devices' = DOMAIN devices
        /\ \A id \in DOMAIN devices : /\ devices'[id].status = "POLLED"
                                      /\ devices'[id].identity = devices[id].identity
    BY <1>1, <1>2 DEF Poll, Row
  <2> QED
    BY <1>1, <2>1, RegistryStep
<1>3. ASSUME NEW s \in Scans, Commit(s) PROVE Registry!Next
  <2>1. DOMAIN devices' = DOMAIN devices \cup Inserted(s)
    BY <1>3, CommittedRows
  <2>2. \A id \in DOMAIN devices :
           /\ devices'[id].status = devices[id].status
           /\ devices[id].identity # None => devices'[id].identity # None
    <3>1. \A id \in DOMAIN devices : Updates(devices'[id], devices[id])
      BY <1>3, CommittedRows
    <3> QED
      BY <3>1 DEF Updates
  <2>3. \A id \in Inserted(s) : devices'[id].status = "UNKNOWN"
    <3>1. \A id \in Inserted(s) : devices'[id] = session[s].work[id]
      BY <1>3, CommittedRows
    <3> QED
      BY <3>1 DEF NewRowsAreDue
  <2> QED
    BY <1>1, <2>1, <2>2, <2>3, RegistryStep
<1> QED
  BY <1>2, <1>3 DEF Next, vars, Renew, Begin, BeginIdentify, ArpAnswers, SweepAnswers,
                    Flush, FlushFails, SnmpAnswers, ScanFails

\* Scans and the loop they run beside keep the registry they share: however
\* late a scan commits, it takes back no poll and unsets no identity, and no row
\* it adds is polled before its first cycle.
THEOREM KeepsRegistry == Spec => ImplementsRegistry
<1>1. Init => IInv /\ NewRowsAreDue /\ Registry!Init
  <2>1. ASSUME Init PROVE NewRowsAreDue
    BY <2>1 DEF Init, NewRowsAreDue, Inserted, Idle, NoAnswers
  <2>2. ASSUME Init PROVE Registry!Init
    BY <2>2 DEF Init, NoAnswers, Registry!Init
  <2> QED
    BY <2>1, <2>2, InitIInv
<1>2. IInv /\ NewRowsAreDue /\ [Next]_vars => IInv' /\ NewRowsAreDue'
  BY NextIInv, NextDue
<1>3. IInv /\ NewRowsAreDue /\ [Next]_vars => [Registry!Next]_Registry!vars
  BY NextRegistry
<1> QED
  BY <1>1, <1>2, <1>3, PTL DEF Spec, ImplementsRegistry, Registry!Spec
=============================================================================
