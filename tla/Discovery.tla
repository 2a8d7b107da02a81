----------------------------- MODULE Discovery -----------------------------
(***************************************************************************)
(* run_ip_and_snmp_scan (composer/registry_devices.py): a scan asks the    *)
(* addresses of a subnet by ARP, or by ping when no ARP answer comes back, *)
(* saves a subnet row and the devices found (upsert_many), probes them by  *)
(* SNMP and saves the identity of those that answer, all in one session.   *)
(* With ipscan=False it probes the devices already known instead.          *)
(*                                                                         *)
(* Scans are processes of their own or requests of the API: several may    *)
(* run at once, each between the awaits of the others.  What a session has *)
(* read, assigned or inserted is its record in session; only its commit    *)
(* makes it visible (READ COMMITTED).  Which host holds an address is the  *)
(* network's affair and changes between scans (DHCP).                      *)
(***************************************************************************)
EXTENDS Integers, Functions

CONSTANTS
    Addresses,     \* IP addresses
    Macs,          \* hosts, each known by the MAC of its network card
    Cidrs,         \* subnets that may be asked for
    Hosts,         \* the addresses of each subnet that a host may hold
    Size,          \* num_addresses of each subnet
    LocalSubnet,   \* what detect_local_subnet answers
    Local24,       \* the /24 around the local address
    MaxScanHosts,  \* MAX_SCAN_HOSTS
    Scans,         \* callers of run_ip_and_snmp_scan, one session at a time each
    None,          \* Python's None, SQL's NULL
    MaxScans       \* bound: scans begun

ASSUME DiscoveryAssumption ==
    /\ Hosts \in [Cidrs -> SUBSET Addresses]
    /\ Size \in [Cidrs -> Nat]
    /\ LocalSubnet \in Cidrs
    /\ Local24 \in Cidrs
    /\ MaxScanHosts \in Nat
    /\ Size[Local24] <= MaxScanHosts
    /\ None \notin Macs \cup Cidrs
    /\ MaxScans \in Nat

VARIABLES
    holder,    \* which host holds each address, as the network has it
    devices,   \* the committed rows of devices, by id
    subnets,   \* the committed rows of subnets: the cidr of each
    session,   \* the session of each scan
    begun      \* scans begun so far

vars == <<holder, devices, subnets, session, begun>>

(***************************************************************************)
(* Identifiers are the database's sequences up to renaming: the subnet row *)
(* of the n-th scan begun is n, and a device that scan inserts is known by *)
(* n and the address it was found at.                                      *)
(***************************************************************************)
SubnetIds == 1 .. MaxScans
DeviceIds == SubnetIds \X Addresses

\* status stands for all columns the collection loop writes, identity for all
\* that update_snmp_info writes: the host that answered.
Row == [ip : Addresses, mac : Macs \cup {None}, subnet : SubnetIds,
        identity : Macs \cup {None}, status : {"UNKNOWN", "POLLED"}]

\* What a session holds: where it is suspended, the answers to its ARP or its
\* pings, the id of the device of each answer, rows as read (none for those
\* it inserts) and rows as assigned.
NoAnswers == [a \in {} |-> None]

Idle == [pc |-> "idle", n |-> 0, cidr |-> None, found |-> NoAnswers, target |-> NoAnswers,
         loaded |-> NoAnswers, work |-> NoAnswers]

Init ==
    /\ holder \in [Addresses -> Macs \cup {None}]
    /\ devices = NoAnswers
    /\ subnets = NoAnswers
    /\ session = [s \in Scans |-> Idle]
    /\ begun = 0

-----------------------------------------------------------------------------
(***************************************************************************)
(* The network, and the collection loop.                                   *)
(***************************************************************************)
AllIdle == \A s \in Scans : session[s].pc = "idle"

\* An address changes hands, or is given up, between scans: a scan takes
\* seconds, a lease hours.
Renew(a) ==
    /\ AllIdle
    /\ \E host \in Macs \cup {None} : holder' = [holder EXCEPT ![a] = host]
    /\ UNCHANGED <<devices, subnets, session, begun>>

\* Ids of the rows a session has written and holds locked until it ends.
Written(s) ==
    {id \in DOMAIN session[s].work :
        id \in DOMAIN session[s].loaded => session[s].work[id] # session[s].loaded[id]}

HasFlushed(s) == session[s].cidr # None /\ session[s].pc \in {"probing", "committing"}

\* A collection cycle commits its polls: a new device is due at once.  The rows
\* a scan has flushed make the cycle wait.
Poll ==
    /\ \A s \in Scans : HasFlushed(s) => Written(s) \cap DOMAIN devices = {}
    /\ devices' = [id \in DOMAIN devices |-> [devices[id] EXCEPT !.status = "POLLED"]]
    /\ UNCHANGED <<holder, subnets, session, begun>>

\* Mutant: the session survives its end.
EndSession_keeps_rows(s) == session' = [session EXCEPT ![s].pc = "idle"]

EndSession(s) == session' = [session EXCEPT ![s] = Idle]

-----------------------------------------------------------------------------
(***************************************************************************)
(* services/ip_scan_service.py                                             *)
(***************************************************************************)
Scannable(cidr) == Size[cidr] <= MaxScanHosts

detect_scannable_subnet == IF Scannable(LocalSubnet) THEN LocalSubnet ELSE Local24

\* The subnet given, or with none the one detected.  SubnetTooLargeError ends
\* the request before anything is written.
Begin(s, given) ==
    LET cidr == IF given = None THEN detect_scannable_subnet ELSE given
    IN  /\ session[s].pc = "idle"
        /\ begun < MaxScans
        /\ Scannable(cidr)
        /\ begun' = begun + 1
        /\ session' = [session EXCEPT ![s] =
                         [Idle EXCEPT !.pc = "asking", !.n = begun', !.cidr = cidr]]
        /\ UNCHANGED <<holder, devices, subnets>>

\* ipscan=False: the targets are all devices, as the database has them now.
BeginIdentify(s) ==
    /\ session[s].pc = "idle"
    /\ begun < MaxScans
    /\ begun' = begun + 1
    /\ session' = [session EXCEPT ![s] =
                     [Idle EXCEPT !.pc = "probing", !.n = begun',
                                  !.target = [id \in DOMAIN devices |-> id],
                                  !.loaded = devices, !.work = devices]]
    /\ UNCHANGED <<holder, devices, subnets>>

-----------------------------------------------------------------------------
(***************************************************************************)
(* DeviceRepository.upsert_many.                                           *)
(***************************************************************************)
\* The rows a query by MAC, or by address within the subnet, finds.  The
\* session does not see rows it has added and not flushed (autoflush=False).
Known(n, a, mac) ==
    {id \in DOMAIN devices :
        IF mac # None THEN devices[id].mac = mac
        ELSE /\ devices[id].mac = None
             /\ devices[id].ip = a
             /\ devices[id].subnet = n}

\* Mutant: devices are recognised by their address.
TargetOf_by_ip(n, a, mac) ==
    LET known == {id \in DOMAIN devices : devices[id].ip = a}
    IN  IF known = {} THEN <<n, a>> ELSE CHOOSE id \in known : TRUE

TargetOf(n, a, mac) ==
    IF Known(n, a, mac) = {} THEN <<n, a>> ELSE CHOOSE id \in Known(n, a, mac) : TRUE

NewRow(n, a, mac) ==
    [ip |-> a, mac |-> mac, subnet |-> n, identity |-> None, status |-> "UNKNOWN"]

\* Mutants: a row found again keeps its address; its subnet; nothing.
Assigned_ip_kept(row, n, a, mac) == [row EXCEPT !.subnet = n]

Assigned_subnet_kept(row, n, a, mac) == [row EXCEPT !.ip = a]

Assigned_afresh(row, n, a, mac) == NewRow(n, a, mac)

Assigned(row, n, a, mac) == [row EXCEPT !.ip = a, !.subnet = n]

\* The session after upsert_many.  A host that answered for two addresses is
\* assigned both, in the order of its answers: last is the one it keeps.
Matched(r, found, last) ==
    LET target == [a \in DOMAIN found |-> TargetOf(r.n, a, found[a])]
        old    == Range(target) \cap DOMAIN devices
    IN  [r EXCEPT !.pc = "flushing",
                  !.found = found,
                  !.target = target,
                  !.loaded = Restrict(devices, old),
                  !.work = [id \in Range(target) |->
                              IF id \in old
                              THEN Assigned(devices[id], r.n, last[id], devices[id].mac)
                              ELSE NewRow(r.n, id[2], found[id[2]])]]

\* One of the addresses at which each target was found.
LastAddresses(r, found) ==
    LET target(a) == TargetOf(r.n, a, found[a])
    IN  {f \in [{target(a) : a \in DOMAIN found} -> DOMAIN found] :
            \A id \in DOMAIN f : target(f[id]) = id}

Answering(cidr) == {a \in Hosts[cidr] : holder[a] # None}

\* The ARP answers that are not lost.  With none, the subnet is pinged.
ArpAnswers(s) ==
    /\ session[s].pc = "asking"
    /\ \E heard \in SUBSET Answering(session[s].cidr) :
          LET found == [a \in heard |-> holder[a]]
          IN  IF heard = {}
              THEN session' = [session EXCEPT ![s].pc = "sweeping"]
              ELSE \E last \in LastAddresses(session[s], found) :
                      session' = [session EXCEPT ![s] = Matched(session[s], found, last)]
    /\ UNCHANGED <<holder, devices, subnets, begun>>

\* services/ping_sweep_service.py: a ping tells no MAC.
SweepAnswers(s) ==
    /\ session[s].pc = "sweeping"
    /\ \E heard \in SUBSET Answering(session[s].cidr) :
          LET found == [a \in heard |-> None]
          IN  \E last \in LastAddresses(session[s], found) :
                 session' = [session EXCEPT ![s] = Matched(session[s], found, last)]
    /\ UNCHANGED <<holder, devices, subnets, begun>>

-----------------------------------------------------------------------------
(***************************************************************************)
(* The flush of upsert_many.  A row or a MAC that another open transaction *)
(* has written makes it wait; the unique constraint on the MAC refuses it. *)
(***************************************************************************)
Inserted(s) == DOMAIN session[s].work \ DOMAIN session[s].loaded

NewMacs(s) == {session[s].work[id].mac : id \in Inserted(s)} \ {None}

Waits(s) ==
    \E t \in Scans \ {s} :
        /\ HasFlushed(t)
        /\ Written(s) \cap Written(t) # {} \/ NewMacs(s) \cap NewMacs(t) # {}

\* Mutant: the column is not unique.
Duplicate_allowed(s) == FALSE

Duplicate(s) ==
    \E id \in Inserted(s) :
        /\ session[s].work[id].mac # None
        /\ \/ \E other \in DOMAIN devices : devices[other].mac = session[s].work[id].mac
           \/ \E other \in Inserted(s) \ {id} :
                 session[s].work[other].mac = session[s].work[id].mac

Flush(s) ==
    /\ session[s].pc = "flushing"
    /\ ~Waits(s)
    /\ ~Duplicate(s)
    /\ session' = [session EXCEPT ![s].pc = "probing"]
    /\ UNCHANGED <<holder, devices, subnets, begun>>

\* IntegrityError: the session is rolled back and the scan ends.
FlushFails(s) ==
    /\ session[s].pc = "flushing"
    /\ ~Waits(s)
    /\ Duplicate(s)
    /\ EndSession(s)
    /\ UNCHANGED <<holder, devices, subnets, begun>>

-----------------------------------------------------------------------------
(***************************************************************************)
(* SnmpScanService and update_snmp_info.                                   *)
(***************************************************************************)
\* Results are kept by address.
Identified(s, id, answered) == session[s].work[id].ip \in answered

\* Any of the hosts probed answer; the identity is that of the host which
\* holds the address.
SnmpAnswers(s) ==
    /\ session[s].pc = "probing"
    /\ \E answered \in SUBSET {a \in {session[s].work[id].ip : id \in Range(session[s].target)} :
                                  holder[a] # None} :
          session' = [session EXCEPT
                        ![s].pc = "committing",
                        ![s].work = [id \in DOMAIN session[s].work |->
                                       IF Identified(s, id, answered)
                                       THEN [session[s].work[id] EXCEPT
                                               !.identity = holder[session[s].work[id].ip]]
                                       ELSE session[s].work[id]]]
    /\ UNCHANGED <<holder, devices, subnets, begun>>

\* Mutant: every column of the row is written, as it was read.
WrittenRow_whole(s, id) == session[s].work[id]

\* An UPDATE names the columns whose value differs from the one read; the
\* others stay as committed.
WrittenRow(s, id) ==
    LET new == session[s].work[id]
    IN  IF id \in Inserted(s) THEN new
        ELSE [c \in DOMAIN new |->
                IF new[c] = session[s].loaded[id][c] THEN devices[id][c] ELSE new[c]]

Commit(s) ==
    /\ session[s].pc = "committing"
    /\ ~Waits(s)
    /\ devices' = [id \in DOMAIN session[s].work \cup DOMAIN devices |->
                     IF id \in DOMAIN session[s].work THEN WrittenRow(s, id) ELSE devices[id]]
    /\ subnets' = IF session[s].cidr = None THEN subnets
                  ELSE [n \in DOMAIN subnets \cup {session[s].n} |->
                          IF n = session[s].n THEN session[s].cidr ELSE subnets[n]]
    /\ EndSession(s)
    /\ UNCHANGED <<holder, begun>>

\* An exception from outside, a deadlock, or the process stops: rollback.
ScanFails(s) ==
    /\ session[s].pc # "idle"
    /\ EndSession(s)
    /\ UNCHANGED <<holder, devices, subnets, begun>>

Next ==
    \/ \E a \in Addresses : Renew(a)
    \/ Poll
    \/ \E s \in Scans :
        \/ \E given \in Cidrs \cup {None} : Begin(s, given)
        \/ BeginIdentify(s)
        \/ ArpAnswers(s)
        \/ SweepAnswers(s)
        \/ Flush(s)
        \/ FlushFails(s)
        \/ SnmpAnswers(s)
        \/ Commit(s)
        \/ ScanFails(s)

Spec == Init /\ [][Next]_vars

-----------------------------------------------------------------------------
\* f is a function from a part of S to T.
Partial(f, S, T) == DOMAIN f \subseteq S /\ f \in [DOMAIN f -> T]

SessionOK(r) ==
    /\ DOMAIN r = DOMAIN Idle
    /\ r.pc \in {"idle", "asking", "sweeping", "flushing", "probing", "committing"}
    /\ r.n \in 0 .. begun
    /\ r.pc = "idle" <=> r.n = 0
    /\ r.cidr \in Cidrs \cup {None}
    /\ Partial(r.found, Addresses, Macs \cup {None})
    /\ DOMAIN r.work = Range(r.target)
    /\ DOMAIN r.loaded \subseteq DOMAIN r.work \cap DOMAIN devices
    /\ Partial(r.work, DeviceIds, Row)

\* Every variable keeps to its domain; an idle scan has no session, and the rows
\* a session writes are those of its targets.
TypeOK ==
    /\ holder \in [Addresses -> Macs \cup {None}]
    /\ Partial(devices, DeviceIds, Row)
    /\ Partial(subnets, SubnetIds, Cidrs)
    /\ DOMAIN session = Scans
    /\ \A s \in Scans : SessionOK(session[s])
    /\ begun \in 0 .. MaxScans

(***************************************************************************)
(* Invariants on which the proofs rest.                                    *)
(***************************************************************************)
\* The rows a scan inserts have ids of their own.
IdsAreFresh ==
    /\ \A id \in DOMAIN devices : id[1] <= begun
    /\ \A s \in Scans : \A id \in Inserted(s) : id[1] = session[s].n
    /\ \A s \in Scans : session[s].pc # "idle" =>
          /\ \A id \in DOMAIN devices : id[1] # session[s].n
          /\ \A t \in Scans \ {s} : session[t].n # session[s].n

\* A session assigns no MAC and no polling state to a row it has read, and
\* unsets no identity.
Updates(new, old) ==
    /\ new.mac = old.mac
    /\ new.status = old.status
    /\ new.identity # old.identity => new.identity # None

SessionsOnlyAdd ==
    \A s \in Scans : \A id \in DOMAIN session[s].loaded :
        /\ Updates(session[s].work[id], session[s].loaded[id])
        /\ session[s].loaded[id].mac = devices[id].mac

\* A host has one row, whoever found it.
OneRowPerMac ==
    \A i, j \in DOMAIN devices : devices[i].mac = devices[j].mac /\ devices[i].mac # None => i = j

\* No row that a flushed session will insert has the MAC of a committed row or
\* of one that another flushed session will insert.
FlushedMacsAreNew ==
    \A s \in Scans :
        /\ session[s].pc \in {"asking", "sweeping", "flushing"} => session[s].cidr # None
        /\ session[s].pc \in {"probing", "committing"} =>
              /\ ~Duplicate(s)
              /\ session[s].cidr = None => Inserted(s) = {}
              /\ \A t \in Scans \ {s} :
                    session[t].pc \in {"probing", "committing"} => NewMacs(s) \cap NewMacs(t) = {}

\* The rows a session inserts have not been polled: it holds them until it ends.
NewRowsAreDue == \A s \in Scans : \A id \in Inserted(s) : session[s].work[id].status = "UNKNOWN"

IInv == TypeOK /\ IdsAreFresh /\ SessionsOnlyAdd /\ OneRowPerMac /\ FlushedMacsAreNew

\* The rows of a subnet are one execution's view of the network: no address
\* twice, although rows found again later move on to other subnets.
AddressesAreUnique ==
    \A i, j \in DOMAIN devices :
        i # j /\ devices[i].subnet = devices[j].subnet => devices[i].ip # devices[j].ip

(***************************************************************************)
(* What the proofs about addresses and identities add to the above.        *)
(***************************************************************************)
\* A scan under way has committed nothing yet under its number.
NumbersAreOwn ==
    /\ \A n \in DOMAIN subnets : n <= begun
    /\ \A id \in DOMAIN devices : devices[id].subnet <= begun
    /\ \A s \in Scans : session[s].pc # "idle" =>
          /\ session[s].n \notin DOMAIN subnets
          /\ \A id \in DOMAIN devices : devices[id].subnet # session[s].n

\* The answers of a scan are of one kind: MACs of the hosts at the addresses,
\* or none at all.
ByPing(r) == \A a \in DOMAIN r.found : r.found[a] = None

ByArp(r) == \A a \in DOMAIN r.found : r.found[a] # None /\ r.found[a] = holder[a]

\* What a session knows after upsert_many: the row of each answer has its MAC,
\* each row is put at one of the addresses that were matched with it, and only
\* an answer changes the identity.  Another scan may have moved a row since it
\* was read, but only to where its host is now.
Matching(r) ==
    /\ DOMAIN r.target = DOMAIN r.found
    /\ ByPing(r) \/ ByArp(r)
    /\ \A a \in DOMAIN r.found :
          /\ r.work[r.target[a]].mac = r.found[a]
          /\ IF r.target[a] \in DOMAIN r.loaded THEN r.found[a] # None ELSE r.target[a] = <<r.n, a>>
    /\ \A id \in DOMAIN r.work :
          /\ r.work[id].subnet = r.n
          /\ \E a \in DOMAIN r.found : r.target[a] = id /\ r.work[id].ip = a
          /\ \/ r.work[id].identity = IF id \in DOMAIN r.loaded THEN r.loaded[id].identity ELSE None
             \/ r.work[id].identity = holder[r.work[id].ip]
    /\ \A id \in DOMAIN r.loaded :
          /\ r.loaded[id].subnet # r.n
          /\ devices[id].ip = r.loaded[id].ip \/ holder[devices[id].ip] = devices[id].mac

\* With ipscan=False nothing is found, and no row moves.
Identifying(r) ==
    /\ DOMAIN r.work = DOMAIN r.loaded
    /\ \A id \in DOMAIN r.loaded :
          r.work[id].ip = r.loaded[id].ip /\ r.work[id].subnet = r.loaded[id].subnet

SessionsAreMatched ==
    \A s \in Scans : session[s].pc \in {"flushing", "probing", "committing"} =>
        IF session[s].cidr = None THEN Identifying(session[s]) ELSE Matching(session[s])

RegistryInv == IInv /\ NumbersAreOwn /\ SessionsAreMatched /\ AddressesAreUnique

\* A scan never takes anything from the registry: rows, MACs, polling state and
\* identities stay, whatever scans run, wait or fail meanwhile ("preserva
\* status/backoff/identidade SNMP").
KeptIn(row, row2) ==
    /\ row2.mac = row.mac
    /\ row.status = "POLLED" => row2.status = "POLLED"
    /\ row.identity # None => row2.identity # None

RegistryGrows ==
    [][\A id \in DOMAIN devices : id \in DOMAIN devices' /\ KeptIn(devices[id], devices'[id])]_vars

\* The scans whose commit is this step.
Commits(s) ==
    /\ session[s].pc = "committing"
    /\ session'[s].pc = "idle"
    /\ session[s].n \in DOMAIN subnets'

\* A scan that commits has registered all it found: each MAC has exactly one
\* row, the one it had before if it had one, whoever inserted it since the scan
\* began; each pinged address has a row; and all are rows of its subnet, at the
\* address pinged or at one that the host holds (a host may hold several).
RegisteredMac(s, mac) ==
    \E id \in DOMAIN devices' :
        /\ {i \in DOMAIN devices' : devices'[i].mac = mac} = {id}
        /\ {i \in DOMAIN devices : devices[i].mac = mac} \subseteq {id}
        /\ devices'[id].subnet = session[s].n
        /\ holder[devices'[id].ip] = mac

RegisteredAddress(s, a) ==
    \E id \in DOMAIN devices' :
        devices'[id].mac = None /\ devices'[id].ip = a /\ devices'[id].subnet = session[s].n

CommitRegistersAll ==
    [][\A s \in Scans : Commits(s) =>
           \A a \in DOMAIN session[s].found :
               IF session[s].found[a] = None THEN RegisteredAddress(s, a)
               ELSE RegisteredMac(s, session[s].found[a])]_vars

\* The identity that a scan by ARP writes to a row is that of the host with the
\* row's MAC, although answers are looked up by address and addresses have
\* changed hands since earlier scans.
IdentityIsOwn ==
    [][\A s \in Scans : Commits(s) =>
           \A id \in DOMAIN session[s].work :
               LET old == IF id \in DOMAIN devices THEN devices[id].identity ELSE None
               IN  devices'[id].mac # None /\ devices'[id].identity # old
                       => devices'[id].identity = devices'[id].mac]_vars

\* The committed rows of devices are a registry, as Polling knows it: a scan takes
\* back no poll that was committed since it read a row, and polls nothing itself.
Registry == INSTANCE DeviceRegistry WITH
                Ids <- DeviceIds,
                rows <- [id \in DOMAIN devices |-> [polled     |-> devices[id].status = "POLLED",
                                                    identified |-> devices[id].identity # None]]

ImplementsRegistry == Registry!Spec

\* "sem MAC ... o dedup cai pro IP dentro da mesma subnet": no two devices
\* without MAC have the same address in the same subnet.
SweptOnce ==
    \A i, j \in DOMAIN devices :
        /\ i # j
        /\ devices[i].mac = None
        /\ devices[j].mac = None
        /\ subnets[devices[i].subnet] = subnets[devices[j].subnet]
        => devices[i].ip # devices[j].ip
=============================================================================
