--------------------------- MODULE DeviceRegistry ---------------------------
(***************************************************************************)
(* What the table of devices promises to the sessions that share it        *)
(* (repositories/device_repository.py): a scan adds rows, not yet polled,  *)
(* and identities; a collection cycle polls rows; neither takes back what  *)
(* the other has committed.  Polling implements this specification, with   *)
(* scans of which it knows the commits only; so does Discovery, with       *)
(* cycles of which it knows the commits only.                              *)
(***************************************************************************)
CONSTANT Ids

VARIABLE rows  \* for each device registered, whether it is polled, identified

vars == rows

Row == [polled : BOOLEAN, identified : BOOLEAN]

Init == rows = [id \in {} |-> {}]

IsPolled(id) == id \in DOMAIN rows /\ rows[id].polled

IsIdentified(id) == id \in DOMAIN rows /\ rows[id].identified

\* upsert_many and update_snmp_info: no row becomes polled or ceases to be.
ScanCommits ==
    /\ DOMAIN rows \subseteq DOMAIN rows'
    /\ \A id \in DOMAIN rows' :
          /\ rows'[id].polled = IsPolled(id)
          /\ IsIdentified(id) => rows'[id].identified

\* record_poll_result: no row appears, and no identity.
CycleCommits ==
    /\ DOMAIN rows' = DOMAIN rows
    /\ \A id \in DOMAIN rows :
          /\ IsPolled(id) => rows'[id].polled
          /\ rows'[id].identified = IsIdentified(id)

Next ==
    /\ DOMAIN rows' \subseteq Ids
    /\ rows' \in [DOMAIN rows' -> Row]
    /\ ScanCommits \/ CycleCommits

Spec == Init /\ [][Next]_vars
=============================================================================
