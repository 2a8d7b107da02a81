------------------------------ MODULE Probing ------------------------------
(***************************************************************************)
(* What one collection cycle asks of one device by SNMP, and the readings  *)
(* it makes of the answers: a GET of the catalogue of metrics              *)
(* (metrics_collection_service.py), then concurrent walks of the columns   *)
(* of the device's tables (host_resources_metrics_service.py,              *)
(* printer_metrics_service.py, snmp/snmp_walk.py), which are joined by the *)
(* index of the row.  Answers may be lost, rows of the tables come and go  *)
(* while they are walked, and an agent that starts anew numbers its rows   *)
(* anew.                                                                   *)
(*                                                                         *)
(* The device implements one table: the walks of the others end with their *)
(* first answer and give nothing.  A value tells only the row it is of;    *)
(* what float() makes of it is in Polling.                                 *)
(***************************************************************************)
EXTENDS Integers, FiniteSets, Sequences, FiniteSetsExt, Functions

CONSTANTS
    Catalogue,         \* METRIC_CATALOG
    Things,            \* processors, disks, interfaces, supplies
    Slug,              \* slugify of the label of each, NoLabel if it has none
    NoLabel,
    Indices,           \* numbers an agent gives to rows
    InterfaceColumns   \* the columns of an interface besides its description

ASSUME ProbingAssumption ==
    /\ Things \subseteq DOMAIN Slug
    /\ Indices \subseteq Nat \ {0}
    /\ Cardinality(Things) <= Cardinality(Indices)
    /\ "dynamic" \notin Catalogue

VARIABLES
    table,        \* the table the agent implements
    model_name,   \* whether a scan has identified the device as a printer
    numbering,    \* the index the agent gives to each thing
    present,      \* the things that have a row now
    definitions,  \* committed rows of metric_definitions
    pc,           \* where the cycle is suspended
    asked,        \* the definitions the GET asks for
    walk,         \* for each column, what its walk has and whether it has ended
    disturbed,    \* whether the walks met a lost answer or a change of the table
    readings      \* the readings of the open session

agent == <<table, model_name, numbering, present>>
cycle == <<pc, asked, walk, disturbed, readings>>
vars == <<agent, definitions, cycle>>

\* Stands for all definitions with oid "dynamic", found by walking: nothing
\* here depends on which they are.
Dynamic == "dynamic"

-----------------------------------------------------------------------------
(***************************************************************************)
(* snmp/oids.py: the tables and their columns.                             *)
(***************************************************************************)
HostTables == {"hrProcessor", "hrStorage", "ifTable"}
PrinterTables == {"hrPrinter", "prtMarkerSupplies"}

Columns(t) ==
    CASE t = "hrProcessor"       -> {"load"}
      [] t = "hrStorage"         -> {"descr", "units", "size", "used"}
      [] t = "ifTable"           -> {"descr"} \cup InterfaceColumns
      [] t = "hrPrinter"         -> {"error_state", "life_count"}
      [] t = "prtMarkerSupplies" -> {"description", "level"}

\* Printer tables are walked on devices with a model_name only.
Walked == IF table \in PrinterTables /\ ~model_name THEN {} ELSE Columns(table)

\* A value of a column: the row it was read from.
Cell(thing) == [thing |-> thing, index |-> numbering[thing]]

(***************************************************************************)
(* services/dynamic_metric_reading.py, and the two services: values maps   *)
(* the indices a walk returned to their values.                            *)
(***************************************************************************)
Reading(key, cells) == [key |-> key, cells |-> cells]

\* Mutant: the key has no suffix, however many the entries.
keyed_readings_clean(values, base) == {Reading(<<base>>, {values[i]}) : i \in DOMAIN values}

\* One entry has the clean key; of several, each has its index for suffix.
keyed_readings(values, base) ==
    {Reading(IF Cardinality(DOMAIN values) = 1 THEN <<base>> ELSE <<base, i>>, {values[i]}) :
        i \in DOMAIN values}

\* The label of a row, or else its index.
Label(descr, i) ==
    IF i \in DOMAIN descr /\ Slug[descr[i].thing] # NoLabel THEN Slug[descr[i].thing] ELSE i

\* One reading of the row i from several columns, if the walks of all have it.
Joined(base, label, metric, columns, i) ==
    IF \A values \in columns : i \in DOMAIN values
    THEN {Reading(<<base, label, metric>>, {values[i] : values \in columns})}
    ELSE {}

ProcessorReadings(w) == keyed_readings(w["load"], "hr_cpu_load")

\* A disk needs its size and its unit, the size not zero; what is used may be missing.
StorageRow(w, i) ==
    LET Bytes(metric, columns) ==
            Joined("storage", Label(w["descr"], i), metric, {w["size"], w["units"]} \cup columns, i)
    IN  Bytes("total_bytes", {}) \cup Bytes("used_bytes", {w["used"]})
            \cup Bytes("used_percent", {w["used"]})

StorageReadings(w) == UNION {StorageRow(w, i) : i \in DOMAIN w["size"]}

\* An interface is known by its description; each other column may be missing.
InterfaceRow(w, i) ==
    UNION {Joined("if", Label(w["descr"], i), c, {w[c]}, i) : c \in InterfaceColumns}

InterfaceReadings(w) == UNION {InterfaceRow(w, i) : i \in DOMAIN w["descr"]}

PrinterReadings(w) ==
    keyed_readings(w["error_state"], "printer_error_state")
        \cup keyed_readings(w["life_count"], "printer_page_count")

SupplyRow(w, i) == Joined("printer_supply", Label(w["description"], i), "level", {w["level"]}, i)

SupplyReadings(w) == UNION {SupplyRow(w, i) : i \in DOMAIN w["level"]}

ReadingsOf(w) ==
    CASE table = "hrProcessor" -> ProcessorReadings(w)
      [] table = "hrStorage" -> StorageReadings(w)
      [] table = "ifTable" -> InterfaceReadings(w)
      [] table = "hrPrinter" -> PrinterReadings(w)
      [] table = "prtMarkerSupplies" -> SupplyReadings(w)

-----------------------------------------------------------------------------
NoWalk == [c \in {} |-> {}]

Init ==
    /\ table \in HostTables \cup PrinterTables
    /\ model_name \in BOOLEAN
    /\ numbering \in Injection(Things, Indices)
    /\ present \in SUBSET Things
    /\ definitions = {}
    /\ pc = "down"
    /\ asked = {}
    /\ walk = NoWalk
    /\ disturbed = FALSE
    /\ readings = {}

(***************************************************************************)
(* The agent.                                                              *)
(***************************************************************************)
\* A row appears or vanishes, at any time; its index is not given to another
\* while the agent runs.
RowChanges(thing) ==
    /\ present' = IF thing \in present THEN present \ {thing} ELSE present \cup {thing}
    /\ disturbed' = (disturbed \/ pc \in {"walking", "committing"})
    /\ UNCHANGED <<table, model_name, numbering, definitions, pc, asked, walk, readings>>

\* The agent starts anew, between the walks of two cycles.
Renumber ==
    /\ pc \notin {"walking", "committing"}
    /\ numbering' \in Injection(Things, Indices)
    /\ UNCHANGED <<table, model_name, present, definitions, cycle>>

-----------------------------------------------------------------------------
(***************************************************************************)
(* The process: seed_metric_catalog at startup, then cycles.               *)
(***************************************************************************)
\* upsert_catalog adds the keys that are missing.
Boot ==
    /\ pc = "down"
    /\ pc' = "sleeping"
    /\ definitions' = definitions \cup Catalogue
    /\ UNCHANGED <<agent, asked, walk, disturbed, readings>>

\* Mutant: the definitions found by walking are asked for, too.
list_all == definitions

list_static == definitions \ {Dynamic}

\* The device is due, answers the ping, and is asked for the catalogue.
BeginCycle ==
    /\ pc = "sleeping"
    /\ pc' = "getting"
    /\ asked' = list_static
    /\ UNCHANGED <<agent, definitions, walk, disturbed, readings>>

\* Readings of the metrics the device supports, of none if the answer is lost.
\* The walks begin.
GetReturns ==
    /\ pc = "getting"
    /\ \E supported \in SUBSET asked :
          readings' = {Reading(<<metric>>, {}) : metric \in supported}
    /\ walk' = [c \in Walked |-> [values |-> NoWalk, ended |-> FALSE]]
    /\ disturbed' = FALSE
    /\ pc' = "walking"
    /\ UNCHANGED <<agent, definitions, asked>>

\* Mutant: the walk goes on from the column, not from the last answer.
Last_column(values) == 0

\* The index of the last answer, from which GETNEXT goes on.
Last(values) ==
    IF values = NoWalk THEN 0 ELSE Max({values[i].index : i \in DOMAIN values})

\* Mutant: values are numbered in the order of the answers.
Recorded_in_order(values, cell) ==
    LET last == Cardinality(DOMAIN values) + 1
    IN  [i \in DOMAIN values \cup {last} |-> IF i = last THEN cell ELSE values[i]]

\* A value is recorded under the index the agent gave.
Recorded(values, cell) ==
    [i \in DOMAIN values \cup {cell.index} |-> IF i = cell.index THEN cell ELSE values[i]]

\* GETNEXT answers the next row of the column, or leaves the column.
Answer(c) ==
    LET values == walk[c].values
        later  == {thing \in present : numbering[thing] > Last(values)}
    IN  /\ pc = "walking"
        /\ c \in DOMAIN walk
        /\ ~walk[c].ended
        /\ IF later = {}
           THEN walk' = [walk EXCEPT ![c].ended = TRUE]
           ELSE \E thing \in later :
                   /\ \A other \in later : numbering[thing] <= numbering[other]
                   /\ walk' = [walk EXCEPT ![c].values = Recorded(values, Cell(thing))]
        /\ UNCHANGED <<agent, definitions, pc, asked, disturbed, readings>>

\* No answer, after the retries: the walk returns what it has so far.
LoseAnswer(c) ==
    /\ pc = "walking"
    /\ c \in DOMAIN walk
    /\ ~walk[c].ended
    /\ walk' = [walk EXCEPT ![c].ended = TRUE]
    /\ disturbed' = TRUE
    /\ UNCHANGED <<agent, definitions, pc, asked, readings>>

\* All walks have returned: readings are made and their definitions created,
\* all flushed by the open session.
WalksReturn ==
    /\ pc = "walking"
    /\ \A c \in DOMAIN walk : walk[c].ended
    /\ readings' = IF Walked = {} THEN readings
                   ELSE readings \cup ReadingsOf([c \in DOMAIN walk |-> walk[c].values])
    /\ walk' = NoWalk
    /\ pc' = "committing"
    /\ UNCHANGED <<agent, definitions, asked, disturbed>>

\* Mutant: the next cycle goes on with the readings of this one.
EndCycle_keeps_readings ==
    /\ asked' = {}
    /\ walk' = NoWalk
    /\ disturbed' = FALSE
    /\ UNCHANGED readings

EndCycle ==
    /\ asked' = {}
    /\ walk' = NoWalk
    /\ disturbed' = FALSE
    /\ readings' = {}

\* get_or_create: a key found for the first time has become a definition.
Commit ==
    /\ pc = "committing"
    /\ definitions' =
          IF \E r \in readings : r.cells # {} THEN definitions \cup {Dynamic} ELSE definitions
    /\ pc' = "sleeping"
    /\ EndCycle
    /\ UNCHANGED agent

\* The session is rolled back, by an exception or with the process.
CycleFails ==
    /\ pc \in {"getting", "walking", "committing"}
    /\ pc' = "sleeping"
    /\ EndCycle
    /\ UNCHANGED <<agent, definitions>>

Stop ==
    /\ pc # "down"
    /\ pc' = "down"
    /\ EndCycle
    /\ UNCHANGED <<agent, definitions>>

Next ==
    \/ \E thing \in Things : RowChanges(thing)
    \/ Renumber
    \/ Boot
    \/ BeginCycle
    \/ GetReturns
    \/ \E c \in DOMAIN walk : Answer(c) \/ LoseAnswer(c)
    \/ WalksReturn
    \/ Commit
    \/ CycleFails
    \/ Stop

(***************************************************************************)
(* A request is answered or given up (timeout and retries): a walk waits   *)
(* for an answer until it has one or has ended.  The event loop runs what  *)
(* was awaiting it.  Nothing is assumed of the agent but that it answers   *)
(* the row after the one asked, nor of failures.                           *)
(***************************************************************************)
Fairness ==
    /\ WF_vars(GetReturns)
    /\ \A c \in UNION {Columns(t) : t \in HostTables \cup PrinterTables} :
          WF_vars(Answer(c))
    /\ WF_vars(WalksReturn)
    /\ WF_vars(Commit)

Spec == Init /\ [][Next]_vars

FairSpec == Spec /\ Fairness
-----------------------------------------------------------------------------
\* Every variable keeps to its domain; the session exists only in a cycle.
TypeOK ==
    /\ table \in HostTables \cup PrinterTables
    /\ model_name \in BOOLEAN
    /\ numbering \in Injection(Things, Indices)
    /\ present \subseteq Things
    /\ definitions \subseteq Catalogue \cup {Dynamic}
    /\ pc \in {"down", "sleeping", "getting", "walking", "committing"}
    /\ asked \subseteq definitions
    /\ pc \in {"down", "sleeping"} => asked = {} /\ readings = {}
    /\ pc = "walking" => DOMAIN walk = Walked
    /\ \A c \in DOMAIN walk : Range(walk[c].values) \subseteq [thing : Things, index : Indices]

\* A reading is made of values of one row, and its key names that row: by its
\* label, or by its index.  Lost answers, rows that come and go between the
\* walks of two columns, and a new numbering since the last cycle never put
\* the value of one row under the name of another.
OfOneRow(r) ==
    \A cell \in r.cells :
        /\ r.cells = {cell}
        /\ Len(r.key) > 1 => r.key[2] \in {Slug[cell.thing], cell.index}

ReadingsAreOfTheirRow == \A r \in readings : OfOneRow(r)

(***************************************************************************)
(* Invariants on which the proofs rest.                                    *)
(***************************************************************************)
\* Values are recorded under the index of their row, in the numbering of the
\* agent, which stays while the walks go on.
RecordedAsNumbered(values) ==
    \A i \in DOMAIN values :
        \E thing \in Things : numbering[thing] = i /\ values[i] = Cell(thing)

WalksAreOfTheAgent ==
    /\ pc # "walking" => walk = NoWalk
    /\ \A c \in DOMAIN walk :
          /\ DOMAIN walk[c] = {"values", "ended"}
          /\ RecordedAsNumbered(walk[c].values)

\* The catalogue is in the database once the process has started.
CatalogueIsSeeded == pc # "down" => Catalogue \subseteq definitions

\* The readings of a table, from its rows.
Name(thing) == IF Slug[thing] = NoLabel THEN numbering[thing] ELSE Slug[thing]

RowReadings(base, metrics, thing) ==
    {Reading(<<base, Name(thing), metric>>, {Cell(thing)}) : metric \in metrics}

LabelledReadings(base, metrics) == UNION {RowReadings(base, metrics, thing) : thing \in present}

EntryReadings(base) ==
    IF Cardinality(present) = 1 THEN {Reading(<<base>>, {Cell(thing)}) : thing \in present}
    ELSE {Reading(<<base, numbering[thing]>>, {Cell(thing)}) : thing \in present}

TableReadings ==
    CASE table = "hrProcessor" -> EntryReadings("hr_cpu_load")
      [] table = "hrStorage" ->
            LabelledReadings("storage", {"total_bytes", "used_bytes", "used_percent"})
      [] table = "ifTable" -> LabelledReadings("if", InterfaceColumns)
      [] table = "hrPrinter" ->
            EntryReadings("printer_error_state") \cup EntryReadings("printer_page_count")
      [] table = "prtMarkerSupplies" -> LabelledReadings("printer_supply", {"level"})

\* Walks that lose no answer, of a table that does not change, read each row
\* exactly once, in every order in which the columns' answers may arrive.
UndisturbedIsComplete ==
    pc = "committing" /\ ~disturbed =>
        {r \in readings : r.cells # {}} = (IF Walked = {} THEN {} ELSE TableReadings)

\* A walk that met no disturbance has the rows up to its last answer, all of
\* them if it has ended; the readings so far are those of the GET.
Unread(values) == {thing \in present : numbering[thing] > Last(values)}

WalksLoseNothing ==
    pc = "walking" =>
        /\ \A r \in readings : r.cells = {}
        /\ ~disturbed =>
              \A c \in DOMAIN walk :
                  /\ IsFiniteSet(DOMAIN walk[c].values) /\ Last(walk[c].values) \in Nat
                  /\ DOMAIN walk[c].values =
                        {numbering[thing] : thing \in present \ Unread(walk[c].values)}
                  /\ walk[c].ended => Unread(walk[c].values) = {}

\* The GET asks for the catalogue, whatever cycles have found and whichever were
\* rolled back: the oid "dynamic" cannot be asked for.
GetAsksTheCatalogue == pc = "getting" => asked = Catalogue

IInv ==
    TypeOK /\ WalksAreOfTheAgent /\ CatalogueIsSeeded /\ ReadingsAreOfTheirRow
        /\ GetAsksTheCatalogue

CompleteInv == IInv /\ WalksLoseNothing /\ UndisturbedIsComplete

\* A cycle ends, although rows may appear in front of a walk again and again.
CyclesEnd == pc = "getting" ~> pc \in {"down", "sleeping"}
=============================================================================
