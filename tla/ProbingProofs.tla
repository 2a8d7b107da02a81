--------------------------- MODULE ProbingProofs ---------------------------
(***************************************************************************)
(* Theorems about Probing, for every table, every numbering of its rows    *)
(* and every catalogue.                                                    *)
(***************************************************************************)
EXTENDS Probing, FiniteSetTheorems, TLAPS

\* The initial state satisfies the invariant.
LEMMA InitIInv == Init => IInv
<1> SUFFICES ASSUME Init PROVE IInv
  OBVIOUS
<1>1. DOMAIN walk = {} /\ walk = NoWalk
  BY DEF Init, NoWalk
<1>2. TypeOK
  BY <1>1 DEF Init, TypeOK
<1> QED
  BY <1>1, <1>2 DEF Init, IInv, WalksAreOfTheAgent, CatalogueIsSeeded,
                    ReadingsAreOfTheirRow, GetAsksTheCatalogue

-----------------------------------------------------------------------------
(***************************************************************************)
(* The readings that are made of the columns w.                            *)
(***************************************************************************)
Numbered(w) == \A c \in DOMAIN w : RecordedAsNumbered(w[c])

\* An index is of the same row in all columns.
LEMMA SameRow ==
    ASSUME TypeOK, NEW w, Numbered(w), NEW c \in DOMAIN w, NEW d \in DOMAIN w,
           NEW i, i \in DOMAIN w[c], i \in DOMAIN w[d]
    PROVE  w[d][i] = w[c][i] /\ w[c][i].index = i
<1>1. PICK thing \in Things : numbering[thing] = i /\ w[c][i] = Cell(thing)
  BY DEF Numbered, RecordedAsNumbered
<1>2. PICK other \in Things : numbering[other] = i /\ w[d][i] = Cell(other)
  BY DEF Numbered, RecordedAsNumbered
<1>3. thing = other
  BY <1>1, <1>2 DEF TypeOK, Injection, IsInjective
<1> QED
  BY <1>1, <1>2, <1>3 DEF Cell

\* The label of an index names its row.
LEMMA LabelOfRow ==
    ASSUME TypeOK, NEW w, Numbered(w), NEW c \in DOMAIN w, NEW d \in DOMAIN w,
           NEW i \in DOMAIN w[c]
    PROVE  Label(w[d], i) \in {Slug[w[c][i].thing], w[c][i].index}
<1>1. w[c][i].index = i
  BY SameRow
<1>2. i \in DOMAIN w[d] => w[d][i] = w[c][i]
  BY SameRow
<1> QED
  BY <1>1, <1>2 DEF Label

\* A reading joined from columns that agree on the row of i.
LEMMA JoinedOfOneRow ==
    ASSUME NEW base, NEW label, NEW metric, NEW columns, NEW i, NEW cell,
           \A values \in columns : i \in DOMAIN values => values[i] = cell,
           label \in {Slug[cell.thing], cell.index},
           NEW r \in Joined(base, label, metric, columns, i)
    PROVE  OfOneRow(r)
<1>1. /\ \A values \in columns : i \in DOMAIN values
      /\ r = Reading(<<base, label, metric>>, {values[i] : values \in columns})
  BY DEF Joined
<1>2. \A x \in r.cells : x = cell
  BY <1>1 DEF Reading
<1>3. r.key[2] = label
  BY <1>1 DEF Reading
<1> QED
  BY <1>2, <1>3 DEF OfOneRow

\* A reading of one column, whose key has the index or nothing.
LEMMA KeyedOfOneRow ==
    ASSUME TypeOK, NEW w, Numbered(w), NEW c \in DOMAIN w, NEW base,
           NEW r \in keyed_readings(w[c], base)
    PROVE  OfOneRow(r)
<1>1. PICK i \in DOMAIN w[c] :
         r = Reading(IF Cardinality(DOMAIN w[c]) = 1 THEN <<base>> ELSE <<base, i>>, {w[c][i]})
  BY DEF keyed_readings
<1>2. w[c][i].index = i
  BY SameRow
<1>3. r.cells = {w[c][i]}
  BY <1>1 DEF Reading
<1>4. r.key = <<base>> \/ r.key = <<base, i>>
  BY <1>1 DEF Reading
<1>5. Len(r.key) > 1 => r.key[2] = i
  BY <1>4
<1> QED
  BY <1>2, <1>3, <1>5 DEF OfOneRow

\* The readings of each table.
LEMMA ReadingsOfRows ==
    ASSUME TypeOK, NEW w, Numbered(w), DOMAIN w = Columns(table), NEW r \in ReadingsOf(w)
    PROVE  OfOneRow(r)
<1>1. CASE table = "hrProcessor"
  <2>1. "load" \in DOMAIN w /\ r \in keyed_readings(w["load"], "hr_cpu_load")
    BY <1>1 DEF Columns, ReadingsOf, ProcessorReadings
  <2> QED
    BY <2>1, KeyedOfOneRow
<1>2. CASE table = "hrStorage"
  <2>1. {"descr", "units", "size", "used"} \subseteq DOMAIN w
    BY <1>2 DEF Columns
  <2>2. r \in StorageReadings(w)
    BY <1>2 DEF ReadingsOf
  <2>3. PICK i \in DOMAIN w["size"], more \in {{}, {w["used"]}},
             metric \in {"total_bytes", "used_bytes", "used_percent"} :
           r \in Joined("storage", Label(w["descr"], i), metric,
                        {w["size"], w["units"]} \cup more, i)
    BY <2>2 DEF StorageReadings, StorageRow
  <2>4. \A c \in {"units", "size", "used"} : i \in DOMAIN w[c] => w[c][i] = w["size"][i]
    BY <2>1, SameRow
  <2>5. Label(w["descr"], i) \in {Slug[w["size"][i].thing], w["size"][i].index}
    BY <2>1, LabelOfRow
  <2> QED
    BY <2>3, <2>4, <2>5, JoinedOfOneRow
<1>3. CASE table = "ifTable"
  <2>1. DOMAIN w = {"descr"} \cup InterfaceColumns
    BY <1>3 DEF Columns
  <2>2. PICK i \in DOMAIN w["descr"], c \in InterfaceColumns :
           r \in Joined("if", Label(w["descr"], i), c, {w[c]}, i)
    BY <1>3 DEF ReadingsOf, InterfaceReadings, InterfaceRow
  <2>3. i \in DOMAIN w[c] => w[c][i] = w["descr"][i]
    BY <2>1, SameRow
  <2>4. Label(w["descr"], i) \in {Slug[w["descr"][i].thing], w["descr"][i].index}
    BY <2>1, LabelOfRow
  <2> QED
    BY <2>2, <2>3, <2>4, JoinedOfOneRow
<1>4. CASE table = "hrPrinter"
  <2>1. {"error_state", "life_count"} \subseteq DOMAIN w
    BY <1>4 DEF Columns
  <2>2. \/ r \in keyed_readings(w["error_state"], "printer_error_state")
        \/ r \in keyed_readings(w["life_count"], "printer_page_count")
    BY <1>4 DEF ReadingsOf, PrinterReadings
  <2> QED
    BY <2>1, <2>2, KeyedOfOneRow
<1>5. CASE table = "prtMarkerSupplies"
  <2>1. {"description", "level"} \subseteq DOMAIN w
    BY <1>5 DEF Columns
  <2>2. PICK i \in DOMAIN w["level"] :
           r \in Joined("printer_supply", Label(w["description"], i), "level", {w["level"]}, i)
    BY <1>5 DEF ReadingsOf, SupplyReadings, SupplyRow
  <2>3. Label(w["description"], i) \in {Slug[w["level"][i].thing], w["level"][i].index}
    BY <2>1, LabelOfRow
  <2> QED
    BY <2>2, <2>3, JoinedOfOneRow
<1> QED
  BY <1>1, <1>2, <1>3, <1>4, <1>5 DEF TypeOK, HostTables, PrinterTables

-----------------------------------------------------------------------------
(***************************************************************************)
(* The steps.                                                              *)
(***************************************************************************)
\* A change of the agent between walks, or of the rows it has.
LEMMA AgentStep ==
    ASSUME IInv,
           \/ \E thing \in Things : RowChanges(thing)
           \/ Renumber
    PROVE  IInv'
<1>1. CASE \E thing \in Things : RowChanges(thing)
  <2>1. PICK thing \in Things : RowChanges(thing)
    BY <1>1
  <2>2. /\ UNCHANGED <<table, model_name, numbering, definitions, pc, asked, walk, readings>>
        /\ present' \subseteq Things
    BY <2>1 DEF RowChanges, IInv, TypeOK
  <2>3. TypeOK'
    BY <2>2 DEF IInv, TypeOK, Walked
  <2>4. WalksAreOfTheAgent'
    BY <2>2 DEF IInv, WalksAreOfTheAgent, RecordedAsNumbered, Cell
  <2> QED
    BY <2>2, <2>3, <2>4 DEF IInv, CatalogueIsSeeded, ReadingsAreOfTheirRow, OfOneRow,
                            GetAsksTheCatalogue
<1>2. CASE Renumber
  <2>1. /\ UNCHANGED <<table, model_name, present, definitions, pc, asked, walk, readings>>
        /\ numbering' \in Injection(Things, Indices)
        /\ pc # "walking"
    BY <1>2 DEF Renumber, cycle
  <2>2. DOMAIN walk = {}
    BY <2>1 DEF IInv, WalksAreOfTheAgent, NoWalk
  <2>3. TypeOK'
    BY <2>1, <2>2 DEF IInv, TypeOK, Walked
  <2>4. WalksAreOfTheAgent'
    BY <2>1, <2>2 DEF IInv, WalksAreOfTheAgent
  <2> QED
    BY <2>1, <2>3, <2>4 DEF IInv, CatalogueIsSeeded, ReadingsAreOfTheirRow, OfOneRow,
                            GetAsksTheCatalogue
<1> QED
  BY <1>1, <1>2

\* A cycle that is over, committed or not, leaves nothing but definitions.
LEMMA EndStep ==
    ASSUME IInv, EndCycle, UNCHANGED agent, pc' \in {"down", "sleeping"},
           pc' = "sleeping" => pc # "down",
           definitions' \in {definitions, definitions \cup {Dynamic}}
    PROVE  IInv'
<1>1. /\ asked' = {} /\ readings' = {} /\ walk' = NoWalk /\ DOMAIN walk' = {}
      /\ UNCHANGED <<table, model_name, numbering, present>>
  BY DEF EndCycle, NoWalk, agent
<1>2. TypeOK'
  BY <1>1 DEF IInv, TypeOK
<1>3. WalksAreOfTheAgent'
  BY <1>1 DEF WalksAreOfTheAgent
<1> QED
  BY <1>1, <1>2, <1>3 DEF IInv, CatalogueIsSeeded, ReadingsAreOfTheirRow, GetAsksTheCatalogue

\* The process starts, and a cycle asks for what is in the catalogue.
LEMMA AskStep == ASSUME IInv, Boot \/ BeginCycle PROVE IInv'
<1>1. CASE Boot
  <2>1. /\ pc = "down" /\ pc' = "sleeping"
        /\ definitions' = definitions \cup Catalogue
        /\ UNCHANGED <<table, model_name, numbering, present, asked, walk, readings>>
    BY <1>1 DEF Boot, agent
  <2>2. TypeOK'
    BY <2>1 DEF IInv, TypeOK
  <2>3. WalksAreOfTheAgent'
    BY <2>1 DEF IInv, WalksAreOfTheAgent, RecordedAsNumbered, Cell
  <2> QED
    BY <2>1, <2>2, <2>3 DEF IInv, CatalogueIsSeeded, ReadingsAreOfTheirRow, OfOneRow,
                            GetAsksTheCatalogue
<1>2. CASE BeginCycle
  <2>1. /\ pc = "sleeping" /\ pc' = "getting"
        /\ asked' = definitions \ {Dynamic}
        /\ UNCHANGED <<table, model_name, numbering, present, definitions, walk, readings>>
    BY <1>2 DEF BeginCycle, agent, list_static
  <2>2. TypeOK'
    BY <2>1 DEF IInv, TypeOK
  <2>3. WalksAreOfTheAgent'
    BY <2>1 DEF IInv, WalksAreOfTheAgent, RecordedAsNumbered, Cell
  <2>4. asked' = Catalogue
    <3>1. Catalogue \subseteq definitions /\ definitions \subseteq Catalogue \cup {Dynamic}
      BY <2>1 DEF IInv, TypeOK, CatalogueIsSeeded
    <3>2. Dynamic \notin Catalogue
      BY ProbingAssumption DEF Dynamic
    <3> QED
      BY <2>1, <3>1, <3>2
  <2> QED
    BY <2>1, <2>2, <2>3, <2>4 DEF IInv, CatalogueIsSeeded, ReadingsAreOfTheirRow, OfOneRow,
                                  GetAsksTheCatalogue
<1> QED
  BY <1>1, <1>2

\* Readings of the GET have no row; walks begin with nothing.
LEMMA GetStep == ASSUME IInv, GetReturns PROVE IInv'
<1>1. PICK supported \in SUBSET asked :
         readings' = {Reading(<<metric>>, {}) : metric \in supported}
  BY DEF GetReturns
<1>2. /\ pc = "getting" /\ pc' = "walking"
      /\ walk' = [c \in Walked |-> [values |-> NoWalk, ended |-> FALSE]]
      /\ UNCHANGED <<table, model_name, numbering, present, definitions, asked>>
  BY DEF GetReturns, agent
<1>3. /\ DOMAIN walk' = Walked
      /\ \A c \in DOMAIN walk' : /\ DOMAIN walk'[c] = {"values", "ended"}
                                 /\ DOMAIN walk'[c].values = {}
  BY <1>2 DEF NoWalk
<1>4. \A c \in DOMAIN walk' : Range(walk'[c].values) = {}
  BY <1>3 DEF Range
<1>5. TypeOK'
  <2>1. Walked' = Walked
    BY <1>2 DEF Walked
  <2> QED
    BY <1>2, <1>3, <1>4, <2>1 DEF IInv, TypeOK
<1>6. WalksAreOfTheAgent'
  BY <1>2, <1>3 DEF WalksAreOfTheAgent, RecordedAsNumbered
<1>7. ReadingsAreOfTheirRow'
  BY <1>1 DEF ReadingsAreOfTheirRow, OfOneRow, Reading
<1> QED
  BY <1>2, <1>5, <1>6, <1>7 DEF IInv, CatalogueIsSeeded, GetAsksTheCatalogue

\* One column gets a new state, with values that are as the agent numbers them.
LEMMA WalkStep ==
    ASSUME IInv, pc = "walking",
           UNCHANGED <<table, model_name, numbering, present, definitions, pc, asked, readings>>,
           NEW c \in DOMAIN walk, DOMAIN walk' = DOMAIN walk,
           \A d \in DOMAIN walk \ {c} : walk'[d] = walk[d],
           DOMAIN walk'[c] = {"values", "ended"},
           RecordedAsNumbered(walk'[c].values)
    PROVE  IInv'
<1>1. \A d \in DOMAIN walk : /\ DOMAIN walk'[d] = {"values", "ended"}
                             /\ RecordedAsNumbered(walk'[d].values)
  BY DEF IInv, WalksAreOfTheAgent
<1>2. \A d \in DOMAIN walk : Range(walk'[d].values) \subseteq [thing : Things, index : Indices]
  <2> SUFFICES ASSUME NEW d \in DOMAIN walk, NEW i \in DOMAIN walk'[d].values
               PROVE  walk'[d].values[i] \in [thing : Things, index : Indices]
    BY DEF Range
  <2>1. PICK thing \in Things : walk'[d].values[i] = Cell(thing)
    BY <1>1 DEF RecordedAsNumbered
  <2>2. numbering[thing] \in Indices
    BY DEF IInv, TypeOK, Injection
  <2> QED
    BY <2>1, <2>2 DEF Cell
<1>3. TypeOK'
  BY <1>2 DEF IInv, TypeOK, Walked
<1>4. WalksAreOfTheAgent'
  BY <1>1 DEF WalksAreOfTheAgent, RecordedAsNumbered, Cell
<1> QED
  BY <1>3, <1>4 DEF IInv, CatalogueIsSeeded, ReadingsAreOfTheirRow, OfOneRow,
                    GetAsksTheCatalogue

\* An answer, or none.
LEMMA AnswerStep == ASSUME IInv, NEW c \in DOMAIN walk, Answer(c) \/ LoseAnswer(c) PROVE IInv'
<1>1. /\ pc = "walking"
      /\ UNCHANGED <<table, model_name, numbering, present, definitions, pc, asked, readings>>
  BY DEF Answer, LoseAnswer, agent
<1>2. DOMAIN walk[c] = {"values", "ended"} /\ RecordedAsNumbered(walk[c].values)
  BY DEF IInv, WalksAreOfTheAgent
<1>3. CASE walk' = [walk EXCEPT ![c].ended = TRUE]
  <2>1. /\ DOMAIN walk' = DOMAIN walk
        /\ \A d \in DOMAIN walk \ {c} : walk'[d] = walk[d]
        /\ DOMAIN walk'[c] = {"values", "ended"}
        /\ walk'[c].values = walk[c].values
    BY <1>2, <1>3
  <2> QED
    BY <1>1, <1>2, <2>1, WalkStep
<1>4. CASE \E thing \in Things :
              walk' = [walk EXCEPT ![c].values = Recorded(walk[c].values, Cell(thing))]
  <2>1. PICK thing \in Things :
           walk' = [walk EXCEPT ![c].values = Recorded(walk[c].values, Cell(thing))]
    BY <1>4
  <2>2. /\ DOMAIN walk' = DOMAIN walk
        /\ \A d \in DOMAIN walk \ {c} : walk'[d] = walk[d]
        /\ DOMAIN walk'[c] = {"values", "ended"}
        /\ walk'[c].values = Recorded(walk[c].values, Cell(thing))
    BY <1>2, <2>1
  <2>3. Cell(thing).index = numbering[thing]
    BY DEF Cell
  <2>4. RecordedAsNumbered(Recorded(walk[c].values, Cell(thing)))
    <3> DEFINE values == Recorded(walk[c].values, Cell(thing))
    <3>1. /\ DOMAIN values = DOMAIN walk[c].values \cup {numbering[thing]}
          /\ values[numbering[thing]] = Cell(thing)
          /\ \A i \in DOMAIN walk[c].values \ {numbering[thing]} : values[i] = walk[c].values[i]
      BY <2>3 DEF Recorded
    <3> HIDE DEF values
    <3> SUFFICES ASSUME NEW i \in DOMAIN values
                 PROVE  \E x \in Things : numbering[x] = i /\ values[i] = Cell(x)
      BY DEF RecordedAsNumbered, values
    <3>2. CASE i = numbering[thing]
      BY <3>1, <3>2
    <3>3. CASE i # numbering[thing]
      BY <1>2, <3>1, <3>3 DEF RecordedAsNumbered
    <3> QED
      BY <3>2, <3>3
  <2> QED
    BY <1>1, <2>2, <2>4, WalkStep
<1>5. present \subseteq Things
  BY DEF IInv, TypeOK
<1> QED
  BY <1>3, <1>4, <1>5 DEF Answer, LoseAnswer

\* The readings are made.
LEMMA ReadStep == ASSUME IInv, WalksReturn PROVE IInv'
<1> DEFINE w == [c \in DOMAIN walk |-> walk[c].values]
<1>1. /\ pc = "walking" /\ pc' = "committing"
      /\ readings' = IF Walked = {} THEN readings ELSE readings \cup ReadingsOf(w)
      /\ walk' = NoWalk
      /\ UNCHANGED <<table, model_name, numbering, present, definitions, asked>>
  BY DEF WalksReturn, agent
<1>2. DOMAIN w = Walked /\ Numbered(w)
  BY <1>1 DEF IInv, TypeOK, WalksAreOfTheAgent, Numbered
<1>3. Walked # {} => DOMAIN w = Columns(table)
  BY <1>2 DEF Walked
<1> HIDE DEF w
<1>4. \A r \in readings' : OfOneRow(r)
  <2>1. \A r \in readings : OfOneRow(r)
    BY DEF IInv, ReadingsAreOfTheirRow
  <2>2. Walked # {} => \A r \in ReadingsOf(w) : OfOneRow(r)
    BY <1>2, <1>3, ReadingsOfRows DEF IInv
  <2> QED
    BY <1>1, <2>1, <2>2
<1>5. ReadingsAreOfTheirRow'
  BY <1>4 DEF ReadingsAreOfTheirRow, OfOneRow
<1>6. TypeOK' /\ WalksAreOfTheAgent'
  <2>1. DOMAIN walk' = {}
    BY <1>1 DEF NoWalk
  <2> QED
    BY <1>1, <2>1 DEF IInv, TypeOK, WalksAreOfTheAgent
<1> QED
  BY <1>1, <1>5, <1>6 DEF IInv, CatalogueIsSeeded, GetAsksTheCatalogue

\* Every step keeps the invariant.
LEMMA NextIInv == IInv /\ [Next]_vars => IInv'
<1> SUFFICES ASSUME IInv, [Next]_vars PROVE IInv'
  OBVIOUS
<1>1. CASE (\E thing \in Things : RowChanges(thing)) \/ Renumber
  BY <1>1, AgentStep
<1>2. CASE Boot \/ BeginCycle
  BY <1>2, AskStep
<1>3. CASE GetReturns
  BY <1>3, GetStep
<1>4. CASE \E c \in DOMAIN walk : Answer(c) \/ LoseAnswer(c)
  BY <1>4, AnswerStep
<1>5. CASE WalksReturn
  BY <1>5, ReadStep
<1>6. CASE Commit
  <2>1. /\ pc = "committing" /\ pc' = "sleeping" /\ EndCycle /\ UNCHANGED agent
        /\ definitions' \in {definitions, definitions \cup {Dynamic}}
    BY <1>6 DEF Commit
  <2> QED
    BY <2>1, EndStep
<1>7. CASE CycleFails
  <2>1. /\ pc # "down" /\ pc' = "sleeping" /\ EndCycle /\ UNCHANGED agent
        /\ definitions' = definitions
    BY <1>7 DEF CycleFails
  <2> QED
    BY <2>1, EndStep
<1>8. CASE Stop
  <2>1. /\ pc' = "down" /\ EndCycle /\ UNCHANGED agent /\ definitions' = definitions
    BY <1>8 DEF Stop
  <2> QED
    BY <2>1, EndStep
<1>9. CASE UNCHANGED vars
  <2>1. UNCHANGED <<table, model_name, numbering, present, definitions, pc, asked, walk, readings>>
    BY <1>9 DEF vars, agent, cycle
  <2>2. TypeOK'
    BY <2>1 DEF IInv, TypeOK, Walked
  <2>3. WalksAreOfTheAgent'
    BY <2>1 DEF IInv, WalksAreOfTheAgent, RecordedAsNumbered, Cell
  <2> QED
    BY <2>1, <2>2, <2>3 DEF IInv, CatalogueIsSeeded, ReadingsAreOfTheirRow, OfOneRow,
                            GetAsksTheCatalogue
<1> QED
  BY <1>1, <1>2, <1>3, <1>4, <1>5, <1>6, <1>7, <1>8, <1>9 DEF Next

\* The invariant holds in every state the system reaches.
LEMMA Invariance == Spec => []IInv
  BY InitIInv, NextIInv, PTL DEF Spec

\* The session exists only in a cycle, and walks only the columns of the
\* device's table.
THEOREM TypeCorrect == Spec => []TypeOK
<1>1. IInv => TypeOK
  BY DEF IInv
<1> QED
  BY Invariance, <1>1, PTL

\* Whatever the walks of the columns meet, no reading mixes two rows or bears
\* the name of another.
THEOREM RowsAreNotMixed == Spec => []ReadingsAreOfTheirRow
<1>1. IInv => ReadingsAreOfTheirRow
  BY DEF IInv
<1> QED
  BY Invariance, <1>1, PTL

\* Whatever definitions cycles have committed or rolled back, the GET asks for
\* the catalogue.
THEOREM CatalogueIsAsked == Spec => []GetAsksTheCatalogue
<1>1. IInv => GetAsksTheCatalogue
  BY DEF IInv
<1> QED
  BY Invariance, <1>1, PTL

-----------------------------------------------------------------------------
(***************************************************************************)
(* The readings that are made of columns that have every row.              *)
(***************************************************************************)
\* The column has the value of every thing present, and nothing else.
Complete(values) ==
    /\ IsFiniteSet(DOMAIN values)
    /\ DOMAIN values = {numbering[thing] : thing \in present}
    /\ \A thing \in present : values[numbering[thing]] = Cell(thing)

\* The entries of a table without labels.
LEMMA KeyedIsEntries ==
    ASSUME TypeOK, NEW values, Complete(values), NEW base
    PROVE  keyed_readings(values, base) = EntryReadings(base)
<1> DEFINE f == [thing \in present |-> numbering[thing]]
<1>1. present \subseteq Things /\ \A x, y \in Things : numbering[x] = numbering[y] => x = y
  BY DEF TypeOK, Injection, IsInjective
<1>2. f \in Injection(present, DOMAIN values) /\ f \in Surjection(present, DOMAIN values)
  BY <1>1 DEF Complete, Injection, Surjection, IsInjective
<1> HIDE DEF f
<1>3. Cardinality(DOMAIN values) = Cardinality(present)
  BY <1>2, FS_Injection DEF Complete
<1> DEFINE one == Cardinality(present) = 1
           Read(i) == Reading(IF one THEN <<base>> ELSE <<base, i>>, {values[i]})
           Entry(thing) == Reading(IF one THEN <<base>> ELSE <<base, numbering[thing]>>, {Cell(thing)})
<1>4. keyed_readings(values, base) = {Read(i) : i \in DOMAIN values}
  BY <1>3 DEF keyed_readings
<1>5. EntryReadings(base) = {Entry(thing) : thing \in present}
  <2>1. CASE one
    BY <2>1 DEF EntryReadings
  <2>2. CASE ~one
    BY <2>2 DEF EntryReadings
  <2> QED
    BY <2>1, <2>2
<1>6. DOMAIN values = {numbering[thing] : thing \in present}
      /\ \A thing \in present : Read(numbering[thing]) = Entry(thing)
  BY DEF Complete
<1> HIDE DEF Read, Entry
<1> QED
  BY <1>4, <1>5, <1>6

\* A reading that is joined of complete columns.
LEMMA JoinedIsReading ==
    ASSUME NEW columns, columns # {}, \A values \in columns : Complete(values),
           NEW base, NEW label, NEW metric, NEW thing \in present
    PROVE  Joined(base, label, metric, columns, numbering[thing])
             = {Reading(<<base, label, metric>>, {Cell(thing)})}
<1>1. \A values \in columns : /\ numbering[thing] \in DOMAIN values
                              /\ values[numbering[thing]] = Cell(thing)
  BY DEF Complete
<1>2. {values[numbering[thing]] : values \in columns} = {Cell(thing)}
  BY <1>1
<1> QED
  BY <1>1, <1>2 DEF Joined

\* The label of a row, in a complete column of descriptions.
LEMMA LabelIsName ==
    ASSUME NEW descr, Complete(descr), NEW thing \in present
    PROVE  Label(descr, numbering[thing]) = Name(thing)
<1>1. numbering[thing] \in DOMAIN descr /\ descr[numbering[thing]] = Cell(thing)
  BY DEF Complete
<1>2. Cell(thing).thing = thing
  BY DEF Cell
<1> QED
  BY <1>1, <1>2 DEF Label, Name

\* What is joined of complete columns, under the label of the row.
LEMMA NamedReading ==
    ASSUME NEW descr, Complete(descr), NEW columns, columns # {},
           \A values \in columns : Complete(values),
           NEW base, NEW metric, NEW thing \in present
    PROVE  Joined(base, Label(descr, numbering[thing]), metric, columns, numbering[thing])
             = {Reading(<<base, Name(thing), metric>>, {Cell(thing)})}
<1> DEFINE label == Name(thing)
<1>1. Label(descr, numbering[thing]) = label
  BY LabelIsName
<1> HIDE DEF label
<1>2. Joined(base, label, metric, columns, numbering[thing])
        = {Reading(<<base, label, metric>>, {Cell(thing)})}
  BY JoinedIsReading
<1> QED
  BY <1>1, <1>2 DEF label

\* What is read of one complete column.
LEMMA NamedCell ==
    ASSUME NEW descr, Complete(descr), NEW values, Complete(values),
           NEW base, NEW metric, NEW thing \in present
    PROVE  Joined(base, Label(descr, numbering[thing]), metric, {values}, numbering[thing])
             = {Reading(<<base, Name(thing), metric>>, {Cell(thing)})}
<1> DEFINE columns == {values}
<1>1. columns # {} /\ \A other \in columns : Complete(other)
  OBVIOUS
<1> HIDE DEF columns
<1>2. Joined(base, Label(descr, numbering[thing]), metric, columns, numbering[thing])
        = {Reading(<<base, Name(thing), metric>>, {Cell(thing)})}
  BY <1>1, NamedReading
<1> QED
  BY <1>2 DEF columns

\* The readings of each row of a labelled table.
LEMMA StorageRowIsNamed ==
    ASSUME NEW w, \A c \in {"descr", "units", "size", "used"} : Complete(w[c]),
           NEW thing \in present
    PROVE  StorageRow(w, numbering[thing])
             = RowReadings("storage", {"total_bytes", "used_bytes", "used_percent"}, thing)
<1> DEFINE Bytes(metric, columns) ==
             Joined("storage", Label(w["descr"], numbering[thing]), metric,
                    {w["size"], w["units"]} \cup columns, numbering[thing])
           Named(metric) == Reading(<<"storage", Name(thing), metric>>, {Cell(thing)})
<1>1. ASSUME NEW metric, NEW more \in {{}, {w["used"]}}
      PROVE  Bytes(metric, more) = {Named(metric)}
  <2> DEFINE columns == {w["size"], w["units"]} \cup more
             descr == w["descr"]
  <2>1. columns # {} /\ (\A values \in columns : Complete(values)) /\ Complete(descr)
    OBVIOUS
  <2> HIDE DEF columns, descr
  <2>2. Joined("storage", Label(descr, numbering[thing]), metric, columns, numbering[thing])
          = {Reading(<<"storage", Name(thing), metric>>, {Cell(thing)})}
    BY ONLY <2>1, thing \in present, NamedReading
  <2> QED
    BY <2>2 DEF columns, descr
<1>2. StorageRow(w, numbering[thing])
        = Bytes("total_bytes", {}) \cup Bytes("used_bytes", {w["used"]})
            \cup Bytes("used_percent", {w["used"]})
  BY DEF StorageRow
<1>3. RowReadings("storage", {"total_bytes", "used_bytes", "used_percent"}, thing)
        = {Named("total_bytes"), Named("used_bytes"), Named("used_percent")}
  BY DEF RowReadings
<1> HIDE DEF Bytes, Named
<1> QED
  BY <1>1, <1>2, <1>3

LEMMA InterfaceRowIsNamed ==
    ASSUME NEW w, \A c \in {"descr"} \cup InterfaceColumns : Complete(w[c]), NEW thing \in present
    PROVE  InterfaceRow(w, numbering[thing]) = RowReadings("if", InterfaceColumns, thing)
<1> DEFINE Read(c) == Joined("if", Label(w["descr"], numbering[thing]), c, {w[c]}, numbering[thing])
           Named(c) == Reading(<<"if", Name(thing), c>>, {Cell(thing)})
<1>1. \A metric : \A values : Complete(values) =>
         Joined("if", Label(w["descr"], numbering[thing]), metric, {values}, numbering[thing])
           = {Named(metric)}
  <2> TAKE metric
  <2> TAKE values
  <2> HAVE Complete(values)
  <2> DEFINE descr == w["descr"]
  <2>1. Complete(descr)
    OBVIOUS
  <2> HIDE DEF descr
  <2>2. Joined("if", Label(descr, numbering[thing]), metric, {values}, numbering[thing])
          = {Reading(<<"if", Name(thing), metric>>, {Cell(thing)})}
    BY <2>1, NamedCell
  <2> QED
    BY <2>2 DEF descr
<1>4. ASSUME NEW c \in InterfaceColumns PROVE Read(c) = {Named(c)}
  <2>1. Complete(w[c])
    OBVIOUS
  <2> QED
    BY <2>1, <1>1, Zenon
<1>2. InterfaceRow(w, numbering[thing]) = UNION {Read(c) : c \in InterfaceColumns}
  BY DEF InterfaceRow
<1>3. RowReadings("if", InterfaceColumns, thing) = {Named(c) : c \in InterfaceColumns}
  BY DEF RowReadings
<1> HIDE DEF Read, Named
<1> QED
  BY <1>2, <1>3, <1>4

LEMMA SupplyRowIsNamed ==
    ASSUME NEW w, Complete(w["description"]), Complete(w["level"]), NEW thing \in present
    PROVE  SupplyRow(w, numbering[thing]) = RowReadings("printer_supply", {"level"}, thing)
<1>1. Joined("printer_supply", Label(w["description"], numbering[thing]), "level", {w["level"]},
             numbering[thing])
        = {Reading(<<"printer_supply", Name(thing), "level">>, {Cell(thing)})}
  BY NamedCell
<1>2. RowReadings("printer_supply", {"level"}, thing)
        = {Reading(<<"printer_supply", Name(thing), "level">>, {Cell(thing)})}
  BY DEF RowReadings
<1> QED
  BY <1>1, <1>2 DEF SupplyRow

\* The readings of each table.
LEMMA ReadingsOfTable ==
    ASSUME TypeOK, NEW w, DOMAIN w = Columns(table), \A c \in DOMAIN w : Complete(w[c])
    PROVE  ReadingsOf(w) = TableReadings
<1>1. CASE table = "hrProcessor"
  <2>1. Complete(w["load"])
    BY <1>1 DEF Columns
  <2>2. ReadingsOf(w) = keyed_readings(w["load"], "hr_cpu_load")
    BY <1>1 DEF ReadingsOf, ProcessorReadings
  <2>3. TableReadings = EntryReadings("hr_cpu_load")
    BY <1>1 DEF TableReadings
  <2> QED
    BY <2>1, <2>2, <2>3, KeyedIsEntries
<1>2. CASE table = "hrStorage"
  <2>1. \A c \in {"descr", "units", "size", "used"} : Complete(w[c])
    BY <1>2 DEF Columns
  <2> DEFINE Read(i) == StorageRow(w, i)
             Named(thing) ==
                 RowReadings("storage", {"total_bytes", "used_bytes", "used_percent"}, thing)
  <2>2. ReadingsOf(w) = UNION {Read(i) : i \in DOMAIN w["size"]}
    BY <1>2 DEF ReadingsOf, StorageReadings
  <2>3. TableReadings = UNION {Named(thing) : thing \in present}
    BY <1>2 DEF TableReadings, LabelledReadings
  <2>4. \A thing \in present : Read(numbering[thing]) = Named(thing)
    BY ONLY <2>1, StorageRowIsNamed
  <2>5. DOMAIN w["size"] = {numbering[thing] : thing \in present}
    BY <2>1 DEF Complete
  <2> HIDE DEF Read, Named
  <2> QED
    BY ONLY <2>2, <2>3, <2>4, <2>5
<1>3. CASE table = "ifTable"
  <2>1. \A c \in {"descr"} \cup InterfaceColumns : Complete(w[c])
    BY <1>3 DEF Columns
  <2> DEFINE Read(i) == InterfaceRow(w, i)
             Named(thing) == RowReadings("if", InterfaceColumns, thing)
  <2>2. ReadingsOf(w) = UNION {Read(i) : i \in DOMAIN w["descr"]}
    BY <1>3 DEF ReadingsOf, InterfaceReadings
  <2>3. TableReadings = UNION {Named(thing) : thing \in present}
    BY <1>3 DEF TableReadings, LabelledReadings
  <2>4. \A thing \in present : Read(numbering[thing]) = Named(thing)
    BY ONLY <2>1, InterfaceRowIsNamed
  <2>5. DOMAIN w["descr"] = {numbering[thing] : thing \in present}
    BY <2>1 DEF Complete
  <2> HIDE DEF Read, Named
  <2> QED
    BY ONLY <2>2, <2>3, <2>4, <2>5
<1>4. CASE table = "hrPrinter"
  <2>1. Complete(w["error_state"]) /\ Complete(w["life_count"])
    BY <1>4 DEF Columns
  <2>2. ReadingsOf(w) = keyed_readings(w["error_state"], "printer_error_state")
                          \cup keyed_readings(w["life_count"], "printer_page_count")
    BY <1>4 DEF ReadingsOf, PrinterReadings
  <2>3. TableReadings = EntryReadings("printer_error_state") \cup EntryReadings("printer_page_count")
    BY <1>4 DEF TableReadings
  <2>4. /\ keyed_readings(w["error_state"], "printer_error_state") = EntryReadings("printer_error_state")
        /\ keyed_readings(w["life_count"], "printer_page_count") = EntryReadings("printer_page_count")
    BY <2>1, KeyedIsEntries
  <2> QED
    BY <2>2, <2>3, <2>4
<1>5. CASE table = "prtMarkerSupplies"
  <2>1. Complete(w["description"]) /\ Complete(w["level"])
    BY <1>5 DEF Columns
  <2> DEFINE Read(i) == SupplyRow(w, i)
             Named(thing) == RowReadings("printer_supply", {"level"}, thing)
  <2>2. ReadingsOf(w) = UNION {Read(i) : i \in DOMAIN w["level"]}
    BY <1>5 DEF ReadingsOf, SupplyReadings
  <2>3. TableReadings = UNION {Named(thing) : thing \in present}
    BY <1>5 DEF TableReadings, LabelledReadings
  <2>4. \A thing \in present : Read(numbering[thing]) = Named(thing)
    BY ONLY <2>1, SupplyRowIsNamed
  <2>5. DOMAIN w["level"] = {numbering[thing] : thing \in present}
    BY <2>1 DEF Complete
  <2> HIDE DEF Read, Named
  <2> QED
    BY ONLY <2>2, <2>3, <2>4, <2>5
<1> QED
  BY <1>1, <1>2, <1>3, <1>4, <1>5 DEF TypeOK, HostTables, PrinterTables

\* Every one of these readings is of some row.
LEMMA TableReadingsHaveCells ==
    ASSUME TypeOK PROVE \A r \in TableReadings : r.cells # {}
<1>1. \A key, thing : Reading(key, {Cell(thing)}).cells # {}
  BY DEF Reading
<1>2. ASSUME NEW base, NEW r \in EntryReadings(base) PROVE r.cells # {}
  BY <1>1, <1>2 DEF EntryReadings
<1>3. ASSUME NEW base, NEW metrics, NEW r \in LabelledReadings(base, metrics) PROVE r.cells # {}
  <2>1. PICK thing \in present : r \in RowReadings(base, metrics, thing)
    BY <1>3 DEF LabelledReadings
  <2> QED
    BY <1>1, <2>1 DEF RowReadings
<1>4. CASE table \in {"hrProcessor", "hrPrinter"}
  BY <1>2, <1>4 DEF TableReadings
<1>5. CASE table \in {"hrStorage", "ifTable", "prtMarkerSupplies"}
  BY <1>3, <1>5 DEF TableReadings
<1> QED
  BY <1>4, <1>5 DEF TypeOK, HostTables, PrinterTables

-----------------------------------------------------------------------------
(***************************************************************************)
(* Walks that meet no disturbance.                                         *)
(***************************************************************************)
\* The walk has the rows up to its last answer.
UpToLast(values) ==
    /\ IsFiniteSet(DOMAIN values) /\ Last(values) \in Nat
    /\ DOMAIN values = {numbering[thing] : thing \in present \ Unread(values)}

\* The numbers of rows.
LEMMA Numbers ==
    ASSUME TypeOK
    PROVE  /\ \A thing \in Things : numbering[thing] \in Nat \ {0}
           /\ present \subseteq Things
           /\ \A x, y \in Things : numbering[x] = numbering[y] => x = y
  BY ProbingAssumption DEF TypeOK, Injection, IsInjective

\* A walk that has had no answer.
LEMMA NothingYet == ASSUME TypeOK PROVE UpToLast(NoWalk)
<1>1. DOMAIN NoWalk = {} /\ Last(NoWalk) = 0
  BY DEF NoWalk, Last
<1>2. Unread(NoWalk) = present
  BY <1>1, Numbers DEF Unread
<1> QED
  BY <1>1, <1>2, FS_EmptySet DEF UpToLast

\* The greatest of some numbers is the one that is not less than any.
LEMMA MaxIs ==
    ASSUME NEW S, S \subseteq Nat, NEW n \in S, \A i \in S : i <= n
    PROVE  Max(S) = n
<1>1. \A x \in S : (\A y \in S : x >= y) => x = n
  OBVIOUS
<1> QED
  BY <1>1 DEF Max

\* The next answer is the next row.
LEMMA NextRow ==
    ASSUME TypeOK, NEW values, RecordedAsNumbered(values), UpToLast(values),
           NEW thing \in Unread(values),
           \A other \in Unread(values) : numbering[thing] <= numbering[other]
    PROVE  UpToLast(Recorded(values, Cell(thing)))
<1> DEFINE n == numbering[thing]
           more == Recorded(values, Cell(thing))
<1>1. /\ thing \in present /\ n > Last(values) /\ n \in Nat \ {0}
      /\ \A other \in present : numbering[other] \in Nat
  BY Numbers DEF Unread
<1>2. /\ DOMAIN more = DOMAIN values \cup {n}
      /\ more[n] = Cell(thing)
      /\ \A i \in DOMAIN values \ {n} : more[i] = values[i]
  BY DEF Recorded, Cell
<1>3. \A i \in DOMAIN values : i \in Nat /\ i <= Last(values) /\ values[i].index = i
  <2>1. \A other \in present \ Unread(values) : numbering[other] <= Last(values)
    BY <1>1 DEF UpToLast, Unread
  <2>2. \A i \in DOMAIN values : values[i].index = i
    BY DEF RecordedAsNumbered, Cell
  <2> QED
    BY <1>1, <2>1, <2>2 DEF UpToLast
<1> HIDE DEF more
<1>4. Last(more) = n
  <2>1. \A i \in DOMAIN more : more[i].index = i
    BY <1>2, <1>3 DEF Cell
  <2>2. {more[i].index : i \in DOMAIN more} = DOMAIN more
    BY <2>1
  <2>3. more # NoWalk
    BY <1>2 DEF NoWalk
  <2>4. DOMAIN more \subseteq Nat /\ n \in DOMAIN more /\ \A i \in DOMAIN more : i <= n
    BY <1>1, <1>2, <1>3 DEF UpToLast
  <2>5. Max(DOMAIN more) = n
    BY <2>4, MaxIs
  <2> QED
    BY <2>2, <2>3, <2>5 DEF Last
<1>5. IsFiniteSet(DOMAIN more)
  BY <1>2, FS_AddElement DEF UpToLast
<1>6. DOMAIN more = {numbering[other] : other \in present \ Unread(more)}
  <2>1. \A other \in present : other \notin Unread(more) <=> numbering[other] <= n
    BY <1>1, <1>4 DEF Unread
  <2>2. \A other \in present : other \notin Unread(values) <=> numbering[other] <= Last(values)
    BY <1>1 DEF UpToLast, Unread
  <2>3. \A other \in present :
           numbering[other] <= n <=> numbering[other] <= Last(values) \/ numbering[other] = n
    <3> SUFFICES ASSUME NEW other \in present
                 PROVE  numbering[other] <= n
                          <=> numbering[other] <= Last(values) \/ numbering[other] = n
      OBVIOUS
    <3>1. numbering[other] <= Last(values) \/ n <= numbering[other]
      BY <2>2
    <3> QED
      BY <1>1, <3>1 DEF UpToLast
  <2>4. DOMAIN values = {numbering[other] : other \in present \ Unread(values)}
    BY DEF UpToLast
  <2>5. ASSUME NEW i
        PROVE  i \in DOMAIN more <=> \E other \in present \ Unread(more) : i = numbering[other]
    BY <1>1, <1>2, <2>1, <2>2, <2>3, <2>4
  <2> QED
    BY <2>5
<1> QED
  BY <1>1, <1>4, <1>5, <1>6 DEF UpToLast, more

\* A walk that has left no row unread has them all.
LEMMA AllRead ==
    ASSUME TypeOK, NEW values, RecordedAsNumbered(values), UpToLast(values), Unread(values) = {}
    PROVE  Complete(values)
<1>1. DOMAIN values = {numbering[thing] : thing \in present}
  BY DEF UpToLast
<1>2. ASSUME NEW thing \in present PROVE values[numbering[thing]] = Cell(thing)
  <2>1. PICK x \in Things : /\ numbering[x] = numbering[thing]
                            /\ values[numbering[thing]] = Cell(x)
    BY <1>1 DEF RecordedAsNumbered
  <2> QED
    BY <2>1, Numbers
<1> QED
  BY <1>1, <1>2 DEF Complete, UpToLast

\* The first part of the invariant, with the rows of a walk by name.
LEMMA LoseNothing ==
    WalksLoseNothing <=>
        (pc = "walking" =>
            /\ \A r \in readings : r.cells = {}
            /\ ~disturbed =>
                  \A c \in DOMAIN walk : /\ UpToLast(walk[c].values)
                                         /\ walk[c].ended => Unread(walk[c].values) = {})
  BY DEF WalksLoseNothing, UpToLast

\* The GET has returned, and the walks begin.
LEMMA BeginWalks ==
    ASSUME IInv, GetReturns
    PROVE  WalksLoseNothing' /\ pc' # "committing"
<1>1. /\ pc' = "walking"
      /\ walk' = [c \in Walked |-> [values |-> NoWalk, ended |-> FALSE]]
      /\ \A r \in readings' : r.cells = {}
  BY DEF GetReturns, Reading
<1>2. TypeOK'
  BY GetStep DEF IInv
<1>3. UpToLast(NoWalk)'
  BY <1>2, NothingYet, PTL
<1>4. NoWalk' = NoWalk
  BY DEF NoWalk
<1>5. \A c \in DOMAIN walk' : walk'[c].values = NoWalk' /\ ~walk'[c].ended
  BY <1>1, <1>4
<1>6. \A c \in DOMAIN walk' : UpToLast(walk[c].values)'
  BY <1>3, <1>5 DEF UpToLast, Unread, Last
<1> QED
  BY <1>1, <1>5, <1>6 DEF WalksLoseNothing, UpToLast

\* An answer to one of the walks.
LEMMA AnswerLosesNothing ==
    ASSUME IInv, WalksLoseNothing, NEW c \in DOMAIN walk, Answer(c)
    PROVE  WalksLoseNothing' /\ pc' # "committing"
<1>1. /\ pc = "walking" /\ pc' = "walking"
      /\ UNCHANGED <<numbering, present, disturbed, readings>>
  BY DEF Answer, agent
<1>2. \A r \in readings' : r.cells = {}
  BY <1>1 DEF WalksLoseNothing
<1>3. ASSUME ~disturbed
      PROVE  /\ DOMAIN walk' = DOMAIN walk
             /\ \A d \in DOMAIN walk : /\ UpToLast(walk'[d].values)
                                       /\ walk'[d].ended => Unread(walk'[d].values) = {}
  <2>1. \A d \in DOMAIN walk : /\ UpToLast(walk[d].values)
                               /\ walk[d].ended => Unread(walk[d].values) = {}
    BY <1>1, <1>3, LoseNothing
  <2>2. /\ DOMAIN walk[c] = {"values", "ended"} /\ RecordedAsNumbered(walk[c].values)
        /\ ~walk[c].ended
        /\ TypeOK
    BY DEF IInv, WalksAreOfTheAgent, Answer
  <2>3. CASE Unread(walk[c].values) = {}
    <3>1. walk' = [walk EXCEPT ![c].ended = TRUE]
      BY <2>3 DEF Answer, Unread
    <3>2. /\ DOMAIN walk' = DOMAIN walk
          /\ \A d \in DOMAIN walk \ {c} : walk'[d] = walk[d]
          /\ walk'[c].values = walk[c].values
      BY <2>2, <3>1
    <3> QED
      BY <2>1, <2>3, <3>2
  <2>4. CASE Unread(walk[c].values) # {}
    <3>1. PICK thing \in Unread(walk[c].values) :
             /\ \A other \in Unread(walk[c].values) : numbering[thing] <= numbering[other]
             /\ walk' = [walk EXCEPT ![c].values = Recorded(walk[c].values, Cell(thing))]
      BY <2>4 DEF Answer, Unread
    <3>2. /\ DOMAIN walk' = DOMAIN walk
          /\ \A d \in DOMAIN walk \ {c} : walk'[d] = walk[d]
          /\ walk'[c].values = Recorded(walk[c].values, Cell(thing))
          /\ walk'[c].ended = walk[c].ended
      BY <2>2, <3>1
    <3>3. UpToLast(walk'[c].values)
      BY <2>1, <2>2, <3>1, <3>2, NextRow
    <3> QED
      BY <2>1, <2>2, <3>2, <3>3
  <2> QED
    BY <2>3, <2>4
<1>4. ASSUME ~disturbed', NEW d \in DOMAIN walk'
      PROVE  /\ UpToLast(walk[d].values)'
             /\ (walk[d].ended => Unread(walk[d].values) = {})'
  <2>1. UpToLast(walk'[d].values) /\ (walk'[d].ended => Unread(walk'[d].values) = {})
    BY <1>1, <1>3, <1>4
  <2> QED
    BY <1>1, <2>1 DEF UpToLast, Unread, Last
<1> QED
  BY <1>1, <1>2, <1>4 DEF WalksLoseNothing, UpToLast

\* The walks return, and the readings are made of what they have.
LEMMA ReturnsAll ==
    ASSUME IInv, WalksLoseNothing, WalksReturn
    PROVE  UndisturbedIsComplete' /\ pc' # "walking"
<1> DEFINE w == [c \in DOMAIN walk |-> walk[c].values]
<1>1. /\ pc = "walking" /\ pc' = "committing"
      /\ readings' = IF Walked = {} THEN readings ELSE readings \cup ReadingsOf(w)
      /\ \A c \in DOMAIN walk : walk[c].ended
      /\ UNCHANGED <<table, model_name, numbering, present, disturbed>>
  BY DEF WalksReturn, agent
<1>2. \A r \in readings : r.cells = {}
  BY <1>1 DEF WalksLoseNothing
<1>3. Walked' = Walked /\ TableReadings' = TableReadings
  BY <1>1 DEF Walked, TableReadings, EntryReadings, LabelledReadings, RowReadings, Name, Cell
<1> SUFFICES ASSUME ~disturbed
             PROVE  {r \in readings' : r.cells # {}} = IF Walked = {} THEN {} ELSE TableReadings
  BY <1>1, <1>3 DEF UndisturbedIsComplete
<1>4. CASE Walked = {}
  BY <1>1, <1>2, <1>4
<1>5. CASE Walked # {}
  <2>1. DOMAIN w = Columns(table)
    BY <1>1, <1>5 DEF IInv, TypeOK, Walked
  <2>2. \A c \in DOMAIN w : Complete(w[c])
    <3> SUFFICES ASSUME NEW c \in DOMAIN walk PROVE Complete(walk[c].values)
      OBVIOUS
    <3>1. UpToLast(walk[c].values) /\ Unread(walk[c].values) = {}
      BY <1>1, LoseNothing
    <3>2. TypeOK /\ RecordedAsNumbered(walk[c].values)
      BY DEF IInv, WalksAreOfTheAgent
    <3> QED
      BY <3>1, <3>2, AllRead
  <2> HIDE DEF w
  <2>3. ReadingsOf(w) = TableReadings /\ \A r \in TableReadings : r.cells # {}
    BY <2>1, <2>2, ReadingsOfTable, TableReadingsHaveCells DEF IInv
  <2> QED
    BY <1>1, <1>2, <1>5, <2>3
<1> QED
  BY <1>4, <1>5

\* Every step keeps what the walks have lost to nothing but disturbances.
LEMMA NextComplete == CompleteInv /\ [Next]_vars => CompleteInv'
<1> SUFFICES ASSUME CompleteInv, [Next]_vars PROVE WalksLoseNothing' /\ UndisturbedIsComplete'
  BY NextIInv DEF CompleteInv
<1>1. CASE \E thing \in Things : RowChanges(thing)
  <2>1. /\ pc' = pc /\ readings' = readings
        /\ pc \in {"walking", "committing"} => disturbed'
    BY <1>1 DEF RowChanges
  <2> QED
    BY <2>1 DEF CompleteInv, WalksLoseNothing, UndisturbedIsComplete
<1>2. CASE Renumber \/ Boot \/ BeginCycle \/ Commit \/ CycleFails \/ Stop
  <2>1. pc' \notin {"walking", "committing"}
    BY <1>2 DEF Renumber, cycle, Boot, BeginCycle, Commit, CycleFails, Stop
  <2> QED
    BY <2>1 DEF WalksLoseNothing, UndisturbedIsComplete
<1>3. CASE GetReturns
  BY <1>3, BeginWalks DEF CompleteInv, UndisturbedIsComplete
<1>4. CASE \E c \in DOMAIN walk : Answer(c)
  BY <1>4, AnswerLosesNothing DEF CompleteInv, UndisturbedIsComplete
<1>5. CASE \E c \in DOMAIN walk : LoseAnswer(c)
  <2>1. pc = "walking" /\ pc' = pc /\ readings' = readings /\ disturbed'
    BY <1>5 DEF LoseAnswer
  <2> QED
    BY <2>1 DEF CompleteInv, WalksLoseNothing, UndisturbedIsComplete
<1>6. CASE WalksReturn
  BY <1>6, ReturnsAll DEF CompleteInv, WalksLoseNothing
<1>7. CASE UNCHANGED vars
  <2>1. UNCHANGED <<table, model_name, numbering, present, pc, walk, disturbed, readings>>
    BY <1>7 DEF vars, agent, cycle
  <2>2. WalksLoseNothing'
    <3>1. \A d \in DOMAIN walk : Unread(walk[d].values)' = Unread(walk[d].values)
                                 /\ Last(walk[d].values)' = Last(walk[d].values)
      BY <2>1 DEF Unread, Last
    <3> QED
      BY <2>1, <3>1 DEF CompleteInv, WalksLoseNothing
  <2>3. Walked' = Walked /\ TableReadings' = TableReadings
    BY <2>1 DEF Walked, TableReadings, EntryReadings, LabelledReadings, RowReadings, Name, Cell
  <2> QED
    BY <2>1, <2>2, <2>3 DEF CompleteInv, UndisturbedIsComplete
<1> QED
  BY <1>1, <1>2, <1>3, <1>4, <1>5, <1>6, <1>7 DEF Next

\* Whatever table the agent has, however it numbers the rows, and in whatever
\* order the answers to the walks of its columns arrive: a cycle that lost no
\* answer and saw no row change has exactly the readings of the rows.
THEOREM ReadsComplete == Spec => []UndisturbedIsComplete
<1>1. Init => CompleteInv
  BY InitIInv DEF Init, CompleteInv, WalksLoseNothing, UndisturbedIsComplete
<1>2. CompleteInv => UndisturbedIsComplete
  BY DEF CompleteInv
<1> QED
  BY <1>1, <1>2, NextComplete, PTL DEF Spec
=============================================================================
