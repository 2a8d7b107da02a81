\* Two rows under both numberings, each table in turn.
CONSTANTS
    sys_uptime = sys_uptime
    eth0 = eth0
    unnamed = unnamed
    first = first
    NoLabel = NoLabel
    Catalogue = {sys_uptime}
    Things = {eth0, unnamed}
    Slug <- TwoSlugs
    Indices = {1, 2}
    InterfaceColumns = {"status", "in_octets"}
SPECIFICATION FairSpec
INVARIANTS
    TypeOK
    ReadingsAreOfTheirRow
    UndisturbedIsComplete
    GetAsksTheCatalogue
PROPERTIES
    CyclesEnd
