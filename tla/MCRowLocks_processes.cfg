\* The cycle and two scans, each in a process of its own.
CONSTANTS
    cycle = cycle
    scan1 = scan1
    scan2 = scan2
    app = app
    host1 = host1
    host2 = host2
    Nobody = Nobody
    Cycle = cycle
    Scans = {scan1, scan2}
    Rows = {1, 2}
    Loops = {app, host1, host2}
    LoopOf <- OneLoopEach
SPECIFICATION FairSpec
INVARIANTS
    TypeOK
    HoldersNeedNoOther
PROPERTIES
    CyclesGoOn
    ScansEnd
