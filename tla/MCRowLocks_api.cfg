\* A scan on the event loop of the cycle.
CONSTANTS
    cycle = cycle
    scan1 = scan1
    scan2 = scan2
    app = app
    host1 = host1
    host2 = host2
    Nobody = Nobody
    Cycle = cycle
    Scans = {scan1}
    Rows = {1, 2}
    Loops = {app}
    LoopOf <- OneLoop
SPECIFICATION FairSpec
PROPERTIES CyclesGoOn
