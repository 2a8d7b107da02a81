\* Two devices, one of which fails the cycles it answers in, one outside failure.
CONSTANTS
    d1 = d1
    d2 = d2
    Devices = {d1, d2}
    Unparseable = {d2}
    BaseInterval = 1
    MaxInterval = 3
    BackoffMultiplier = 2
    MaxFailures = 2
    MaxTime = 4
    MaxFaults = 1
    Ranges = {2}
SPECIFICATION Spec
INVARIANTS
    TypeOK
    OpenEventIsStatus
    SessionIsCurrent
    TimelinesAreContiguous
    SamplesWhileOnline
    SummaryIsExact
    MeanCountsEveryPolledDevice
    OpenEventComesFirst
PROPERTIES
    BackoffDoublesOrResets
    ImplementsRegistry
    PolledWhenDue
    CycleIsAtomic
    ImplementsAvailabilityLog
    DashboardCountsAgree
