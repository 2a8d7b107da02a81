\* One numeric series and one of text, over three hours; a statement holds two buckets.
CONSTANTS
    load = load
    state = state
    Series = {load, state}
    Numeric = {load}
    Hour = 2
    Retention = 2
    WriteDelay = 1
    BindLimit = 14
    MaxTime = 6
    MaxFaults = 0
    Ranges = {1, 4}
    MaxPoints = 2
    MinWidth = 1
SPECIFICATION Spec
INVARIANTS
    TypeOK
    OnlyClosedHours
    DeletedIsOldest
PROPERTIES
    DeletedAreCounted
    BucketsStay
