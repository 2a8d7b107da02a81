\* A retention that does not end on the hour.
CONSTANTS
    load = load
    Series = {load}
    Numeric = {load}
    Hour = 2
    Retention = 2
    WriteDelay = 2
    BindLimit = 100
    MaxTime = 5
    MaxFaults = 0
    Ranges = {1, 4}
    MaxPoints = 2
    MinWidth = 1
SPECIFICATION FairSpec
PROPERTIES TrendsNeverShrink
