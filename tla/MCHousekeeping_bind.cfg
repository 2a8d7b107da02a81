\* Three series whose closed buckets do not fit one statement.
CONSTANTS
    s1 = s1
    s2 = s2
    s3 = s3
    Series = {s1, s2, s3}
    Numeric = {s1, s2, s3}
    Hour = 1
    Retention = 1
    WriteDelay = 1
    BindLimit = 14
    MaxTime = 3
    MaxFaults = 0
    Ranges = {1, 4}
    MaxPoints = 2
    MinWidth = 1
SPECIFICATION FairSpec
PROPERTIES OldRowsGo
