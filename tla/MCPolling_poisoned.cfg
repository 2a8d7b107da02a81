\* One device whose agent answers something float() rejects; nothing else fails.
CONSTANTS
    d1 = d1
    d2 = d2
    Devices = {d1, d2}
    Unparseable = {d2}
    BaseInterval = 1
    MaxInterval = 2
    BackoffMultiplier = 2
    MaxFailures = 1
    MaxTime = 1
    MaxFaults = 0
    Ranges = {2}
SPECIFICATION FairSpec
PROPERTIES NoStatusStuckUnknown
