\* Devices whose readings can always be stored, and one outside failure.
CONSTANTS
    d1 = d1
    d2 = d2
    Devices = {d1, d2}
    Unparseable = {}
    BaseInterval = 1
    MaxInterval = 3
    BackoffMultiplier = 2
    MaxFailures = 2
    MaxTime = 2
    MaxFaults = 1
    Ranges = {2}
SPECIFICATION FairSpec
PROPERTIES DueIsPolled
