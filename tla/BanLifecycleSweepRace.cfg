\* The sweep deletes keys that were banned again since the scan.
SPECIFICATION Spec
CONSTANTS
    Targets = {t1}
    Watchers = {w1}
    Clients = {}
    Verdicts = {FALSE}
    Requests = {}
    Faults = {}
    KernelRefresh = TRUE
    TempBan = 2
    Skew = 1
    MaxTime = 4
    MaxStops = 0
PROPERTY SweepKeepsActiveBans
