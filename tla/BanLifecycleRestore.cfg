\* A restored temporary ban outlives its record in the kernel.
SPECIFICATION Spec
CONSTANTS
    Targets = {t1}
    Watchers = {w1}
    Clients = {}
    Verdicts = {FALSE}
    Requests = {}
    Faults = {}
    KernelRefresh = TRUE
    TempBan = 2
    Skew = 1
    MaxTime = 4
    MaxStops = 1
INVARIANT KernelHonoursExpiry
\* The clock runs out while every target is in the snapshot.
CHECK_DEADLOCK FALSE
