\* Two watchers and two operators at one target, and two stops, on a kernel that
\* leaves the timeout of a live element as it is (before Linux 6.12); the sweep is
\* fair.
SPECIFICATION FairSpec
CONSTANTS
    Targets = {t1}
    Watchers = {w1, w2}
    Clients = {c1, c2}
    Verdicts = {TRUE, FALSE}
    Requests = {"ban", "unban"}
    Faults = {}
    KernelRefresh = FALSE
    TempBan = 2
    Skew = 1
    MaxTime = 5
    MaxStops = 2
INVARIANT SnapshotIsBlocked
PROPERTY ExpiredRecordsArePurged
