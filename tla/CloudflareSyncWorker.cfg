\* Failing requests, dry starts and restarts; no manual sync, no late request.
SPECIFICATION FairSpec
CONSTANTS
    Writers = {w1, w2}
    Syncers = {}
    Capacity = 2
    Faults = {"refused", "lost", "redb"}
    Modes = {"push", "dry", "no zone"}
    Expiry = TRUE
    ListCount = 2
    MaxChanges = 2
    MaxLate = 1
    MaxStops = 1
INVARIANTS
    TypeOK
    StaleEdgeIsPending
    OneRule
    SettledMeansRecorded
PROPERTY
    EdgeCatchesUp
    ImplementsMirror
\* The system is at rest when every change is made and pushed.
CHECK_DEADLOCK FALSE
