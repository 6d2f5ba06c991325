\* Writers are served while manual syncs run beside the worker.
SPECIFICATION FairSpec
CONSTANTS
    Writers = {w1}
    Syncers = {s1}
    Capacity = 1
    Faults = {"late"}
    Modes = {"push"}
    Expiry = FALSE
    ListCount = 2
    MaxChanges = 1
    MaxLate = 1
    MaxStops = 0
PROPERTY SendersAreServed
\* The system is at rest when every change is made and pushed.
CHECK_DEADLOCK FALSE
