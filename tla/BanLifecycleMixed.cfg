\* Two watchers with both kinds of verdict, bans and unbans by an operator, on
\* a kernel that renews timeouts.
SPECIFICATION Spec
CONSTANTS
    Targets = {t1, t2}
    Watchers = {w1, w2}
    Clients = {c1}
    Verdicts = {TRUE, FALSE}
    Requests = {"ban", "unban"}
    Faults = {}
    KernelRefresh = TRUE
    TempBan = 2
    Skew = 1
    MaxTime = 4
    MaxStops = 1
SYMMETRY Interchangeable
INVARIANTS
    TypeOK
    RecordedBanIsBlocked
    UnbanHolds
