\* Two watchers, two pools of one record, and sweeps between them.
SPECIFICATION FairSpec
CONSTANTS
    Ips = {a}
    Rules <- MCRules
    Threads = {t1, t2}
    Shards = {1}
    ShardOf <- MCSecondShard
    MaxCount = 2
    MaxIdle = 2
    Skew = 1
    MaxTime = 4
    MaxStreak = 3
INVARIANT TypeOK
PROPERTIES
    ImplementsPolicy
    StaleRecordsAreDropped
\* The clock and the streaks are bounded.
CHECK_DEADLOCK FALSE
