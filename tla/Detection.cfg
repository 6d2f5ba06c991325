\* Every request of two marks, and sshd with ids that are used again.
SPECIFICATION Spec
CONSTANTS
    RequestFamilies <- MCRequestFamilies
    Pipe <- MCPipe
    Ips = {one, two}
    WebPeers = {one}
    Pids = {p, q}
    MaxPending = 1
    MaxCount = 5
    MaxConnections = 3
    MaxFailures = 2
INVARIANTS
    TypeOK
    NoRuleHidesAThreat
    ToolsAreNotJudgedMilder
    RulesFitTheTracker
    ReadProbesAreBanned
    FailuresAreBanned
PROPERTY ChargeNeedsAProbe
\* The connections are bounded, and a judged request is the last step.
CHECK_DEADLOCK FALSE
