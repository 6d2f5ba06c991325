\* Two starts, an edit of the file and two commands, online or offline, and every
\* way the rule at Cloudflare is pushed and falls behind.
SPECIFICATION Spec
CONSTANTS
    Hosts <- MCHosts
    Nets = {"net"}
    AddressOf <- MCAddressOf
    Unreadable = {"blocked_asns"}
    Width4 = 2
    Width6 = 3
    CategoryOf <- MCCategoryOf
    Asns <- MCAsns
    Regions <- MCRegions
    LengthOf <- MCLengthOf
    Requests <- MCRequests
    Configs <- MCConfigs
    MaxCommands = 2
    MaxStarts = 2
    MaxEdits = 1
INVARIANTS
    TypeOK
    OperatorsDecide
    ConfigReachesThePipeline
    EdgeFollowsPolicies
    RuleIsFullest
PROPERTY CommandsTakeEffect
