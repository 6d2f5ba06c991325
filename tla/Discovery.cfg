\* Cycles, links, formats that are declared late, and the lines they write.
SPECIFICATION FairSpec
CONSTANTS
    PublicIps = {"peer", "client"}
    PrivateIps = {"inner"}
    StatusOf <- MCStatusOf
    Hosts <- MCHosts
    Values <- MCValues
INVARIANTS
    TypeOK
    FilesAreReadOnce
    NoLogTwice
    EveryLogIsFound
    LinesAreReadBack
PROPERTY DiscoveryEnds
\* A discovery comes to an end.
CHECK_DEADLOCK FALSE
