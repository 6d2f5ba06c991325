\* A whitelisted network, and a request from it.
SPECIFICATION Spec
CONSTANTS
    Hosts <- MCHosts
    Nets = {"net"}
    AddressOf <- MCAddressOf
    Unreadable = {}
    Width4 = 2
    Width6 = 3
    CategoryOf <- MCCategoryOf
    Asns <- MCAsns
    Regions <- MCRegions
    LengthOf <- MCLengthOf
    Requests <- MCRequests
    Configs <- MCNetwork
    MaxCommands = 0
    MaxStarts = 2
    MaxEdits = 1
PROPERTY WhitelistIsHonoured
