SPECIFICATION DiscoverySpec
CONSTANTS
    n1 = n1
    i1 = i1
    i2 = i2
    ServiceNames = {n1}
    Insts = {i1, i2}
    NameOf <- MCNameOf
    ServerOf <- MCOwnServer
    Clients = {c1, c2}
    Nobody = Nobody
    MaxChanges = 3
    MaxFaults = 1
INVARIANTS
    MadeOnce
PROPERTIES
    NeverBackwards
    ChooseReturns
    Converges
\* The runtime may end the process.
CHECK_DEADLOCK FALSE
