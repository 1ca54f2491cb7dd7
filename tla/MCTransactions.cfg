SPECIFICATION FairSpec
CONSTANTS
    g1 = g1
    g2 = g2
    Goroutines = {g1, g2}
    Conns = 2
    MaxDepth = 3
    MaxCalls = 3
    MaxWrites = 3
INVARIANTS
    NoLeak
PROPERTIES
    Outcome
    CallsReturn
\* The goroutines may be done, and may wait for each other's connections.
CHECK_DEADLOCK FALSE
