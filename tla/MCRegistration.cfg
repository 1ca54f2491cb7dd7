SPECIFICATION Spec
CONSTANTS
    Ops = {o1, o2}
    Stopper = Stopper
    Nobody = Nobody
    MaxRegs = 2
    MaxFaults = 1
INVARIANTS
    TypeOK
    StatusMatchesKey
    DeregisteredStaysGone
PROPERTIES
    ReportsAgain
    ShutdownCompletes
    ImplementsEntry
\* The process may end, and then nothing is left to do.
CHECK_DEADLOCK FALSE
