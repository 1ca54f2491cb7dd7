SPECIFICATION Spec
CONSTANTS
    Ops = {o1}
    Stopper = Stopper
    Nobody = Nobody
    MaxRegs = 2
    MaxFaults = 1
PROPERTY LostEntryIsReported
CHECK_DEADLOCK FALSE
