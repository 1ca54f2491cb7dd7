SPECIFICATION Spec
CONSTANTS
    front = front
    middle = middle
    back = back
    Services = {front, middle, back}
    Outside = Outside
    None = None
    GuardOf <- MCGuardOf
    Signing = {}
    Limit = 1
    MaxRequests = 3
INVARIANT TargetNamesReceiver
\* All requests may be answered.
CHECK_DEADLOCK FALSE
