SPECIFICATION Spec
CONSTANTS
    Reader = Reader
    Server = Server
    Apps = {app1, app2}
    QueueSize = 2
    MaxMsgs = 4
INVARIANTS
    InOrder
    ClosedOnce
PROPERTIES
    SessionEnds
    Handles
\* The session may end, or lie idle.
CHECK_DEADLOCK FALSE
