SPECIFICATION Spec
CONSTANTS
    FileKeys = {file}
    SentinelKeys = {flow}
    MaxRev = 3
    MaxFaults = 1
INVARIANTS
    TypeOK
    
    FreshAfterDelete
    NotifiedOnce

    
\* The loader may be closed and etcd may be left alone.
CHECK_DEADLOCK FALSE
