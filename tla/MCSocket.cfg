SPECIFICATION Spec
CONSTANTS
    srv = srv  c1 = c1
    NULL = NULL
    Servers = {srv}
    Clients = {c1}
    SOCKET_COUNT = 4
    PENDING_COUNT = 2
    SOCKET_BUFFER_SIZE = 2
    ServerPort = 1
    FirstPort = 2
    LastPort = 3
    Writers = {c1,srv}
    Shutters = {srv}
    Reads = {2}
    Writes = {3}
    MaxBytes = 3
    Orderly = TRUE
INVARIANTS
    NoLostWakeup
    
    EofIsTrue
    ConnectIsAccepted
CHECK_DEADLOCK FALSE
