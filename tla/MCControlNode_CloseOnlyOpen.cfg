CONSTANTS
    c1 = c1
    c2 = c2
    Clients <- MCClients
    Requests <- MCRequests
    Caps <- MCCaps
    Trimmed <- MCTrimmed
    MaxReqs = 1
    NoFd = NoFd
    NoValue = NoValue
    StatSources = {0}
SPECIFICATION CnSpec
PROPERTY CloseOnlyOpen
CHECK_DEADLOCK FALSE
