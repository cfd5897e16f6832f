SPECIFICATION Spec
CONSTANTS
    Clients = {c1, c2}
    k1 = k1
    k2 = k2
    Keys <- MCKeys
    Commands <- MCCommands
    MaxRequests = 3
    Threads = {t1, t2}
    NumServers = 2
    None = None
INVARIANTS TypeOK ReplicasDifferOnlyAfterRaces
PROPERTIES ImplementsStore
SYMMETRY Symmetry
CHECK_DEADLOCK FALSE
