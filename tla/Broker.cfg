SPECIFICATION Spec
CONSTANTS
    b1 = b1
    b2 = b2
    c1 = c1
    c2 = c2
    Brokers = {b1, b2}
    Clients = {c1, c2}
    MaxClients = 1
CHECK_DEADLOCK FALSE
INVARIANTS
    SocketIsServed
    OneWorker
PROPERTIES
    EveryRequestEnds
