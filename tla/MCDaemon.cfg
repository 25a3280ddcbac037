SPECIFICATION Spec
CONSTANTS
    d1 = d1  d2 = d2  c1 = c1  c2 = c2  o1 = o1
    NoPid = NoPid  Torn = Torn
    Daemons <- MCDaemons
    Clients <- MCClients
    Operators <- MCOperators
    MaxRequests = 1
INVARIANTS ServingIsFound StopStops
PROPERTIES EveryClientLetGo
CHECK_DEADLOCK FALSE
