\* Two gateways, one socket, three events, the second without a name.
SPECIFICATION FairFlowSpec
CONSTANTS
    Gateways = {g1, g2}
    Sockets = {s1}
    MaxEvents = 3
    Nameless = {2}
    Clients <- Pairs
    Limit = 2
    Window = 1
    MaxTime = 4
    None = None
INVARIANTS
    FlowTypeOK
    TwinWindows
    RefusedMeansNotRouted
PROPERTIES
    EventsAreAnswered
CHECK_DEADLOCK FALSE
