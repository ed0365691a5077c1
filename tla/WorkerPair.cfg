SPECIFICATION FairSpec
CONSTANTS
    NumWorkers = 2
    Actors = {a1, a2}
    Client = client
    IngressBudget = 1
    ActorBudget = 1
    AdminOps = {"inspect"}
    MaxTraffic = 1
INVARIANTS RoutingSound IdleIsQuiet
 
CHECK_DEADLOCK FALSE
