SPECIFICATION FairSpec
CONSTANTS
    NumWorkers = 1
    Actors = {a1}
    Client = client
    IngressBudget = 0
    ActorBudget = 0
    AdminOps = {}
    MaxTraffic = 1
PROPERTY EveryPassEnds
CHECK_DEADLOCK FALSE
