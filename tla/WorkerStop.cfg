SPECIFICATION FairSpec
CONSTANTS
    NumWorkers = 1
    Actors = {a1}
    Client = client
    IngressBudget = 1
    ActorBudget = 1
    AdminOps = {}
    MaxTraffic = 1
PROPERTY StopTakesEffect
CHECK_DEADLOCK FALSE
