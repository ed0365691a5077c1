SPECIFICATION Spec
CONSTANTS
    NumWorkers = 1
    Actors = {a1, a2}
    Client = client
    IngressBudget = 1
    ActorBudget = 1
    AdminOps = {"inspect", "stop", "suspend", "resume"}
    MaxTraffic = 2
INVARIANTS TypeOK RoutingSound IdleIsQuiet OnlyLiveActorsRun MessagesConserved CommandsConserved
PROPERTY ImplementsMail
CHECK_DEADLOCK FALSE
