SPECIFICATION AnswersSpec
CONSTANTS
    c1 = c1
    c2 = c2
    p1 = p1
    p2 = p2
    Calls <- MCCalls
    Asked <- MCAsked
    MaxRows = 2
    LatestRows = 2
    MaxFailures = 2
    Posts <- MCPosts
    Bodies <- MCBodies
    MaxGets = 1
    Orders <- MCOrders
    Epochs = 3
    MaxRmse = 2
    MaxSessions = 2
    Devices = {"ess", "solar"}
    Issuers = {"operator", "rule"}
    OperatorRequests <- MCOperators
    RuleRequests <- MCRules
    MaxPageSize = 2
    PageSizes = {1, 3}
    MaxCommands = 4
INVARIANTS
    ResumeContinues
CHECK_DEADLOCK FALSE
