SPECIFICATION RulesFairSpec
CONSTANTS
    s1 = s1
    Nodes <- MCNodes
    Loads <- MCLoads
    Lines <- MCLines
    SwitchesOf <- MCSwitchesOf
    Demand = 2
    Suns <- MCSuns
    EssLimit = 1
    MaxSoc = 4
    SocLow = 1
    SocHigh = 4
    SocMargin = 1
    DieselStartSoc = 1
    StartPower = 1
    EngineRating = 3
    StopNet = 0
    MinRun = 2
    FlipHold = 1
    MaxChanges = 2
    fault = fault
    deficit = deficit
    isolated = isolated
    Alerts <- MCAlerts
    InMemory <- MCInMemory
    LastingDeficit = deficit
    Sheddable = {l1, l2}
    Threshold = 2
    Hold = 2
    MaxWorldChanges = 3
    MaxFailures = 1
INVARIANTS
    NotedIsTold
    LimitIsKnown
PROPERTIES
    RunsItsMinimum
    DeficitAnswered
    SurplusStopsEngine
    PublishedOnce
    BadIsTold
    ShortIsShed
CHECK_DEADLOCK FALSE
