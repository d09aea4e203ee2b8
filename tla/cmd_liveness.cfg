SPECIFICATION FairSpec
CONSTANTS
    Devices = {d1}
    Goals = {g1}
    Operators = {}
    MaxRetries = 1
    MaxRuleCommands = 2
    MaxOperatorCommands = 0
    MaxCrashes = 1
    Statuses = {"ACCEPTED"}
    LateAcks = FALSE
    DuplicateAcks = FALSE
    SlowCalls = FALSE
    RedisFails = FALSE
INVARIANTS
    AtMostTwoLiveAttempts
PROPERTIES
    CommandConcludes
