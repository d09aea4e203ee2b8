SPECIFICATION FairSpec
CONSTANTS
    Devices = {d1}
    Goals = {g1}
    Operators = {}
    MaxRetries = 1
    MaxRuleCommands = 2
    MaxOperatorCommands = 0
    MaxCrashes = 0
    Statuses = {"ACCEPTED"}
    LateAcks = TRUE
    DuplicateAcks = FALSE
    SlowCalls = FALSE
    RedisFails = FALSE
PROPERTIES
    CommandConcludes
