SPECIFICATION Spec
CONSTANTS
    Devices = {d1}
    Goals = {g1}
    Operators = {op1}
    MaxRetries = 1
    MaxRuleCommands = 1
    MaxOperatorCommands = 1
    MaxCrashes = 0
    Statuses = {"ACCEPTED"}
    LateAcks = TRUE
    DuplicateAcks = FALSE
    SlowCalls = FALSE
    RedisFails = TRUE
INVARIANTS
    OneVerdictPerCommand
