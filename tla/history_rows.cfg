SPECIFICATION HistorySpec
CONSTANTS
    Devices = {d1}
    Goals = {g1}
    Operators = {}
    MaxRetries = 1
    MaxRuleCommands = 1
    MaxOperatorCommands = 0
    MaxCrashes = 1
    Statuses = {"ACCEPTED", "REJECTED"}
    LateAcks = TRUE
    DuplicateAcks = TRUE
    SlowCalls = TRUE
    RedisFails = TRUE
    DbFails = TRUE
    StaleRows = TRUE
INVARIANTS
    NoRuleAckOrphaned
    VerifiedOnceWhenAccepted
    AnswerRowsAreTrue
PROPERTIES
    AnswerIsFinal
    DeliversAsPromised
