SPECIFICATION FairSpec
CONSTANTS
    ess = ess
    load = load
    bus = bus
    s1 = s1
    none = none
    Nodes <- MCNodes
    Loads <- MCLoads
    Lines <- MCLines
    SwitchesOf <- MCSwitchesOf
    MainSwitch <- MCMainSwitch
    DbLines <- MCDbLines
    DbSwitches = {s1}
    DbClosed = {s1}
    MaxChanges = 2
    MaxInbox = 2
    MaxFaults = 2
INVARIANTS
    AnswerIsPlant
PROPERTIES
    GraphFollowsPlant
