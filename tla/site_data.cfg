SPECIFICATION FairSpec
CONSTANTS
    Panels <- MCPanels
    Rated = {"p1", "p2"}
    Located = {"p1"}
    Reports <- MCReports
    Nearest <- MCNearest
    Chosen <- MCChosen
    Prompts = {"a", "b"}
    Calls = {c1, c2}
    Nil = Nil
    MaxSaves = 1
    MaxFaults = 1
INVARIANTS ChoiceKept ProfileOfItsPrompt
PROPERTY SettlesOnPanels
