SPECIFICATION FairDrive
CONSTANTS
    Sources <- MCSources
    Items = 2
    Months = 2
    MonthsOf <- MCMonthsOf
    Pages = 2
    MaxRequests = 1
    MaxFaults = 2
    Slots = 2
    Minutes = {"00", "30"}
    Unserved <- MCUnserved
    Attempts = 2
    Hours = 4
    SequenceLength = 2
    Gaps = 1
INVARIANTS
    RowsAreTheirImages
    KeptIsOneAnswer
    EndedIsTold
PROPERTIES
    ArchiveComesHome
    RangeComesHome
