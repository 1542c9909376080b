SPECIFICATION RetentionSpec
CONSTANTS
    NoProject = NoProject
    Project = {h5}
    Class = {chunk}
    Unknown = unknown
    WhiteScreen = {chunk}
    MaxBatch = 2
    MaxPosted = 3
    MaxRows = 2
    Process = {j1, j2}
    DayLength = 2
    RetentionDays = 1
    BatchLimit = 2
    Horizon = 7
    MaxKept = 5
    MaxSkips = 1
INVARIANTS RetentionIsKept CardsShowTheirEntries
PROPERTY CleanupEnds
