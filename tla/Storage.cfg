SPECIFICATION StorageSpec
CONSTANTS
    Chunks = {1, 2, 3, 4}
    ChunkBudgets = {1, 2}
    MaxOpenRuns = 2
    SparseIndexStep = 2
    Adds <- MCAdds
    Sets <- MCSets
    None = None
    MaxWrites = 5
    MaxCount = 2
    MaxFailures = 1
    Strings = {"a", "b"}
    Scores = {1, 2, 3}
    Narrow = {1, 2}
    Settings = {"plain", "odd"}
    Acceptable = {"plain"}
    Malformed = "malformed"
    Engines = {"fast", "reference"}
    Custom = Custom
    Nothing = Nothing
    MaxTokenizers = 2
    Tokenizers <- MCTokenizers
    Single <- MCSingle
INVARIANT NothingLost
INVARIANT ReadsAreExact
INVARIANT LoadsAreWhole
INVARIANT LastSaveIsLoaded
PROPERTY LostRunsNeverAnswer
PROPERTY FinalizeEnds
CHECK_DEADLOCK FALSE
