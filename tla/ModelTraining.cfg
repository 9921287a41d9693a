SPECIFICATION TrainingSpec
CONSTANTS
    Script <- MCScript
    Marks <- MCMarks
    SpecialForms <- MCSpecialForms
    ByteTokens <- MCByteTokens
    CjkLimit = 2
    Inputs <- MCInputs
    SubMax = 2
    SmallExcess = 1
    LastRound = 3
    NativeNgram = 3
    UnkToken <- MCUnkToken
    Space = 5
    StreamLimit = 3
    CemOptions <- MCCemOptions
    LogProbOf <- MCLogProbOf
    UncoveredAs <- MCUncoveredAs
CHECK_DEADLOCK FALSE
INVARIANT VocabularyIsStable
INVARIANT ScriptsAreBalanced
INVARIANT StreamsAreExact
PROPERTY EndsAtTarget
PROPERTY ImplementsCemRule
