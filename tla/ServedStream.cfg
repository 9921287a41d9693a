SPECIFICATION ServedSpec
CONSTANTS
    Streams <- MCStreams
    SpaceChar <- MCSpaceChar
    Prefix <- MCPrefix
    Escaped <- MCEscaped
    StopLists <- MCStopLists
    w1 = w1
    w2 = w2
    p1 = p1
    p2 = p2
    p3 = p3
    Workers = {w1, w2}
    Producers = {p1, p2, p3}
    WorkerOf <- TwoAndOne
    None = None
    MaxSize = 1
    MaxPuts <- FirstTwice
INVARIANT StreamMatchesDecode
INVARIANT EmittedIsCertain
INVARIANT ReturnedTextIsExact
INVARIANT NoStopStringMissed
INVARIANT JoinCountsTheItemsLeft
INVARIANT NoLostWakeup
INVARIANT WorkersKeepToTheirOwn
PROPERTY EndReleasesAll
CHECK_DEADLOCK FALSE
