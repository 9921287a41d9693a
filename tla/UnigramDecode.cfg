CONSTANTS
    Bytes <- MCBytes
    Replacement <- MCReplacement
    DefaultByte <- MCDefaultByte
    Unk <- MCUnk
    FastPathMaxLen = 3
    Callers <- MCCallers
    Batches <- MCBatches
    Worker = {w1, w2}
    ParallelFrom = 3
    MaxChunkBytes = 3
    NativeCap = 2
    MaxCacheText = 3
    MaxCacheSize = 2
SPECIFICATION Spec
CHECK_DEADLOCK FALSE
INVARIANT AnswersAreBest
INVARIANT TablesAreExact
INVARIANT LatticeIsExact
