SPECIFICATION Spec
CONSTANTS
    w1 = w1
    w2 = w2
    p1 = p1
    p2 = p2
    p3 = p3
    Workers = {w1, w2}
    Producers = {p1, p2, p3}
    WorkerOf <- TwoAndOne
    None = None
    MaxSize = 1
    MaxPuts <- FirstTwice
INVARIANT EndsOnNoneOrStop
CHECK_DEADLOCK FALSE
