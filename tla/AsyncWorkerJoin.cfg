SPECIFICATION Spec
CONSTANTS
    w1 = w1
    w2 = w2
    p1 = p1
    p2 = p2
    p3 = p3
    Workers = {w1}
    Producers = {p1, p2, p3}
    WorkerOf <- AllToFirst
    None = None
    MaxSize = 1
    MaxPuts <- FirstTwice
PROPERTY DrainReleasesJoin
CHECK_DEADLOCK FALSE
