SPECIFICATION Spec
CONSTANTS
    Requests = {r1, r2, r3}
    Threads = {t1, t2}
    States = {s1, s2, s3, s4}
    None = None
    MaxFinished = 2
    MaxHeld = 1
SYMMETRY Symmetry
INVARIANT ActiveNotFinished
INVARIANT RegistryIsOrdered
INVARIANT EndedIsRemembered
PROPERTY NoTextLeftBehind
PROPERTY ImplementsLifecycle
