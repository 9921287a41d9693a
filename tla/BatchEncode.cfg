SPECIFICATION Spec
CONSTANTS
    Workers = {w1, w2, w3}
    Rows = 4
    None = None
SYMMETRY Symmetry
INVARIANT NothingStaleSurvives
INVARIANT BatchMatchesSequential
CHECK_DEADLOCK FALSE
