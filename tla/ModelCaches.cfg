SPECIFICATION Spec
CONSTANTS
    Contents = {x1, x2, bad}
    Valid = {x1, x2}
    Addresses = {a1, a2}
    SpaceChars = {s1, s2}
    None = None
    Situations = {"alias", "reuse", "partial"}
    MaxModels = 3
    MaxChanges = 2
    MaxEvents = 4
SYMMETRY Symmetry
INVARIANT CachesAreCurrent
INVARIANT AnswersAreCurrent
CHECK_DEADLOCK FALSE
