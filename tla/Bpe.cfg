SPECIFICATION BpeSpec
CONSTANTS
    Inputs <- MCInputs
    Words <- MCWords
    Unknowns <- MCUnknowns
PROPERTY ImplementsBpeRule
PROPERTY ImplementsBpeSegmentation
PROPERTY EndsAsTrained
CHECK_DEADLOCK FALSE
