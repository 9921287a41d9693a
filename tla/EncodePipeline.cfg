CONSTANTS
    Compat <- MCCompat
    MarkClass <- MCMarkClass
    Composite <- MCComposite
    LowerCase <- MCLowerCase
    CaseFold <- MCCaseFold
    FinalCase <- MCFinalCase
    Letter <- MCLetter
    Blank <- MCBlank
    Digit <- MCDigit
    Mark <- MCMark
    Format <- MCFormat
    Listed <- MCListed
    Extend <- MCExtend
    Prepend <- MCPrepend
    Control <- MCControl
    Bytes <- MCBytes
    Replacement <- MCReplacement
    DefaultByte <- MCDefaultByte
    Cases <- MCCases
SPECIFICATION Spec
CHECK_DEADLOCK FALSE
INVARIANT PathsAgree
INVARIANT OffsetsCoverText
INVARIANT RoundTrip
