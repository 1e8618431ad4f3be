\* One process with either kind of store; a text of four characters; the flush
\* thread and close(), one after the other, failures and crashes.
CONSTANTS
    Process = {p1}
    Type <- MCType
    Value <- MCValue
    Digits <- MCDigits
    Suffix <- MCSuffix
    Nothing = Nothing
    Length = 4
    Patterns <- MCPatterns
    MaxMatches = 3
    Mapping = {a, b}
    Daemon = {daemon}
    Closer = {main}
    Overlap = FALSE
SPECIFICATION MCFairSpec
INVARIANTS RedactionTypeOK Reversible Stable RestoredExactly LosesOnlyToStronger
PROPERTIES EveryCallReturns SavedForGood EventuallySaved
