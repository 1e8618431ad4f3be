\* Two processes that share a store.
CONSTANTS
    Process = {p1, p2}
    Type <- MCType
    Value <- MCValue
    Digits <- MCDigits
    Suffix <- MCSuffix
    Nothing = Nothing
SPECIFICATION Spec
INVARIANT Reversible
