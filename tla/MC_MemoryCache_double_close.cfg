CONSTANTS
    k1 = k1
    k2 = k2
    Text = Text
    Never = Never
    Absent = Absent
    Keys <- MCKeys
    Matches <- MCMatches
    MaxVal = 1
    DefaultTTL = 2
    TTLs <- MCTTLs
    MaxTime = 2
SPECIFICATION Spec
\* The process ends when Close panics: nothing runs after that state.
CHECK_DEADLOCK FALSE
INVARIANT
    CloseIdempotent
