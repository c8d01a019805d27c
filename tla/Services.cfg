SPECIFICATION Spec
CONSTANTS
    k1 = k1  k2 = k2
    Key = {k1, k2}
    Limit <- MCLimit
    Server = {a, b}
    Request = {q1, q2}
    Tables <- MCTables
    NoKey = NoKey
    Minute = 2
    MaxTime = 3
    MaxStarts = 2
    MaxCalls = 3
    Window = {v, w}
    Own = {Nothing, theirs}
    Command = {c1, c2}
    Nothing = Nothing  None = None
    MaxSaves = 1
    MaxClicks = 3
CHECK_DEADLOCK FALSE
SYMMETRY MCSymmetry
INVARIANTS
    OnlyKeysPass
    NothingLost
PROPERTIES
    RateKept
    StartsWithAKey
    Metered
