SPECIFICATION PartsSpec
CONSTANTS
    Servers = {srv}
    Agents = {agt}
    Slots = {r1, r2}
    NoSlot = NoSlot
    en = en  fr = fr  xx = xx  own = own
    Languages = {en, fr, xx}
    Known = {en, fr}
    DefaultLanguage = en
    Tokens = {own}
    Blank = Blank
    Absent = Absent  Empty = Empty  Garbled = Garbled
    Updates <- MCUpdates
    HandWritten <- MCHandWritten
    NoCaller = NoCaller
    MaxStarts = 3
    MaxRequests = 3
    MaxHands = 1
    Process = {pid}
    NoFile = NoFile  TornFile = TornFile
    Parts = 2
    Timeout = 2
    MaxRuns = 1
    MaxPrints = 2
SYMMETRY MCSymmetry
CHECK_DEADLOCK FALSE
INVARIANTS
    EditsInForce
    StoredIsInForce
    WrittenIsUsable
    NoOpenSurface
    OwnPage
    NothingLeft
PROPERTIES
    CallEnds
