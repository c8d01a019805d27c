SPECIFICATION Spec
CONSTANTS
    Servers = {srv}
    Agents = {agt}
    Slots = {r1, r2}
    NoSlot = NoSlot
    en = en  fr = fr  xx = xx  own = own
    Languages = {en, fr, xx}
    Known = {en, fr}
    DefaultLanguage = en
    Tokens = {own}
    Blank = Blank
    Absent = Absent  Empty = Empty  Garbled = Garbled
    Updates <- MCUpdates
    HandWritten <- MCHandWritten
    NoCaller = NoCaller
    MaxStarts = 3
    MaxRequests = 3
    MaxHands = 0
CHECK_DEADLOCK FALSE
INVARIANTS
    ToldSurvives
