SPECIFICATION Spec
CONSTANTS
    PreambleBits = 192
    MarkerBits = 32
    MinSpacing = 64
    MaxSpacing = 512
    HeaderPlain = 8
    HeaderSealed = 24
    LengthField = 65535
    SpanRounds = 64
    Seals <- MCSeals
    Slots <- MCLongSlots
    Around <- MCAround
INVARIANTS
    EncodeAcceptsReported
