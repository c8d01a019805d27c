SPECIFICATION Spec
CONSTANTS
    ByteBits = 2
    alice = alice  bot = bot
    Covers <- FencedCovers
    Payloads <- FencedPayloads
    Signers = {alice, bot}
    ClaimBits <- MCClaimBits
    r1 = r1  r2 = r2  r3 = r3
    Digest <- MCDigest
    Strays = {"zw0", "ws+"}
    CleanSelections <- MCCleanSelections
    Sparseness = 2
    NoBits = NoBits  NoClaim = NoClaim  Nobody = Nobody
    MaxMarks = 2
    MaxSteps = 2
CHECK_DEADLOCK FALSE
PROPERTIES
    CodeUntouched
