SPECIFICATION PartsSpec
CONSTANTS
    ByteBits = 2
    alice = alice  bot = bot
    Covers <- MCCovers
    Payloads <- MCPayloads
    Signers = {alice, bot}
    ClaimBits <- MCClaimBits
    r1 = r1  r2 = r2  r3 = r3
    Digest <- MCDigest
    Strays = {"zw0", "ws+"}
    CleanSelections <- MCCleanSelections
    Sparseness = 2
    NoBits = NoBits  NoClaim = NoClaim  Nobody = Nobody
    MaxMarks = 3
    MaxSteps = 3
    Unsigned = Unsigned
    TextFiles <- MCTextFiles
    OfficeFiles <- MCOfficeFiles
    Secrets <- MCSecrets
    Authors = {alice, bot}
    Pasted = {"zw0", "ws1"}
    FileSelections <- MCFileSelections
    MaxOps = 3
    Ciphers = {"chacha20_poly1305", "xor"}
    p1 = p1  p2 = p2  k1 = k1  k2 = k2
    Passcode = {p1, p2}
    Recipient = {k1, k2}
    Opening <- MCOpening
    Chosen <- MCChosen
    Typed <- MCTyped
    Names <- MCNames
    MaxNote = 13
    Group = {"big", "fast"}
    Master = {"ours", "theirs"}
    Magic <- MCMagic
    Ones <- MCOnes
    Typings <- MCTypings
    Replies <- MCReplies
    Slack = 1
    MaxCalls = 4
    m1 = m1  m2 = m2
    Machine = {m1, m2}
    NoMachineId = NoMachineId
    MachineId <- MCMachineId
    LicenceCovers <- MCLicenceCovers
    OldLicences <- MCOldLicences
    PackageBits <- MCPackageBits
    Retypes = {"latin"}
    HostNames <- MCHostNames
    FirstNames <- MCFirstNames
    Terms <- MCTerms
    Dates <- MCDates
    NoTerm = NoTerm  NoDeed = NoDeed  Unbound = Unbound
    MaxUses = 3
SYMMETRY MCAlike
CHECK_DEADLOCK FALSE
INVARIANTS
    FileTypeOK
    MarksReadBack
    RestoresTheText
    VerdictIsHistory
    RoomIsKept
    TracedWhileWhole
    WriteBackKeeps
    CleanHolds
    ClaimTellsEdits
    AnswersAreTrue
    OnlyTheAddressed
    OwnersRead
    AttachmentsReturn
    SignatureStands
    LicenceVerdict
PROPERTIES
    CodeUntouched
