SPECIFICATION OneOrShared
CONSTANTS
    zw = zw  ws = ws  hg = hg  s1 = s1  s2 = s2
    Inserting = {ws}
    Overflowing = {zw}
    Rewriting = {hg}
    Rank <- MCRank
    Keyed = {aes256_gcm}
    Legacy = {xor}
    Secrets = {s1}
    Noise = noise
    Passcodes = {p1, p2}
    Covers <- MCCovers
    Packages = {zw}
    CandidateSets <- MCCandidateSets
    CipherOffers = {{aes256_gcm, xor}, {aes256_gcm}}
    MaxStack = 2
    MaxComposes = 1
    MaxDamage = 1
SYMMETRY SharedSymmetry
INVARIANTS
    AuthenticatedAnswer
    RoundTrip
    CopiesAgree
    TraceTellsAnswer
    RecoveredTruth
PROPERTIES
    ComposeIsWhole
