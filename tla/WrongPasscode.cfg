SPECIFICATION Spec
CONSTANTS
    zw = zw  ws = ws  hg = hg  s1 = s1  s2 = s2
    Inserting = {ws}
    Overflowing = {zw}
    Rewriting = {hg}
    Rank <- MCRank
    Keyed = {aes256_gcm}
    Legacy = {xor}
    Secrets = {s1}
    Noise = noise
    Passcodes = {p1, p2}
    Covers <- MCCovers
    Packages = {}
    CandidateSets <- MCCandidateSets
    CipherOffers = {{aes256_gcm, xor}, {aes256_gcm}}
    MaxStack = 1
    MaxComposes = 1
    MaxDamage = 0
SYMMETRY MCSymmetry
INVARIANTS
    WrongPasscodeRefused
