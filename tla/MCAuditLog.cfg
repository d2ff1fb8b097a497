SPECIFICATION Spec
CONSTANTS
    Requests = {r1, r2}
    MaxLeaves = 7
    MaxFaults = 2
    Root <- MerkleRoot
INVARIANTS
    AcknowledgedKept
    HeadsCoverPrefix
    ProofsVerify
CHECK_DEADLOCK FALSE
SYMMETRY RequestSymmetry
