SPECIFICATION Spec
CONSTANTS
    Requests = {r1, r2}
    MaxLeaves = 3
    MaxFaults = 1
    Root <- MerkleRoot
PROPERTY Resumes
CHECK_DEADLOCK FALSE
