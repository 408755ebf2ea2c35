SPECIFICATION Spec
CONSTANTS
    Cap = 2
    TotalMod = 6
    MaxWords = 2
    MaxFrame = 5
    MaxGen = 4
    GenMod = 16
    MinWords = 0
    MaxKicks = 3
    MaxUploads = 0
    MaxLosses = 0
INVARIANTS
    DecodeIsCaughtUp
