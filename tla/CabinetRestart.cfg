CONSTANTS
    Limit = 1
    InitFiles <- MCFreshFiles
    Cuts = {0}
    MaxBoots = 2
    MaxCoins = 2
    MaxService = 1
SPECIFICATION Spec
INVARIANT SaveKeepsCoinage
CHECK_DEADLOCK FALSE
