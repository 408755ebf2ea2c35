CONSTANTS
    Limit = 1
    InitFiles <- MCInitFiles
    Cuts = {0, 3, 12}
    MaxBoots = 2
    MaxCoins = 3
    MaxService = 1
SPECIFICATION Spec
INVARIANT CabinetTypeOK
INVARIANT BooksBalance
INVARIANT AlwaysUsable
PROPERTY BootRestoresPlays
CHECK_DEADLOCK FALSE
