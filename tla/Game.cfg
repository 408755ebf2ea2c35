CONSTANTS
    Rows <- MCRows
    Ids <- MCIds
    Opening <- MCOpening
    Laps <- MCLaps
    Splash = 3
    Pumps = 3
    Ramp = 2
    RampEnd = 2
    Intro = 1
    Digit = 1
    LightsEnd = 4
    Coast = 2
    Gift = 1
    Mid = 0
    Short = 0
    Long = 0
    Farewell = 3
    BootHold = 1
    CopyHold = 1
    Warmup = 1
    Holds <- MCHolds
    Scripts <- MCScripts
    SelectTime = 2
    Armed = 1
    ExitItem = 1
    ExitHold = 1
    MaxPlays = 1
SPECIFICATION Spec
INVARIANT GameInv
INVARIANT ClockIsEarned
INVARIANT TexturesReady
PROPERTY OnlyWhenEarned
PROPERTY KeepsMoving
