SPECIFICATION FifoSpec
CONSTANTS
    Cap = 3
    TotalMod = 6
    MaxWords = 8
    MaxFrame = 5
    MaxGen = 3
INVARIANTS
    FifoTypeOK
    DisplaySliceIsFrame
    NoFrameSpansUpload
    FramesAreDisjoint
PROPERTIES
    LatchLosesOnlyWrappedFrame
CHECK_DEADLOCK FALSE
