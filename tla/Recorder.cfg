SPECIFICATION Spec
CONSTANTS
    MaxFrames = 5
INVARIANTS
    RecorderInv
PROPERTIES
    ReportAddsUp
    SinkSpec
