SPECIFICATION Spec
CONSTANTS
    TxCap = 8
    UartCap = 5
    FifoCap = 3
    DrainMax = 3
    MaxBytes = 12
INVARIANTS
    MidiInv
PROPERTIES
    LosslessWhenKeptUp
    BytesMoveOn
