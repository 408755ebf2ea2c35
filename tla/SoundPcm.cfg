SPECIFICATION Spec
CONSTANTS
    Ring = 6
    Target = 3
    Chunk = 2
    CountMod = 16
    Period = 2
    SerialMod = 7
INVARIANTS
    PcmInv
    PlaysInOrder
PROPERTIES
    CallsReturn
