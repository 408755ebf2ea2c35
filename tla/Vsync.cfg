SPECIFICATION Spec
CONSTANTS
    FrameMod = 8
INVARIANTS
    VsyncInv
PROPERTIES
    ReturnsOnToggle
    CallsReturn
