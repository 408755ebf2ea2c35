SPECIFICATION Spec
CONSTANTS
    Ports = {"window", "focus", "tex", "texture"}
    Values = {0, 1, 5}
    WindowLen = 2
    LightLen = 2
    TexSlots = 2
    MaxLog = 6
INVARIANTS
    SettingsAsWritten
    UploadsAsWritten
CHECK_DEADLOCK FALSE
