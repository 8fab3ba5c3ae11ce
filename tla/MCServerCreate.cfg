SPECIFICATION Spec
CONSTANTS
    Inputs <- SomeInputs
    Disks <- SomeDisks
    UInt16Max = 65535
    UInt32Max = 2000000000
    MaxPaths = 2
    WSTexts = {"WSOPEN", "WSMESSAGE", "WSCLOSE", "WSPING"}
    Workers = {w1}
    app = app
    entry = entry
    None = None
INVARIANTS
    TypeOK
    ConfigAsDescribed
    ListeningComplete
    ScriptPointersHold
    NothingLeftBehind
PROPERTIES
    RegistryCreate
    OnlyScriptlessLeavesHandle
CHECK_DEADLOCK FALSE
