SPECIFICATION Spec
CONSTANTS
    Versions = {v1, v2}
    NoVersion = NoVersion
    MaxOperations = 5
    MaxCrashes = 3
INVARIANTS
    PrefixIsSound
    InterruptionsRecover
PROPERTIES
    ImplementsSwitch
