SPECIFICATION FairAcquisition
CONSTANTS
    Processes = {"p1", "p2", "p3"}
    Wide = {"p1", "p2"}
    RegistrationFails = {"p1"}
    MaxReuses = 1
INVARIANTS
    AbandonedIsFound
PROPERTIES
    NoDuplicateCapture
    RequestsAreServed
