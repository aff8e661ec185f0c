SPECIFICATION FairResearch
CONSTANTS
    Workers = {"scheduler", "operator"}
    LastDay = 3
    WarmupCounts = {0, 1}
    FailingDays = {3}
    Reasons = {1}
    MaxInterruptions = 2
INVARIANTS
    PublicationIsSound
    OnlyIntrusionsBlockRetries
PROPERTIES
    ImplementsChronicle
    SessionsAreCompleted
