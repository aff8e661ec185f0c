SPECIFICATION Spec
CONSTANTS
    Events <- MCEvents
    Batches <- MCBatches
    IdOf <- MCIdOf
    PowerFailsAnytime = FALSE
    MaxCrashes = 2
    MaxPowerLosses = 2
INVARIANTS
    LedgerIsSound
PROPERTIES
    ImplementsAppendLog
