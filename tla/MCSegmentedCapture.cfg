SPECIFICATION FairCapture
CONSTANTS
    SegmentRows = 2
    LastRow = 5
    CatalogueMayFail = TRUE
    ReadsMayFail = TRUE
    MaxFailures = 2
INVARIANTS
    CaptureIsSound
PROPERTIES
    ImplementsDataset
    CaptureIsFollowed
