SPECIFICATION FairSpec
CHECK_DEADLOCK FALSE
CONSTANTS
    Tabs = {"t1", "t2"}
    Files <- MCFiles
    Size <- MCSize
    Key <- MCKey
    Fingerprint <- MCFingerprint
    Batches <- MixedBatches
    PART_SIZE_BYTES = 2
    PART_RETRY_ATTEMPTS = 2
    MaxUploads = 4
    MaxFaults = 1
    MaxInterrupts = 1
INVARIANTS ObjectIsWholeFile OnlyMissingPartsAreSent
PROPERTIES ImplementsUpload EventuallyUploaded
