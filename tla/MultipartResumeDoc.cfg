SPECIFICATION Spec
CHECK_DEADLOCK FALSE
CONSTANTS
    Tabs = {"t1"}
    Files <- MCFiles
    Size <- MCSize
    Key <- MCKey
    Fingerprint <- MCFingerprint
    Batches <- OneBatch
    PART_SIZE_BYTES = 2
    PART_RETRY_ATTEMPTS = 2
    MaxUploads = 4
    MaxFaults = 1
    MaxInterrupts = 1
PROPERTIES ResumesWhatS3StillHas
