SPECIFICATION FairSpec
CONSTANTS
    s1 = s1
    s2 = s2
    s3 = s3
    Slots <- MCSlots
    TimeWait = 4
    Backoff1 = 1
    Backoff2 = 2
    ClockWidth = 4
    Uploads = 2
    NsapiCodes <- MCNsapiCodes
    NoSlot = NoSlot
INVARIANTS
    TypeOK
    NoStoreOnLostSession
    PausesDrainPool
    BatchAccounted
PROPERTIES
    BatchEnds
