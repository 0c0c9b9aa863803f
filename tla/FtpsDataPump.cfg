SPECIFICATION FairSpec
CONSTANTS
    MaxLength = 5
    Size = 4
    Timeout = 3
    Poll = 2
    ClockWidth = 7
INVARIANTS
    TypeOK
    BufferHolds
    SuccessIsWhole
    TimeoutInTime
PROPERTIES
    TransferEnds
