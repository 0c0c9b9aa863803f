SPECIFICATION FairReaderSpec
CONSTANTS
    MaxLate = 1
    Commands <- MCCommands
    Timeout = 2
    ClockWidth = 4
    MaxStream = 2
INVARIANTS
    TypeOK
PROPERTIES
    ImplementsChannel
    WaitEnds
