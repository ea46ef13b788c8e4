SPECIFICATION
    FairSpec
CONSTANTS
    User <- UserMessages
    Machine <- MachineMessages
    MaxFault = 2
INVARIANTS
    TypeOK
    KeptOnce
    SendOrder
    FallenIsReadByNext
PROPERTIES
    HandoverEnds
    ExitIsWoken
CHECK_DEADLOCK
    FALSE
