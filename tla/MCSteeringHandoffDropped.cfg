SPECIFICATION
    Spec
CONSTANTS
    User <- UserMessages
    Machine <- MachineMessages
    MaxFault = 0
INVARIANTS
    NoAdmittedMessageDropped
CHECK_DEADLOCK
    FALSE
