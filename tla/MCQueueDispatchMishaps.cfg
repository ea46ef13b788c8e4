SPECIFICATION Spec
CONSTANTS
    Item = {1, 2}
    Reluctant = {1}
    Other = {"continued", "sender"}
    Mishap = {"policy", "fault", "stop", "slow", "close"}
    MaxBoot = 1
    MaxExtra = 1
    None = None
INVARIANTS
    TypeOK
PROPERTIES
    StartsAtMostOnce
    SettledStays
    DeliverySafe
CHECK_DEADLOCK FALSE
