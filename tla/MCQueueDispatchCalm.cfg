SPECIFICATION FairSpec
CONSTANTS
    Item = {1, 2, 3}
    Reluctant = {1}
    Other = {}
    Mishap = {}
    MaxBoot = 0
    MaxExtra = 2
    None = None
INVARIANTS
    NothingForgotten
PROPERTIES
    StartsInOrder
    DeliveryPromise
CHECK_DEADLOCK FALSE
