SPECIFICATION FairSpec
CONSTANTS
    p = p
    q = q
    r = r
    m = m
    None = None
    Proc = {p, q, r}
    Turn = {1, 2}
    Maint = {m}
    LeaseLen = 1
    Overlap = FALSE
    Faults = FALSE
CHECK_DEADLOCK FALSE
INVARIANTS
    AcceptedTurnIsServed
    ErasedStaysErased
PROPERTIES
    DeletionFinishes
