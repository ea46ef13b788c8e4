SPECIFICATION FairSpec
CONSTANTS
    Send = {s1}
    Compact = {}
    Trusted = {t1}
    Handoff = {h1}
    Fence = {f1}
    Upkeep = {u1}
    None = None
    MaxStop = 1
    MaxFault = 1
    MaxDelete = 1
CHECK_DEADLOCK FALSE
INVARIANTS
    TypeOK
    PermitsComeBack
    DrainedIsAlone
    NothingOutlivesErasure
PROPERTIES
    InterruptorIsNext
    LeaseComesBack
    DeletionEnds
