SPECIFICATION Spec
CONSTANTS
    p = p
    q = q
    r = r
    m = m
    None = None
    Proc = {p, q}
    Turn = {1, 2}
    Maint = {m}
    LeaseLen = 1
    Overlap = TRUE
    Faults = TRUE
SYMMETRY Symmetry
CHECK_DEADLOCK FALSE
INVARIANTS
    CompletionIsQuiescent
