SPECIFICATION Spec
CONSTANTS
    i1 = i1
    i2 = i2
    i3 = i3
    r1 = r1
    k1 = k1
    o1 = o1
    o2 = o2
    None = None
    NoPause = NoPause
    Item = {i1, i2, i3}
    Request = {r1}
    DedupeKey = {k1}
    Owner = {o1}
    Cause = {}
    Source = {"api", "task"}
    Input <- TimelessInput
    ClaimLease = 1
    MaxTime = 0
    MaxClaim = 2
    MaxPos = 5
SYMMETRY Symmetry
CHECK_DEADLOCK FALSE
INVARIANTS
    OneRowPerRequest
    RowsDistinct
PROPERTIES
    OrderKept
