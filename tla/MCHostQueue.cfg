SPECIFICATION Spec
CONSTANTS
    None = None
    f1 = f1
    f2 = f2
    Fields = {f1, f2}
    Cap = 4
    PerTick = 3
    MaxReports = 6
    Reports <- MCReports
INVARIANTS
    KeysAreKept
PROPERTIES
    PrunesItsOwnCarets
    CoalescingIsInvisible
CHECK_DEADLOCK FALSE
