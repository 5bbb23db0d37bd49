CONSTANTS
    Fields = {"page", "editor"}
    NoField = "none"
    Apps = {"browser", "editor"}
    Domains = {"d1", "d2"}
    NoDomain = "none"
    MaxRecords = 2
    RingCapacity = 2
    AppOf <- MCAppOf
    Browsers = {"browser"}
    Excluded = {"d2"}
    BufferCap = 2
    KeyFields = {"page"}
    MaxReports = 1
    MaxTyped = 3
    MaxAccepts = 0
    MaxChanges = 2
    MaxErases = 0
SPECIFICATION Spec
CHECK_DEADLOCK FALSE
INVARIANTS
    AgreedToRemember
