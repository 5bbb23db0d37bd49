SPECIFICATION FairSpec
CONSTANTS
    None = None
INVARIANTS
    LatestIsAwaited
    VetoedIsSilent
    SecureIsDark
PROPERTIES
    EdgeIsUndone
