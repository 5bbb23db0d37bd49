SPECIFICATION EngineSpec
SYMMETRY FieldSymmetry
CONSTANTS
    None = None
    f1 = f1
    f2 = f2
    Fields = {f1, f2}
    CapSet <- MCCaps
    Texts <- MCTexts
    Carets = {1}
    Lists <- MCLists
    Spans <- MCSpans
    Snapshots = {0, 1, 2, 3, 4}
    Times = {0}
    Debounce = 0
    MinContext = 0
    StatCap = 2
INVARIANTS
    ShownIsPainted
    KeyFitsSuggestion
    NothingLeftBehind
    CommitIsReported
    StatsTellOneLifecycle
PROPERTIES
    WritesOnlyWhatIsPainted
    FailedShowRetractsItself
