SPECIFICATION FairSpec
CONSTANTS
    None = None
    MaxHandles = 2
    MaxRequests = 3
    Handles <- MCHandles
    Stamps <- MCStamps
INVARIANTS
    CellIsOfLiveHandle
    PromptIsItsOwn
PROPERTIES
    AnswersInOrder
    ServesUntilShutdown
CHECK_DEADLOCK FALSE
