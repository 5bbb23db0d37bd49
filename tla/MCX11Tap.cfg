SPECIFICATION FairSpec
CONSTANTS
    None = None
    Maps = {"m1", "m2"}
    StartMap = "m1"
    Layouts = {"l1", "l2"}
    StartLayout = "l1"
    QueueCap = 2
    MaxShows = 2
    MaxInputs = 2
CHECK_DEADLOCK FALSE
INVARIANTS
    KeysFollowSuggestion
    ControlsWereEaten
PROPERTIES
    KeyboardIsGivenBack
