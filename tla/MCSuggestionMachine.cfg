SPECIFICATION Spec
SYMMETRY FieldSymmetry
CONSTANTS
    None = None
    f1 = f1
    f2 = f2
    Fields = {f1, f2}
    CapSet <- MCCaps
    Texts <- MCTexts
    Carets = {0, 1, 2}
    Lists <- MCLists
    Spans <- MCSpans
    Snapshots = {0, 1, 2, 3}
    Times = {0, 1}
    Debounce = 1
    MinContext = 1
    StatCap = 1
INVARIANTS
    TypeOK
    ShowingIsCurrent
    SilencedIsQuiet
    CompletionForCurrentText
PROPERTIES
    PreviewIsCommitted
    ImplementsContract
