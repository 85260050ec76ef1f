SPECIFICATION DSpec
CONSTANTS
    Caller = {c1, c2, c3, c4}
    NoCaller = NoCaller
    MaxCloseTimers = 3
INVARIANTS
    DialogTypeOK
    SlotMatchesDialog
    OverlayWillClear
    ListenersLeakOnlyByOverlap
    CancelOffered
PROPERTIES
    PointerComesBack
CHECK_DEADLOCK FALSE
