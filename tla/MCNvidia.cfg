SPECIFICATION Spec
CONSTANTS
    Caller = {c1}
    NoCaller = NoCaller
    MaxCloseTimers = 1
    Tool = {Nvidia}
    Nvidia = Nvidia
    Browser = Browser
    Name = {Rec, RecEn, Own}
    Recommended = Rec
    RecommendedEn = RecEn
    Lang = {"zh", "en"}
    Typed = {Own}
    Null = Null
    Absent = Absent
    MaxPending = 1
INVARIANTS
    NvidiaOnlyIfDetected
CHECK_DEADLOCK FALSE
