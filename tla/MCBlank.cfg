SPECIFICATION Spec
CONSTANTS
    Caller = {c1}
    NoCaller = NoCaller
    MaxCloseTimers = 1
    Tool = {Temp}
    Nvidia = Nvidia
    Browser = Browser
    Name = {Rec, RecEn, Own}
    Recommended = Rec
    RecommendedEn = RecEn
    Lang = {"zh", "en"}
    Typed = {Own}
    Null = Null
    Absent = Absent
    MaxPending = 1
INVARIANTS
    RecommendedNotBlank
CHECK_DEADLOCK FALSE
