SPECIFICATION Spec
CONSTANTS
    Caller = {c1, c2}
    NoCaller = NoCaller
    MaxCloseTimers = 1
    Tool = {Temp}
    Nvidia = Nvidia
    Browser = Browser
    Name = {Rec, Own}
    Recommended = Rec
    RecommendedEn = Own
    Lang = {"zh"}
    Typed = {Rec, Own}
    Null = Null
    Absent = Absent
    MaxPending = 2
SYMMETRY Symmetric
INVARIANTS
    PresetsTypeOK
    ActiveUsable
    EditsAreKept
PROPERTIES
    ImplementsPresetBook
CHECK_DEADLOCK FALSE
