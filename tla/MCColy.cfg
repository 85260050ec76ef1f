SPECIFICATION ColySpec
CONSTANTS
    c = c
    d = d
    e = e
    p = p
    v = v
    a = a
    b = b
    CodeName = {c, d, e}
    VarName = {v}
    PosName = {p}
    Text = {a, b}
    Compiled = {c, d}
    Codename <- FileOf
    Program <- Programs
    Library <- Imported
    Leftover <- Left
    Foreign <- OfOthers
    Undefined = Undefined
    NoName = NoName
    Buffer = 1
    MaxWritten = 2
INVARIANTS
    ColyTypeOK
    WholeCode
    SyncedAgrees
    RunsWhatWasWritten
PROPERTIES
    JumpsLand
    PumpEnds
CHECK_DEADLOCK FALSE
