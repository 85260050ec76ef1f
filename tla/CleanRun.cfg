SPECIFICATION FairSpec
CONSTANTS
    Caller = {a1, a2}
    NoCaller = NoCaller
    MaxCloseTimers = 2
    ToolCount = 2
    ScriptTool = 2
    Null = Null
    Late = Late
INVARIANTS
    TypeOK
    OneRunAtATime
    EachToolOnce
    TotalsAgree
    NothingLeftDisabled
PROPERTIES
    RunEnds
    QueueReports
    ImplementsJobRunner
CHECK_DEADLOCK FALSE
