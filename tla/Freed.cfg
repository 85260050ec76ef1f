SPECIFICATION Spec
CONSTANTS
    Caller = {a1, a2, a3}
    NoCaller = NoCaller
    MaxCloseTimers = 2
    ToolCount = 2
    ScriptTool = 2
    Null = Null
    Late = Late
INVARIANTS
    FreedThisTime
CHECK_DEADLOCK FALSE
