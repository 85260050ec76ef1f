SPECIFICATION Spec
CONSTANTS
    Chrome = Chrome
    Edge = Edge
    sub = sub
    inner = inner
    other = other
    plain = plain
    Root = {Chrome, Edge}
    Dir = {sub}
    File = {inner, plain, other}
    Target = {inner}
    Parent <- ParentOf
    Folders <- FoldersOf
    CDrive = Chrome
    Request = {"login", "sync var"}
    MaxInUse = 1
INVARIANTS
    ToolsTypeOK
    CleanIsClean
    LedgerBalances
    VerdictMatchesExit
    SyncReported
PROPERTIES
    RunsAreReported
    ImplementsCleaner
CHECK_DEADLOCK FALSE
