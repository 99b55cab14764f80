SPECIFICATION Spec
CONSTANTS
    None = None
    Heads = {1, 2}
    ToolSets <- MCToolSets
    Checkouts <- MCCheckouts
    Options <- MCOptions
    Breakages = {"rag-production", "security-drafts"}
    ByHand = {"checkpoint"}
    Pauses = {"lightspeed"}
    MaxRefreshes = 2
    MaxActs = 2
INVARIANTS
    TypeOK
    ClaimsRest
    GatesStayClosed
    RefreshAgrees
    OverviewRests
    FailuresShown
PROPERTIES
    RunnerEvidenceNeverCounts
    RefreshEnds
CHECK_DEADLOCK FALSE
