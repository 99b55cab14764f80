SPECIFICATION ReviewSpec
CONSTANTS
    api = api  vllm = vllm
    refresh = refresh  reviewer = reviewer
    Owned = {api}
    External = {vllm}
    People = {refresh, reviewer}
    Refresh = refresh
    None = None
    MaxHead = 1
    MaxActs = 4
INVARIANTS
    ReviewTypeOK
    FinalsWereApproved
    ResultsAreOfTheirHead
CHECK_DEADLOCK FALSE
