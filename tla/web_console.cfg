SPECIFICATION Spec
CONSTANTS
    Slots = {1, 2}
    Catalog <- MCCatalog
    Patterns <- MCPatterns
    Grants <- MCGrants
    Asked <- MCAsked
    Discoveries <- MCDiscoveries
    ItemOf <- MCItemOf
    RequiredOrder <- MCOrder
    OwnerOf <- MCOwnerOf
    Secret = "secrets"
    AllowSecretFetch = FALSE
    Ttl = 2
    MaxUpsets = 1
    Limits = {0, 2}
    Workers = {1, 2}
    None = None
    Nothing = Nothing
    Unset = Unset
    Resources = {"pods", "nodes"}
    Pods = {"pods"}
    Loads = {1, 2}
    MaxPages = 3
    MaxClicks = 4
    Drafts = {"draft"}
    AcceptedDrafts = {"draft"}
    Items = {"item"}
    Roles = {"rag-owner", "security-reviewer"}
    RequiredRoles = {"rag-owner", "security-reviewer"}
    Reviewers = {"admin-dashboard"}
    MaxSubmissions = 1
    Dashboards = {"first", "second"}
    Flights = {1, 2}
    Dashboard = "admin-dashboard"
    ShownItems = 1
    MaxFailures = 1
    AllPods = {"p1", "p2", "p3"}
    Workloads = {"w1", "w2"}
    OwnedBy <- MCOwnedBy
    ByReplicaSet = {"w1"}
    Alerts <- MCAlerts
    Received <- MCReceived
    BatchSizes = {1, 2}
    Nobody = Nobody
INVARIANTS
    ConsoleTypeOK
    RemembersFor30Seconds
    ServedAsReviewed
    CoverageAccountsForAll
    ScreenIsOfOneLoad
    DiagnosisAccountsForAll
    IncidentsAccountForAll
PROPERTIES
    GapsAreForgotten
    ApprovingDecides
    DashboardRequestsEnd
CHECK_DEADLOCK FALSE
