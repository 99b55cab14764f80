SPECIFICATION FairSpec
CONSTANTS
    small = small  large = large  junk = junk
    mcp = mcp  bad = bad  opslens = opslens  other = other
    InstallSpecs <- AllSpecs
    Kept <- FewObjects
    ServerNames = {opslens}
    Endpoints = {mcp, bad}
    McpEndpoints = {mcp}
    Sizes = {small, large, junk}
    ValidSizes = {small, large}
    ForeignServers <- Foreign
    OtherGates = {"OtherGate"}
    Placements = {TRUE, FALSE}
    SecretsWatched = TRUE
    Driftable = {"PostgresAuthSecret", "APIDeployment", "VectorStore", "ConsolePlugin"}
    Approvals = {"none", "security"}
    MaxUpsets = 3
PROPERTIES
    Converges
