SPECIFICATION FairSpec
CONSTANTS
    small = small  large = large  junk = junk
    mcp = mcp  bad = bad  opslens = opslens  other = other
    InstallSpecs <- SampleOnly
    Kept <- FewObjects
    ServerNames = {opslens}
    Endpoints = {mcp, bad}
    McpEndpoints = {mcp}
    Sizes = {small, large, junk}
    ValidSizes = {small, large}
    ForeignServers <- Foreign
    OtherGates = {"OtherGate"}
    Placements = {TRUE}
    SecretsWatched = FALSE
    Driftable = {}
    Approvals = {"none", "security"}
    MaxUpsets = 1
PROPERTIES
    Converges
CHECK_DEADLOCK FALSE
