SPECIFICATION Spec
CONSTANTS
    small = small  large = large  junk = junk
    mcp = mcp  bad = bad  opslens = opslens  other = other
    InstallSpecs <- SampleOnly
    Kept <- FewObjects
    ServerNames = {opslens}
    Endpoints = {mcp, bad}
    McpEndpoints = {mcp}
    Sizes = {small, large, junk}
    ValidSizes = {small, large}
    ForeignServers <- Foreign
    OtherGates = {"OtherGate"}
    Placements = {TRUE}
    SecretsWatched = TRUE
    Driftable = {}
    Approvals = {"none", "security"}
    MaxUpsets = 3
PROPERTIES
    PatchKeepsOthers
