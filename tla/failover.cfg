SPECIFICATION FairSpec
CONSTANTS
    s1 = s1  s2 = s2  version = version  pods = pods
    url1 = url1  url2 = url2  url3 = url3  base1 = base1  base2 = base2
    token1 = token1  token2 = token2
    Slots = {s1, s2}
    Paths = {version, pods}
    Urls = {url1, url2, url3}
    Bases = {base1, base2}
    Normalize <- NormalizeUrl
    Tokens = {token1, token2}
    Configs <- AnyConfig
    Patterns <- SomeService
    None = None
    MaxUpsets = 2
INVARIANTS
    TypeOK
    FailsOnlyIfNothingServes
    ActivePairWorked
PROPERTIES
    Settles
