SPECIFICATION SerialHistorySpec
CONSTANTS
    d1 = d1  d2 = d2  d3 = d3
    i1 = i1  i2 = i2
    owner = owner  sre = sre  guest = guest
    kim = kim
    s1 = s1  s2 = s2
    Drafts = {d1, d2}
    AcceptedDrafts = {d1}
    Items = {i1}
    ItemOf <- MCItemOfOne
    Roles = {owner, sre}
    RequiredRoles = {owner, sre}
    Reviewers = {kim}
    Slots = {s1}
    MaxSubmissions = 1
PROPERTY MistakesCanBeRejected
