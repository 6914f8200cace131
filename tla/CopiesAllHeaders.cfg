SPECIFICATION MCSpec
CONSTANTS
    Name = {"n", "m"}
    NoName = "no name"
    Val = {v1, v2, empty}
    v1 = v1
    v2 = v2
    EmptyVal = empty
    Space = space
    Invalid = invalid
    Pairs <- MCPairs
    MaxValues = 3
    HeadId = {h1, h2, h3}
    User = {u1, u2}
    PoolMax = 1
    Fields = {"content-type", "cookie", "accept-encoding", "upgrade"}
    NoField = "no field"
    Texts = {"a", "bad"}
    BadText = "bad"
    Cookies = {"c", "bad"}
    Expired <- MCExpired
    Heads <- MCHeads
    Defaults <- MCNoDefaults
    MaxCalls = 1
CHECK_DEADLOCK FALSE
INVARIANT CopiesAllHeaders
