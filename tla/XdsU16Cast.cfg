CONSTANTS
    k1 = k1
    h1 = h1
    t1 = t1
    m1 = m1
    r1 = r1
    Keys = {k1}
    WirePorts = {80, 65536}
    WireStatuses = {0}
    RedirectHosts = {EmptyStr}
    Schemes = {EmptyStr}
    RefPorts = {80}
    WireMatches <- MCWireMatches
    FilterKinds = {"direct", "cors"}
    WireTimeouts <- MCWireTimeouts
    MaxMatches = 0
    MaxFilters = 1
    TargetHosts = {t1}
    Models = {m1}
    Regions = {EmptyStr, r1}
    FillIntervals <- MCFillIntervals
    EmptyStr = EmptyStr
    SvcKeys <- MCSvcKeys
    MaxBackends = 1
    MaxTargets = 1
    Absent = Absent
SPECIFICATION Spec
INVARIANT NumericRangeRejected
