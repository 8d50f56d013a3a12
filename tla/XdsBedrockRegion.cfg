CONSTANTS
    k1 = k1
    h1 = h1
    m1 = m1
    r1 = r1
    Keys = {k1}
    WirePorts = {80}
    Hosts = {h1}
    Models = {m1}
    Regions = {EmptyStr, r1}
    FillIntervals <- MCFillIntervals
    MaxTargets = 1
    EmptyStr = EmptyStr
    SvcKeys <- MCSvcKeys
    Absent = Absent
SPECIFICATION Spec
INVARIANT BedrockHasModelAndRegion
