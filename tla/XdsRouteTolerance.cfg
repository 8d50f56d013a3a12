CONSTANTS
    k1 = k1
    h1 = h1
    Keys = {k1}
    WirePorts = {80}
    WireStatuses = {0}
    Hosts = {EmptyStr}
    Schemes = {EmptyStr}
    RefPorts = {80}
    WireMatches <- MCWireMatches
    FilterKinds = {"mirror"}
    WireTimeouts <- MCWireTimeouts
    MaxMatches = 0
    MaxFilters = 1
    EmptyStr = EmptyStr
    SvcKeys <- MCSvcKeys
    MaxBackends = 2
    Absent = Absent
SPECIFICATION Spec
INVARIANT MalformedRefTolerated
