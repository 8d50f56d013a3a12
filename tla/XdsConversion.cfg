CONSTANTS
    k1 = k1
    h1 = h1
    Keys = {k1}
    WirePorts = {0, 80, 65535}
    WireStatuses = {0, 301}
    Hosts = {EmptyStr, h1}
    Schemes = {EmptyStr, "valid"}
    RefPorts = {80}
    WireMatches <- MCWireMatches
    FilterKinds = {"redirect", "mirror"}
    WireTimeouts = {}
    MaxMatches = 1
    MaxFilters = 1
    MaxBackends = 0
    EmptyStr = EmptyStr
    SvcKeys <- MCSvcKeys
    Absent = Absent
SPECIFICATION Spec
INVARIANT TypeOK
INVARIANT ListenerTlsInvariant
INVARIANT ServiceRefFaithful
INVARIANT RedirectFaithful
INVARIANT MatchesFaithful
