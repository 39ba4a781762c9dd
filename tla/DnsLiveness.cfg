SPECIFICATION LiveSpec
CONSTANTS
    c1 = c1
    c2 = c2
    a = a
    b = b
    c = c
    Conns = {c1, c2}
    Servers = {a, b, c}
    Responsive = {c}
    Default = Default
    None = None
    Resolver = Resolver
    Tables <- ThreeServers
    MaxNameservers = 3
    DnsTimeout = 1
    ClientTimeout = 3
    ResolverMayFail = TRUE
    IdleCalls = {"lookup", "setup"}
    HandlerCalls = {"lookup"}
    RetireCalls = {}
PROPERTIES LookupsEnd FailoverReachesResponsive
