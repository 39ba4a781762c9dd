SPECIFICATION Spec
CONSTANTS
    c1 = c1
    c2 = c2
    a = a
    b = b
    c = c
    Conns = {c1, c2}
    Servers = {a, b}
    Responsive = {b}
    Default = Default
    None = None
    Resolver = Resolver
    Tables <- OneServer
    MaxNameservers = 2
    DnsTimeout = 1
    ClientTimeout = 3
    ResolverMayFail = TRUE
    IdleCalls = {"lookup", "abort", "delete", "configure"}
    HandlerCalls = {"lookup", "abort", "delete"}
    RetireCalls = {"lookup", "abort", "delete"}
INVARIANTS NoUndefinedBehaviour
SYMMETRY Symmetric
