SPECIFICATION Spec
CONSTANTS
    c1 = c1
    c2 = c2
    a = a
    b = b
    c = c
    Conns = {c1, c2}
    Servers = {a, b}
    Responsive = {b}
    Default = Default
    None = None
    Resolver = Resolver
    Tables <- TablesABA
    MaxNameservers = 2
    DnsTimeout = 1
    ClientTimeout = 3
    ResolverMayFail = FALSE
    IdleCalls = {"lookup", "local", "delete", "configure", "restart"}
    HandlerCalls = {"abort", "delete"}
    RetireCalls = {"abort", "delete"}
INVARIANTS NothingOutlivesEnd ConfiguredServerInUse
PROPERTIES RotationBlamesActive
SYMMETRY Symmetric
