SPECIFICATION LiveSpec
CONSTANTS
    l1 = l1
    l2 = l2
    c1 = c1
    c2 = c2
    peer = peer
    i1 = i1
    s1 = s1
    s2 = s2
    Listeners = {l1, l2}
    None = None
    Clients = {c1, c2}
    Names = {peer}
    Services = {s1, s2}
    Instances = {i1}
    ServiceOf <- OneInstance
    Timeout = 1
    TTL = 1
    MaxRetries = 1
    MaxRecords = 1
    MaxLoss = 1
    MaxDepth = 4
    IdleCalls = {"begin", "browse", "cancelBrowse", "lookup"}
    ErrorCalls = {"begin", "end", "browse", "lookup", "abort"}
    CloseCalls = {"browse", "lookup"}
    ResolvedCalls = {"begin", "end", "abort"}
    RequestCalls = {"lookup"}
INVARIANTS ListenerAgreed RecordsOfThisBrowse
PROPERTIES LookupsEnd BrowseFinds
