\* One agent, one proxy with memcached, one fault: a connection closed
\* while PutConn runs.
CONSTANTS
    Proxies = {p1}
    AgentIds = {a1}
    AgentProcs = {g1}
    AgentIdOf <- OneProcPerId
    Conns = {c1, c2, c3}
    None = None
    Unauth = Unauth
    Untracked = Untracked
    p1 = p1  p2 = p2  a1 = a1  a2 = a2  g1 = g1  g2 = g2
    c1 = c1  c2 = c2  c3 = c3  c4 = c4
    MaxStoreErrors = 0
    MaxFaults = 1
    Stoppable = {}
    StoreType = "memcached"
SPECIFICATION Spec
SYMMETRY ConnSymmetry
INVARIANT CloseIsFinal
