\* Two proxies with memcached, one agent; p1 receives a quit signal.  No
\* faults and no store errors: the shutdown's own close sends the agent to
\* p2 while p1's handler is still in PutConn.
CONSTANTS
    Proxies = {p1, p2}
    AgentIds = {a1}
    AgentProcs = {g1}
    AgentIdOf <- OneProcPerId
    Conns = {c1, c2}
    None = None
    Unauth = Unauth
    Untracked = Untracked
    p1 = p1  p2 = p2  a1 = a1  a2 = a2  g1 = g1  g2 = g2
    c1 = c1  c2 = c2  c3 = c3  c4 = c4
    MaxStoreErrors = 0
    MaxFaults = 0
    Stoppable = {p1}
    StoreType = "memcached"
SPECIFICATION FairSpec
PROPERTY RegistryEventuallyHealed
