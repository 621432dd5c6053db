\* One proxy with memcached that may be shut down, and two agent processes
\* started with the same agent id (spec E2); one memcached error and one
\* fault.  Safety of ConnTrack's supersede and close handling under every
\* interleaving of handlers, close callbacks, the agents' dial loops and
\* the proxy's quit path.  Two connection slots, reused once forgotten.
CONSTANTS
    Proxies = {p1}
    AgentIds = {a1}
    AgentProcs = {g1, g2}
    AgentIdOf <- TwoProcsPerId
    Conns = {c1, c2}
    None = None
    Unauth = Unauth
    Untracked = Untracked
    p1 = p1  p2 = p2  a1 = a1  a2 = a2  g1 = g1  g2 = g2
    c1 = c1  c2 = c2  c3 = c3  c4 = c4
    MaxStoreErrors = 1
    MaxFaults = 1
    Stoppable = {p1}
    StoreType = "memcached"
SPECIFICATION Spec
SYMMETRY SafetySymmetry
INVARIANT TypeOK
INVARIANT TrackedOnlyWhileOpen
INVARIANT AtMostOneOpenTunnel
PROPERTY SupersedeClosesPredecessor
