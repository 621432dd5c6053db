\* Two agent processes with the same agent id (spec E2) and the default none
\* store: does the tunnel owner settle once faults stop?
CONSTANTS
    Proxies = {p1}
    AgentIds = {a1}
    AgentProcs = {g1, g2}
    AgentIdOf <- TwoProcsPerId
    Conns = {c1, c2, c3}
    None = None
    Unauth = Unauth
    Untracked = Untracked
    p1 = p1  p2 = p2  a1 = a1  a2 = a2  g1 = g1  g2 = g2
    c1 = c1  c2 = c2  c3 = c3  c4 = c4
    MaxStoreErrors = 0
    MaxFaults = 0
    Stoppable = {}
    StoreType = "none"
SPECIFICATION FairSpec
PROPERTY OwnerEventuallyStable
