\* Two proxies with the default none store, one of which may be shut down,
\* and one agent; two faults (lost connections, auth timeouts).  Reconnect
\* liveness under weak fairness of every goroutine, of the agent's dial
\* loop and of a quit path once it has begun: the agent ends up on a live
\* connection, at p2 if p1 has gone.
CONSTANTS
    Proxies = {p1, p2}
    AgentIds = {a1}
    AgentProcs = {g1}
    AgentIdOf <- OneProcPerId
    Conns = {c1, c2, c3}
    None = None
    Unauth = Unauth
    Untracked = Untracked
    p1 = p1  p2 = p2  a1 = a1  a2 = a2  g1 = g1  g2 = g2
    c1 = c1  c2 = c2  c3 = c3  c4 = c4
    MaxStoreErrors = 0
    StoreType = "none"
    MaxFaults = 2
    Stoppable = {p1}
SPECIFICATION FairSpec
PROPERTY AgentEventuallyLive
