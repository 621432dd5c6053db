\* Clients enter through the load balancer (no-auth client verifier, so
\* any user name passes it), which routes by the registry (stale, empty or
\* right) to the proxy, or connect to it directly; the proxies authenticate
\* clients (and the LB's forwarded credentials) by JWT.  The agent's
\* whitelist blocks d2.  Two agent ids, so that a token of one can be
\* presented under the other; up to two connections per proxy.
CONSTANTS
    Proxies = {p1}
    AgentIds = {a1, a2}
    Requests = {r1}
    Dests = {d1, d2}
    None = None  NoHeader = NoHeader  Malformed = Malformed  InvalidToken = InvalidToken
    p1 = p1  p2 = p2  a1 = a1  a2 = a2  r1 = r1  d1 = d1  d2 = d2
    Routes = {"lb", "direct"}
    LBAuther = "noauth"
    PxAuther = "jwt"
    LBBlocked = {}
    PxBlocked = {}
    AgBlocked = {d2}
    MaxConnects = 2
SPECIFICATION FairSpec
PROPERTY RequestAnswered
PROPERTY ImplementsRequestSpec
