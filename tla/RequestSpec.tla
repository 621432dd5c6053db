----------------------------- MODULE RequestSpec -----------------------------
(***************************************************************************)
(* What the data plane promises a client request (spec 2, 4.E, 4.G, 4.I),  *)
(* stated without handlers, connectors or dialers.                          *)
(*                                                                         *)
(*   idle -Arrive-> pending -Refuse-> answered (405, 400, 407 or 403)       *)
(*                          -Reach-> reached -Connect-> connected           *)
(*                                                    -Succeed-> answered   *)
(*       pending, reached, connected -Fail-> answered (503)                 *)
(*                                                                         *)
(* The entry handler's gate follows spec 4.E's order and authenticators.   *)
(* A request reaches an agent only through a tunnel of that agent which is *)
(* open at that moment, and only the agent the client authenticated as;    *)
(* through the load balancer, the proxy's authenticator must accept the    *)
(* forwarded credentials too.  A client enters through the load balancer  *)
(* ("lb") or at a proxy ("direct").  The agent's whitelist decides whether *)
(* it connects.  agent is the agent a pending request is with; an answer  *)
(* ends what the client sees of it.  Tunnels (tun) are read, never        *)
(* changed, by this module.                                                *)
(***************************************************************************)
EXTENDS Naturals

CONSTANTS
    Proxies, AgentIds, Requests, Dests,
    None, NoHeader, Malformed, InvalidToken,
    Routes, LBAuther, PxAuther,
    LBBlocked, PxBlocked, AgBlocked

VARIABLES
    areq,          \* areq[r]: the request as its client sees it
    tun            \* tun[p][a]: the tunnel proxy p holds for agent a

Tokens == [agent : AgentIds \cup {""}, role : {"client", "agent"}] \cup {InvalidToken}
AuthHeaders == {NoHeader, Malformed} \cup [user : AgentIds \cup {""}, pass : Tokens]
Requests4E == [method : {"CONNECT", "GET"}, scheme : {"http"}, dest : Dests,
               auth : AuthHeaders]

States == {"idle", "pending", "reached", "connected", "answered"}

\* The user and password of a Basic header; none without one.
Creds(m) ==
    IF m.auth \in {NoHeader, Malformed}
    THEN [user |-> "", pass |-> InvalidToken] ELSE m.auth

\* Spec 4.E's authenticators: NoAuth accepts a non-empty user; JWT a
\* verified client token whose agent id is the (non-empty) user.
Authenticates(kind, c) ==
    CASE kind = "noauth" -> c.user # ""
      [] kind = "jwt"    -> /\ c.pass # InvalidToken
                            /\ c.pass.agent = c.user
                            /\ c.pass.role = "client"
                            /\ c.user # ""

\* The status a proxy-only handler answers before dialing (spec 4.E steps
\* 2, 3 and 5), 0 when it dials.
Gate(kind, blocked, m) ==
    CASE m.method # "CONNECT"                                     -> 405
      [] m.method = "PRI" \/ (m.method # "CONNECT" /\ m.scheme # "http") -> 400
      [] ~Authenticates(kind, Creds(m))                           -> 407
      [] m.dest \in blocked                                       -> 403
      [] OTHER                                                    -> 0

EntryCode(v, m) ==
    IF v = "lb" THEN Gate(LBAuther, LBBlocked, m) ELSE Gate(PxAuther, PxBlocked, m)

\* Through the LB, the proxy's handler sees the forwarded credentials.
ProxyPasses(v, m) ==
    v # "lb" \/ Gate(PxAuther, PxBlocked, m) = 0

TypeOK ==
    areq \in [Requests -> [st : States, via : Routes \cup {"none"}, msg : Requests4E \cup {NoHeader},
                           agent : AgentIds \cup {None}, code : {0, 200, 400, 403, 405, 407, 503}]]

Init ==
    areq = [r \in Requests |-> [st |-> "idle", via |-> "none", msg |-> NoHeader, agent |-> None, code |-> 0]]

\* A client sends a request m by route v.
Arrive(r) ==
    /\ areq[r].st = "idle"
    /\ \E v \in Routes, m \in Requests4E :
         areq' = [areq EXCEPT ![r].st = "pending", ![r].via = v, ![r].msg = m]

Refuse(r) ==
    /\ areq[r].st = "pending"
    /\ EntryCode(areq[r].via, areq[r].msg) # 0
    /\ areq' = [areq EXCEPT ![r].st = "answered",
                            ![r].code = EntryCode(areq[r].via, areq[r].msg)]

\* A stream is opened on an open tunnel of the authenticated agent.
Reach(r, p) ==
    LET m == areq[r].msg
        a == Creds(m).user
    IN
    /\ areq[r].st = "pending"
    /\ EntryCode(areq[r].via, m) = 0
    /\ ProxyPasses(areq[r].via, m)
    /\ a \in AgentIds
    /\ tun[p][a].state = "open"
    /\ areq' = [areq EXCEPT ![r].st = "reached", ![r].agent = a]

Connect(r) ==
    /\ areq[r].st = "reached"
    /\ areq[r].msg.dest \notin AgBlocked
    /\ areq' = [areq EXCEPT ![r].st = "connected"]

Fail(r) ==
    /\ areq[r].st \in {"pending", "reached", "connected"}
    /\ EntryCode(areq[r].via, areq[r].msg) = 0
    /\ areq' = [areq EXCEPT ![r].st = "answered", ![r].code = 503, ![r].agent = None]

Succeed(r) ==
    /\ areq[r].st = "connected"
    /\ areq' = [areq EXCEPT ![r].st = "answered", ![r].code = 200, ![r].agent = None]

Next ==
    \E r \in Requests :
        \/ Arrive(r) \/ Refuse(r) \/ Connect(r) \/ Fail(r) \/ Succeed(r)
        \/ \E p \in Proxies : Reach(r, p)

\* Tunnels change under the requests: steps that only change tun stutter.
Spec == Init /\ [][Next]_areq

====
