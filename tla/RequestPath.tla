----------------------------- MODULE RequestPath -----------------------------
(***************************************************************************)
(* A client request on its way to the agent (spec 2, data flow): through  *)
(* the load balancer's handler (optional), a proxy's handler and the       *)
(* agent's handler, each an instance of HttpHandler with the options its   *)
(* role builds, joined by what their routers do:                           *)
(*   - LB: LoadBalancerDialer.Dial reads the registry and dials the owning *)
(*     proxy over TCP; the http connector sends CONNECT dest there, with   *)
(*     the client's credentials (forwardAuth);                             *)
(*   - proxy: AgentDialer -> QuicServer.DialAgent: GetConn, then           *)
(*     OpenStreamSync on that connection; the connector sends CONNECT dest *)
(*     on the new stream, without credentials;                             *)
(*   - agent: the default route dials the destination.                     *)
(* Each connector waits for the next hop's status line: 200 lets its own   *)
(* handler answer 200, anything else (or a dead stream) makes it 503.      *)
(*                                                                         *)
(* The tunnels and the registry are the environment: tun[p][a] is what     *)
(* proxy p's agentConns holds for agent a (a connection generation and its *)
(* state) and registry[a] the proxy the LB would read.  They change as     *)
(* TunnelSystem lets them: a new connection replaces the entry, an open    *)
(* connection closes, its close callback removes the entry, and the        *)
(* registry may name any proxy or none (TunnelSystem's registry findings). *)
(***************************************************************************)
EXTENDS Naturals

CONSTANTS
    Proxies, AgentIds, Requests, Dests,
    None, NoHeader, Malformed, InvalidToken,
    Routes,         \* how clients enter: "lb" (the load balancer), "direct"
    LBAuther, PxAuther,
    LBBlocked, PxBlocked, AgBlocked,
    MaxConnects     \* bound on the connections an agent makes to a proxy

VARIABLES
    lb, px, ag,     \* the Handle goroutines of each request at each hop
    pxAt,           \* pxAt[r]: the proxy whose handler serves request r
    got,            \* got[r]: generation of the connection GetConn returned
    stream,         \* stream[r]: the stream opened for r, or None
    tun,            \* tun[p][a]: agentConns[a] at proxy p
    registry        \* registry[a]: the proxy the registry names for a

reqVars == <<lb, px, ag, pxAt, got, stream>>
envVars == <<tun, registry>>
vars == <<reqVars, envVars>>

LB == INSTANCE HttpHandler WITH hreq <- lb, ProxyOnly <- TRUE,
                                AutherKind <- LBAuther, Blocked <- LBBlocked
PX == INSTANCE HttpHandler WITH hreq <- px, ProxyOnly <- TRUE,
                                AutherKind <- PxAuther, Blocked <- PxBlocked
AG == INSTANCE HttpHandler WITH hreq <- ag, ProxyOnly <- FALSE,
                                AutherKind <- "none", Blocked <- AgBlocked

TunStates == {"none", "open", "closed"}
Stream == [p : Proxies, a : AgentIds, gen : 1..MaxConnects]

\* What clients send: a CONNECT, or a plain request (405 at a proxyOnly
\* handler whatever its scheme or method, so one of them stands for all).
ClientMsgs == [method : {"CONNECT", "GET"}, scheme : {"http"}, dest : Dests, auth : PX!AuthHeaders]

TypeOK ==
    /\ LB!TypeOK /\ PX!TypeOK /\ AG!TypeOK
    /\ pxAt \in [Requests -> Proxies \cup {None}]
    /\ got \in [Requests -> 0..MaxConnects]
    /\ stream \in [Requests -> Stream \cup {None}]
    /\ tun \in [Proxies -> [AgentIds -> [gen : 0..MaxConnects, state : TunStates]]]
    /\ registry \in [AgentIds -> Proxies \cup {None}]

Init ==
    /\ LB!Init /\ PX!Init /\ AG!Init
    /\ pxAt = [r \in Requests |-> None]
    /\ got = [r \in Requests |-> 0]
    /\ stream = [r \in Requests |-> None]
    /\ tun = [p \in Proxies |-> [a \in AgentIds |-> [gen |-> 0, state |-> "none"]]]
    /\ registry = [a \in AgentIds |-> None]

-----------------------------------------------------------------------------
(* The connectors                                                          *)

\* httpConnector.Connect's Proxy-Authorization: the credentials the handler
\* put into the context (only for a non-empty user), when the connector has
\* an auth (HttpProxyForwardAuth, the LB's forwardAuth).
ConnectorAuth(forwardAuth, creds) ==
    IF forwardAuth /\ creds.user # "" THEN creds ELSE NoHeader

\* The CONNECT request a connector writes for a destination.
ConnectMsg(dest, auth) ==
    [method |-> "CONNECT", scheme |-> "http", dest |-> dest, auth |-> auth]

\* The stream of r is dead once its connection is closed or replaced.
StreamDead(r) ==
    LET s == stream[r] IN
    tun[s.p][s.a].gen # s.gen \/ tun[s.p][s.a].state # "open"

-----------------------------------------------------------------------------
(* The steps of a request                                                  *)

\* The route the client took, none before it sends.
Route(r) == CASE lb[r].pc # "idle" -> "lb"
              [] px[r].pc # "idle" -> "direct"
              [] OTHER             -> "none"

\* The client's request reaches the LB, or the proxy it connects to.
ClientSend(r) ==
    /\ Route(r) = "none"
    /\ \E m \in ClientMsgs :
         \/ /\ "lb" \in Routes
            /\ LB!Receive(r, m)
            /\ UNCHANGED <<envVars, px, ag, pxAt, got, stream>>
         \/ /\ "direct" \in Routes
            /\ \E p \in Proxies :
                 /\ PX!Receive(r, m)
                 /\ pxAt' = [pxAt EXCEPT ![r] = p]
                 /\ UNCHANGED <<envVars, lb, ag, got, stream>>

LBCheck(r) == LB!Check(r) /\ UNCHANGED <<envVars, px, ag, pxAt, got, stream>>
PXCheck(r) == PX!Check(r) /\ UNCHANGED <<envVars, lb, ag, pxAt, got, stream>>
AGCheck(r) == AG!Check(r) /\ UNCHANGED <<envVars, lb, px, pxAt, got, stream>>

\* LoadBalancerDialer.Dial: the registry names proxy p and the TCP dial to
\* it succeeds; the connector sends CONNECT to p's handler.
LBForward(r) ==
    LET p == registry[lb[r].id] IN
    /\ lb[r].pc = "dialing"
    /\ px[r].pc = "idle"
    /\ lb[r].id \in AgentIds
    /\ p # None
    /\ PX!Receive(r, ConnectMsg(lb[r].msg.dest, ConnectorAuth(TRUE, lb[r].creds)))
    /\ pxAt' = [pxAt EXCEPT ![r] = p]
    /\ UNCHANGED <<envVars, lb, ag, got, stream>>

\* The registry Get fails or is empty, or the TCP dial to the proxy fails:
\* router.Dial returns the error and the LB answers 503.
LBDialFail(r) ==
    /\ px[r].pc = "idle"
    /\ LB!DialFail(r)
    /\ UNCHANGED <<envVars, px, ag, pxAt, got, stream>>

\* DialAgent: GetConn finds no connection for the client id.
PXNotFound(r) ==
    LET a == px[r].id IN
    /\ px[r].pc = "dialing"
    /\ got[r] = 0
    /\ a \notin AgentIds \/ tun[pxAt[r]][a].state = "none"
    /\ PX!DialFail(r)
    /\ UNCHANGED <<envVars, lb, ag, pxAt, got, stream>>

\* DialAgent: GetConn returns the agent's connection (open or not).
PXGetConn(r) ==
    LET a == px[r].id IN
    /\ px[r].pc = "dialing"
    /\ got[r] = 0
    /\ a \in AgentIds
    /\ tun[pxAt[r]][a].state # "none"
    /\ got' = [got EXCEPT ![r] = tun[pxAt[r]][a].gen]
    /\ UNCHANGED <<envVars, lb, px, ag, pxAt, stream>>

\* OpenStreamSync on that connection succeeds while it is open; the
\* connector writes CONNECT on the stream and the agent accepts it.
PXOpenStream(r) ==
    LET p == pxAt[r]
        a == px[r].id
    IN
    /\ px[r].pc = "dialing"
    /\ got[r] # 0
    /\ stream[r] = None
    /\ tun[p][a].gen = got[r]
    /\ tun[p][a].state = "open"
    /\ stream' = [stream EXCEPT ![r] = [p |-> p, a |-> a, gen |-> got[r]]]
    /\ AG!Receive(r, ConnectMsg(px[r].msg.dest, ConnectorAuth(FALSE, px[r].creds)))
    /\ UNCHANGED <<envVars, lb, px, pxAt, got>>

\* OpenStreamSync fails: the connection was closed, or replaced (and closed
\* with 409) since GetConn.
PXOpenFail(r) ==
    LET p == pxAt[r]
        a == px[r].id
    IN
    /\ px[r].pc = "dialing"
    /\ got[r] # 0
    /\ stream[r] = None
    /\ ~(tun[p][a].gen = got[r] /\ tun[p][a].state = "open")
    /\ PX!DialFail(r)
    /\ UNCHANGED <<envVars, lb, ag, pxAt, got, stream>>

AGDialOk(r)   == AG!DialOk(r) /\ UNCHANGED <<envVars, lb, px, pxAt, got, stream>>
AGDialFail(r) == AG!DialFail(r) /\ UNCHANGED <<envVars, lb, px, pxAt, got, stream>>

\* The proxy's connector reads "200 Connection established" from the agent.
\* The agent wrote it before anything could close the stream; the bytes may
\* still arrive after the connection was closed or replaced, so this races
\* with PXRefused's dead stream.
PXConnected(r) ==
    /\ stream[r] # None
    /\ ag[r].code = 200
    /\ PX!DialOk(r)
    /\ UNCHANGED <<envVars, lb, ag, pxAt, got, stream>>

\* Mutant: the connector notices only a dead stream that carries no 200.
PXRefusedStreamDeadOnly(r) ==
    /\ stream[r] # None
    /\ ag[r].code # 200
    /\ StreamDead(r)
    /\ PX!DialFail(r)
    /\ UNCHANGED <<envVars, lb, ag, pxAt, got, stream>>

\* http.ReadResponse fails or reads another status (connector.go 113-125):
\* the agent answered an error and closed the stream, or the connection
\* was closed or replaced (409) before its status line was read, the
\* agent's 200 included.  chainRoute.Dial closes the stream and the proxy
\* answers 503.
PXRefused(r) ==
    /\ stream[r] # None
    /\ \/ ag[r].pc = "done" /\ ag[r].code # 200
       \/ StreamDead(r)
    /\ PX!DialFail(r)
    /\ UNCHANGED <<envVars, lb, ag, pxAt, got, stream>>

\* The LB's connector reads the proxy's status line.
LBConnected(r) ==
    /\ lb[r].pc = "dialing"
    /\ px[r].code = 200
    /\ LB!DialOk(r)
    /\ UNCHANGED <<envVars, px, ag, pxAt, got, stream>>

LBRefused(r) ==
    /\ px[r].pc = "done"
    /\ px[r].code # 200
    /\ LB!DialFail(r)
    /\ UNCHANGED <<envVars, px, ag, pxAt, got, stream>>

\* The TCP connection from the LB to the proxy breaks while the LB's
\* connector waits for the status line (the proxy process exits, a reset):
\* ReadResponse fails and the LB answers 503, even if the proxy has
\* already written 200.  The proxy's handler is left to run out.
LBLinkLost(r) ==
    /\ px[r].pc # "idle"
    /\ LB!DialFail(r)
    /\ UNCHANGED <<envVars, px, ag, pxAt, got, stream>>

\* NetTransport returns at one hop (either side closed).
LBEnd(r) == LB!End(r) /\ UNCHANGED <<envVars, px, ag, pxAt, got, stream>>
PXEnd(r) == PX!End(r) /\ UNCHANGED <<envVars, lb, ag, pxAt, got, stream>>
AGEnd(r) == AG!End(r) /\ UNCHANGED <<envVars, lb, px, pxAt, got, stream>>

-----------------------------------------------------------------------------
(* The environment: tunnels and registry as TunnelSystem changes them      *)

\* PutConn swaps a new connection of a into p's agentConns (closing the
\* one it replaces with 409).
TunnelUp(p, a) ==
    /\ tun[p][a].gen < MaxConnects
    /\ tun' = [tun EXCEPT ![p][a] = [gen |-> @.gen + 1, state |-> "open"]]
    /\ UNCHANGED <<reqVars, registry>>

\* The connection in the entry closes (lost, timed out, shut down).
TunnelClose(p, a) ==
    /\ tun[p][a].state = "open"
    /\ tun' = [tun EXCEPT ![p][a].state = "closed"]
    /\ UNCHANGED <<reqVars, registry>>

\* OnConnClose removes the closed connection's entry.
TunnelForget(p, a) ==
    /\ tun[p][a].state = "closed"
    /\ tun' = [tun EXCEPT ![p][a].state = "none"]
    /\ UNCHANGED <<reqVars, registry>>

\* A Set or Delete of the registry key lands.
RegistryWrite(a, v) ==
    /\ registry[a] # v
    /\ registry' = [registry EXCEPT ![a] = v]
    /\ UNCHANGED <<reqVars, tun>>

Env ==
    \/ \E p \in Proxies, a \in AgentIds :
          TunnelUp(p, a) \/ TunnelClose(p, a) \/ TunnelForget(p, a)
    \/ \E a \in AgentIds, v \in Proxies \cup {None} : RegistryWrite(a, v)

\* The steps of request r's goroutines.
Serve(r) ==
    \/ LBCheck(r) \/ LBForward(r) \/ LBDialFail(r) \/ LBConnected(r) \/ LBRefused(r)
    \/ LBLinkLost(r)
    \/ PXCheck(r) \/ PXNotFound(r) \/ PXGetConn(r) \/ PXOpenStream(r) \/ PXOpenFail(r)
    \/ PXConnected(r) \/ PXRefused(r)
    \/ AGCheck(r) \/ AGDialOk(r) \/ AGDialFail(r)
    \/ LBEnd(r) \/ PXEnd(r) \/ AGEnd(r)

Next ==
    \/ \E r \in Requests : ClientSend(r) \/ Serve(r)
    \/ Env

Spec == Init /\ [][Next]_vars

\* Each goroutine of a request keeps running until it returns: a handler
\* checks, a dial or a connector read ends in a result.  The tunnels, the
\* registry, the clients and the ends of tunnels are not forced.
Fairness ==
    \A r \in Requests :
        /\ WF_vars(LBCheck(r)) /\ WF_vars(PXCheck(r)) /\ WF_vars(AGCheck(r))
        /\ WF_vars(LBForward(r) \/ LBDialFail(r))
        /\ WF_vars(PXNotFound(r) \/ PXGetConn(r))
        /\ WF_vars(PXOpenStream(r) \/ PXOpenFail(r))
        /\ WF_vars(AGDialOk(r) \/ AGDialFail(r))
        /\ WF_vars(PXConnected(r) \/ PXRefused(r))
        /\ WF_vars(LBConnected(r) \/ LBRefused(r))

FairSpec == Spec /\ Fairness

-----------------------------------------------------------------------------
(* Properties                                                              *)

\* The handler the client talks to.
Entry(r) == IF Route(r) = "lb" THEN lb[r] ELSE px[r]

\* No request hangs (handleRequest, httpConnector.Connect, DialAgent): once
\* a client has sent a request, the handler it reached eventually answers
\* it or starts the tunnel, whatever the tunnels and the registry do.
RequestAnswered ==
    \A r \in Requests :
        Entry(r).pc # "idle" ~> Entry(r).pc \in {"tunnel", "done"}

\* The handler answered: an error status, or 200 and the tunnel.
Answered(h) == h.pc = "done" \/ h.code = 200

\* The request as its client sees it.  It is connected once the agent has
\* answered 200 (its whitelist let the destination through), reached once
\* a stream is open to the agent.  A connected request may still end in
\* 503: the status line can be lost on the way back (PXRefused on a dead
\* stream, LBLinkLost).
AbstractReq(r) ==
    [st    |-> CASE Entry(r).pc = "idle"  -> "idle"
                 [] Answered(Entry(r))    -> "answered"
                 [] ag[r].code = 200      -> "connected"
                 [] stream[r] # None      -> "reached"
                 [] OTHER                 -> "pending",
     via   |-> Route(r),
     msg   |-> Entry(r).msg,
     agent |-> IF stream[r] = None \/ Answered(Entry(r)) THEN None ELSE stream[r].a,
     code  |-> IF Answered(Entry(r)) THEN Entry(r).code ELSE 0]

RS == INSTANCE RequestSpec WITH areq <- [r \in Requests |-> AbstractReq(r)]

\* The request path implements the promise of spec 4.E, 4.G and 4.I
\* (handleRequest's checks and authenticators, the connectors'
\* forwarded credentials, DialAgent's GetConn and OpenStreamSync, the
\* agent's whitelist): a client is answered the gate's status, or reaches
\* only an open tunnel of the agent it authenticated as, and gets 200 only
\* if that agent connected.
ImplementsRequestSpec == RS!Spec

====
