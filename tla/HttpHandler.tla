----------------------------- MODULE HttpHandler -----------------------------
(***************************************************************************)
(* One HTTP proxy handler (pkg/gost/handler.go) as the system builds it:   *)
(* the proxy's and the load balancer's (NewHttpProxyServer: proxyOnly, a   *)
(* client authenticator, an optional bypass whitelist) and the agent's     *)
(* (httpProxyHandler: only the optional whitelist).  Each request r is     *)
(* served by its own Handle goroutine:                                     *)
(*                                                                         *)
(*   idle -Receive-> read -Check-> done (405, 407, 403 or 400)             *)
(*                             \-> dialing -DialOk-> tunnel -End-> done    *)
(*                                          \-DialFail-> done (503)        *)
(*                                                                         *)
(* router.Dial is the step between "dialing" and its result; what it does  *)
(* depends on the role and is modelled where the handlers are composed     *)
(* (RequestPath).  A request is abstracted to its method, its scheme after *)
(* handleRequest's defaulting, its destination and its Proxy-Authorization *)
(* header; a token to what VerifyToken finds in it.                        *)
(***************************************************************************)
EXTENDS Naturals

CONSTANTS
    Requests,      \* the requests (Handle goroutines)
    Dests,         \* destinations "host:port"
    AgentIds,      \* agent ids (and client user names)
    NoHeader,      \* no Proxy-Authorization header
    Malformed,     \* a header basicProxyAuth cannot decode
    InvalidToken,  \* a password VerifyToken refuses
    ProxyOnly,     \* WithProxyOnly()
    AutherKind,    \* "none" (no auther), "noauth" or "jwt" (getClientVerifier)
    Blocked        \* the destinations the bypass whitelist's Contains blocks

ASSUME AutherKind \in {"none", "noauth", "jwt"}

VARIABLES
    hreq           \* hreq[r]: the Handle goroutine of request r

Methods == {"CONNECT", "GET", "PRI"}

\* A token VerifyToken accepts carries its claims; any other fails.
Tokens == [agent : AgentIds \cup {""}, role : {"client", "agent"}] \cup {InvalidToken}

\* A header "Basic base64(user:pass)", none, or one basicProxyAuth refuses.
AuthHeaders == {NoHeader, Malformed} \cup [user : AgentIds \cup {""}, pass : Tokens]

Msgs == [method : Methods, scheme : {"http", "other"}, dest : Dests, auth : AuthHeaders]

Pcs == {"idle", "read", "dialing", "tunnel", "done"}

\* The status written to the client; 0 when none was written.
Codes == {0, 200, 400, 403, 405, 407, 503}

NoCreds == [user |-> "", pass |-> InvalidToken]

TypeOK ==
    hreq \in [Requests ->
               [pc : Pcs, code : Codes, msg : Msgs \cup {NoHeader},
                id : AgentIds \cup {""}, creds : [user : AgentIds \cup {""}, pass : Tokens]]]

Init ==
    hreq = [r \in Requests |->
              [pc |-> "idle", code |-> 0, msg |-> NoHeader, id |-> "", creds |-> NoCreds]]

-----------------------------------------------------------------------------

\* basicProxyAuth: user and password of a well-formed Basic header, else
\* empty strings (which no token verifies).
BasicProxyAuth(h) == IF h \in {NoHeader, Malformed} THEN NoCreds ELSE h

\* ClientNoAuthAuthenticator.Authenticate: any non-empty user, as itself.
NoAuthAuthenticate(c) == [ok |-> c.user # "", id |-> c.user]

\* Mutant: the claims.AgentID == user check dropped.
JwtAuthenticateAnyAgent(c) ==
    [ok |-> c.pass # InvalidToken /\ c.pass.role = "client" /\ c.user # "",
     id |-> IF c.pass = InvalidToken THEN "" ELSE c.pass.agent]

\* ClientJwtAuthenticator.Authenticate: a verified token whose agent claim
\* is the user and whose role is "client", for a non-empty user.
JwtAuthenticate(c) ==
    [ok |-> /\ c.pass # InvalidToken
            /\ c.user = c.pass.agent
            /\ c.pass.role = "client"
            /\ c.user # "",
     id |-> IF c.pass = InvalidToken THEN "" ELSE c.pass.agent]

\* authenticate: without an auther every request passes with id "".
Authenticate(c) ==
    CASE AutherKind = "none"   -> [ok |-> TRUE, id |-> ""]
      [] AutherKind = "noauth" -> NoAuthAuthenticate(c)
      [] AutherKind = "jwt"    -> JwtAuthenticate(c)

\* Mutant: the bypass (whitelist) check dropped.
CheckCodeNoBypass(m) ==
    LET a == Authenticate(BasicProxyAuth(m.auth)) IN
    CASE ProxyOnly /\ m.method # "CONNECT"                     -> 405
      [] ~a.ok                                                 -> 407
      [] m.method = "PRI"
         \/ (m.method # "CONNECT" /\ m.scheme # "http")        -> 400
      [] OTHER                                                 -> 0

\* The status handleRequest answers before dialing, in the code's order:
\* 405, then 407, then 403, then 400; 0 when it goes on to router.Dial.
CheckCode(m) ==
    LET a == Authenticate(BasicProxyAuth(m.auth)) IN
    CASE ProxyOnly /\ m.method # "CONNECT"                     -> 405
      [] ~a.ok                                                 -> 407
      [] m.dest \in Blocked                                    -> 403
      [] m.method = "PRI"
         \/ (m.method # "CONNECT" /\ m.scheme # "http")        -> 400
      [] OTHER                                                 -> 0

-----------------------------------------------------------------------------

\* The request arrives and http.ReadRequest parses it.
Receive(r, m) ==
    /\ hreq[r].pc = "idle"
    /\ hreq' = [hreq EXCEPT ![r].pc = "read", ![r].msg = m]

\* handleRequest up to router.Dial: the answer of the first failing check
\* is written and Handle returns, or the request goes on with the client id
\* and the credentials put into its context.
Check(r) ==
    LET m == hreq[r].msg
        c == BasicProxyAuth(m.auth)
    IN
    /\ hreq[r].pc = "read"
    /\ hreq' = [hreq EXCEPT
                  ![r].pc    = IF CheckCode(m) = 0 THEN "dialing" ELSE "done",
                  ![r].code  = CheckCode(m),
                  ![r].id    = Authenticate(c).id,
                  ![r].creds = c]

\* router.Dial succeeded: a CONNECT is answered 200, any other request is
\* written upstream without its Proxy-Authorization; NetTransport runs.
DialOk(r) ==
    /\ hreq[r].pc = "dialing"
    /\ hreq' = [hreq EXCEPT
                  ![r].pc   = "tunnel",
                  ![r].code = IF hreq[r].msg.method = "CONNECT" THEN 200 ELSE 0]

\* router.Dial failed: 503.
DialFail(r) ==
    /\ hreq[r].pc = "dialing"
    /\ hreq' = [hreq EXCEPT ![r].pc = "done", ![r].code = 503]

\* NetTransport returns; the deferred Close calls end both connections.
End(r) ==
    /\ hreq[r].pc = "tunnel"
    /\ hreq' = [hreq EXCEPT ![r].pc = "done"]

====
