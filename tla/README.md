# TLA+ models of reverse-http

These modules model reverse-http (`src/`) for the TLC model checker:
- the agents' QUIC tunnels to the proxies, and the handshake on each tunnel's first stream;
- the proxy's table of live agent connections (ConnTrack) and the tracer callbacks that feed it;
- the shared memcached registry that the load balancer routes by;
- a client request through the load balancer, a proxy and an agent, each an HTTP CONNECT handler;
- the bypass whitelist the handlers consult before they dial;
- the byte pump of an established tunnel (NetTransport) over the client's TCP connection, the agent's QUIC stream and the destination's TCP connection;
- the processes themselves: the agent's start-up (its authenticator from the configuration) and the run groups of the agent, proxy and load-balancer commands, from set-up to exit.

`PROJECT.json` lists the components, the runs, the mutants that show each property can fail, the map from every definition to the lines of Go it models, the findings and the hazards.

## The system and its parts

| Part | Source | Module | Status |
|---|---|---|---|
| ConnTrack | `pkg/proxy/conntrack.go`, `syncedmap.go` | ConnTrack, ProxyShutdown | modelled |
| QUIC agent server | `pkg/proxy/quic.go`, `server.go` (Tracer, run group), `pkg/util/signal.go` | ConnTrack, AuthFlow, ProxyShutdown | modelled |
| Registry store | `pkg/store/memcached/client.go`, `pkg/store/none` | Registry, ConnTrack | modelled |
| Agent client | `pkg/agent/quic.go` (RunAgentClient, getAuthenticator, getJWTToken, keepConnected, connectForHttpProxy) | AgentStartup, AgentClient, AuthFlow, AgentConnection | modelled: the per-stream goroutines are RequestPath's agent hop up to 200 and AgentConnection's agent hop after it |
| Auth handshake | `pkg/agent/authflow.go`, `auth_jwt.go`, `auth_noauth.go` | AuthFlow | modelled |
| HTTP proxy handler | `pkg/gost/handler.go`, connector, chain route | HttpHandler, RequestPath | modelled per request |
| Byte pump | `pkg/gost/nettransport.go`, `handler.go` (the tail of handleRequest, Handle's deferred close), `pkg/util/quic.go` | TunnelStream, AgentConnection | modelled |
| Agent and LB dialers | `pkg/proxy/quic.go` (DialAgent), `loadbalancer.go`, `proxy.go` | RequestPath | modelled |
| Whitelist | `pkg/util/whitelist.go` | Whitelist | modelled |
| Listener accept loop | `pkg/gost/service.go`, `listener.go`, `pkg/proxy/proxy.go` (Shutdown) | ServeLoop, ProxyProcess | modelled |
| Server run groups | `pkg/proxy/server.go` (RunProxyServer, RunLoadBalancerServer, addQuicServer, addProxyHttpServer, addLoadBalancerServer), `pkg/util/signal.go`, `cmd/root.go` | ProxyProcess | modelled |
| Config, CLI, logging, JWT signing, TLS files | `config/`, `cmd/`, `pkg/logger`, `pkg/jwtutil` | AgentStartup, ProxyProcess | partly: the agent's auth options and the command dispatch; the rest is parsing and I/O |

How the parts interact:
- An agent dials QUIC to a proxy and sends its token, length-prefixed, on the first stream (AuthFlow).
- The proxy's handler goroutine verifies the token, answers "authenticated", and calls `PutConn`.
- PutConn records the agent id for the connection, swaps the connection into `agentConns` (closing a predecessor with 409), and writes `agentID → proxy address` into the registry.
- quic-go calls the tracer's Close hook when a connection closes for any reason. OnConnClose then removes the connection and, if it was still the agent's current one, deletes the registry key.
- On SIGINT/SIGTERM a proxy's run group interrupts the agent server: ConnTrack.Shutdown closes the connections it finds and deletes their registry keys, then the store client and the QUIC listener are closed, and the process exits without waiting for the handler goroutines.
- Every command runs an oklog run group: each actor in its own goroutine; when the first returns, `group.Run` calls every actor's interrupt in the order they were added, waits for the others and returns the first error. The proxy's actors are the quit signal, the QUIC agent server and the HTTP proxy server; the load balancer's the quit signal and its HTTP server; the agent's the quit signal and the agent client.
- Once a handler has answered 200 it runs NetTransport: two goroutines copy one direction each, the first to end makes NetTransport return, and Handle's deferred closes shut both connections; the other goroutine ends when its next read or write fails. Closing a TCP connection ends both its directions; closing a QUIC stream (`util.QuicConn` embeds it) only sends FIN. So a tunnel ends hop by hop.
- A client sends CONNECT either to a proxy or to the load balancer. The load balancer reads the registry and forwards the CONNECT, with the client's credentials, to the owning proxy. The proxy's handler calls DialAgent: GetConn, then OpenStreamSync on that connection. The agent's handler dials the destination.

## Modules

- **Registry.tla**: the gomemcache primitives the store client calls (Get, Set, CompareAndSwap, Delete), one atomic request each. A CAS unique only matters by whether it is still the one read, so a handler keeps a `fresh` flag that ConnTrack's `Touch` clears on every store or delete of the key.
- **ConnTrack.tla**: the proxy side. Each connection `c` has two goroutines:
  - `hpc[c]`, the listenForAgents handler: `verify → put_track → put_swap → set_get → set_add/set_verify | set_cas → done`;
  - `cpc[c]`, the tracer Close hook running OnConnClose: `cb_getdel → cb_check → del_get → del_del → done`.

  Each `sync.Map` call and each memcached request is one action. Store I/O errors are bounded by `MaxStoreErrors`. `StoreType = "none"` models `pkg/store/none`, whose Set and Delete return nil at once.
- **AgentClient.tla**: an agent process's `keepConnected` loop, `dial → auth → serve`, back to `dial` when authentication or AcceptStream fails.
- **TunnelSystem.tla**: composes AgentClient and ConnTrack over the shared connection state, with faults (`ConnLost`; `AgentAuthTimeout`, which closes with code 0) bounded by `MaxFaults`. It holds the tunnel properties.
- **AuthFlow.tla**: one handshake. The agent's `authenticate` and the proxy's `verify` exchange frames over two stream records (`up`, `down`: header, bytes written, closed). A length is `LenBits` wide (uint32, scaled down) and is truncated before the bound check, as `writeString` does. The verifier (JWT or no-auth) and whether the peer runs the agent's code are chosen in Init. A peer that is not the agent may stop mid-frame and keep the connection alive (`AStall`).
- **HttpHandler.tla**: one `Handle` goroutine per request: `idle → read → (done | dialing → tunnel | done) → done`. `CheckCode` is handleRequest's order of checks: 405, 407, 403, 400. The client authenticators are `NoAuthAuthenticate` and `JwtAuthenticate`.
- **RequestPath.tla**: three HttpHandler instances (LB, proxy, agent) joined by what their routers and connectors do. The tunnels (`tun[p][a]`, what agentConns holds) and the registry are an environment that changes as TunnelSystem allows: a new connection replaces the entry, an open one closes, its callback removes it, and the registry may name any proxy or none. A connector's read of the next hop's status line may fail after that hop answered 200: at the proxy when the agent's connection is closed or replaced before the line is read (`PXRefused` races `PXConnected`), at the LB when its TCP link to the proxy breaks (`LBLinkLost`, not fair).
- **RequestSpec.tla**: what the data plane promises a request, without handlers: `idle → pending → reached → connected → answered`, with the gate's status in spec 4.E's order; `Fail` (503) may end a pending, reached or connected request, since a status line can be lost on its way back. `agent` is the agent a request is with until it is answered. RequestPath implements it under the mapping `AbstractReq`: connected once the agent answered 200, reached once a stream is open.
- **Whitelist.tla**: `AddFromString`, `Contains` and `IsAddrAllowed` as operators over an abstract domain (IPs as a family and a few bits, names as label sequences, port specs). `PatternAdmits` is a reference definition of what one pattern means, taken from spec 4.A.
- **ProxyShutdown.tla**: the end of a proxy process. `life[p]` is `up → stopping → closed → exited`; `spc[p]` is the interrupt's goroutine. `Shutdown` is the quit signal with ConnTrack.Shutdown's `Entries()` snapshot and its closes with code 0 (one step: a Swap racing the Range is seen or not). `ShutdownDelGet`/`ShutdownDelDel`/`ShutdownDelError` are its Delete loop, one memcached request per step. `ListenerClose` is `storeClient.Close` (no state change) and then `ln.Close`: Accept fails from then on. `Exit` is `group.Run` returning: the process's goroutines stop where they are, its maps are gone, its open connections die without a close callback, and the registry keeps what it holds. TunnelSystem adds these steps per proxy of `Stoppable`, and lets agents dial only a listening proxy.
- **ServeLoop.tla**: `defaultService.Serve`, the accept loop of the HTTP proxy and load-balancer servers. `pc` is `accept → sleep → accept` on a temporary error and `returned` on any other; `tempDelay` follows `NextDelay` (5 ms, doubling, capped at 5 s) and is reset by an accepted connection, which spawns a handler (`handlers`). Returning runs the deferred cancel (`ctxDone`). `Shutdown` is `HttpProxyServer.Shutdown`, which only closes the listener; Accept then returns `net.ErrClosed`, which is not temporary. `streak`, the temporary errors since the last connection, is an auxiliary variable for the reference `RefDelay`.
- **AgentStartup.tla**: the agent process. The agent actor (`apc`: `start → client → keep → returned`) runs `getAuthenticator` (`GetAuthenticator`, with `getJWTToken`'s `file:` handling and `strings.TrimLeft` as the recursive `TrimLeft`), then `NewQuickClient`, whose TLS set-up may fail, then waits in keepConnected for its context. The signal actor (`spc`) returns on a signal or once `quit` closes; `Interrupt` is the group's cancel() and close(quit); `Exit` is runAgent returning nil. Strings are sequences over a small alphabet, files a function from names to contents. `RefAuthenticator` is the reference: the same with `strings.TrimPrefix`.
- **ProxyProcess.tla**: the proxy and load-balancer commands. `Setup` is addQuicServer/addProxyHttpServer (or addLoadBalancerServer) either reaching `group.Run` or calling `os.Exit(1)`. The actors: `SignalReturn`, `QuicReturn` (listenForAgents returning once its listener is closed), and the HTTP actor, which is a ServeLoop instance (`HttpServe` its accept, error and sleep steps, `HttpReturn` Serve's return). `first` is the first actor to return; `ipc` steps through the interrupts in the order they were added: close(quit), quicServer.Close (ConnTrack.Shutdown, as one step `ctClosed`; ProxyShutdown has its inside), ln.Close, srv.Shutdown. `Exit` sets status 0 once every actor has returned.
- **TunnelStream.tla**: the byte pump over a chain of links (`LinkKinds`, "tcp" or "quic"), a handler between each two. `pipe[l][d]` is a direction of a link: the bytes in flight (at most `Cap`, the socket buffer or stream window), `fin` (its writer closed it), `rcl` (its reader's side was closed: TCP only) and `rst`. `cp[h][d]` is a copy goroutine of hop `h`: `read → write → read …` and `done` on EOF or an error (`CopyRead`, `CopyWrite`, `CopyEnd`, `CopyWriteFail`). `Return` is NetTransport's `<-errc` on the first `done`, then Handle's `cc.Close()` and `conn.Close()` (`CloseHop`, by link kind `CloseSide`). `CopyWriteClosedFull` is a Write blocked on a full stream window when its own handler closes the stream: quic-go forbids Close concurrent with Write, so it may fail or stay blocked, and no fairness forces it. The endpoints write (up to `MaxData[e]` bytes), read and close; `ConnLost` is the QUIC connection's death. `clean` records that the destination closed after reading every byte the client sent and that the client sent none after.
- **AgentConnection.tla**: an AuthFlow handshake and, on the same connection (`open` shared), a TunnelStream tunnel `tcp, quic, tcp`. The tunnel's steps are enabled only when `Established`: the agent's authenticate returned and the proxy went on to PutConn, which is when DialAgent can find the connection and the agent calls AcceptStream.
- **MC\*.tla**: the model values, lengths, claims and symmetry sets for the .cfg files.

Connection ids in TunnelSystem name slots. When a closed connection is *forgotten* (both goroutines have returned and nothing refers to it), its slot may be accepted again as a new connection (`Reusable`). This keeps reconnects unbounded with three slots, as quic-go's fresh random ids allow.

## Runs

| Run | Module / cfg | Expect | What it shows |
|---|---|---|---|
| safety | MCTunnelSystem / MCSafety.cfg | pass | One proxy with memcached that may be shut down, two agent processes with one agent id, 2 slots, 1 fault, 1 store error: `TrackedOnlyWhileOpen`, `AtMostOneOpenTunnel`, `SupersedeClosesPredecessor` (≈848K states, symmetry over slots and processes). |
| live | MCTunnelSystem / MCLive.cfg | pass | Two proxies with the default `none` store, one agent, 2 faults, and p1 may be shut down: the agent ends up serving an open connection its proxy holds, at p2 if p1 has gone (`AgentEventuallyLive`, ≈829K states). The safety properties are the safety run's. |
| same_id_thrash | MCTunnelSystem / MCThrash.cfg | violation | `OwnerEventuallyStable`: two processes with one id supersede each other for ever. |
| close_race | MCTunnelSystem / MCCloseRace.cfg | violation | `CloseIsFinal`: PutConn's Swap or Set lands after the connection's close callback. |
| registry_lost | MCTunnelSystem / MCRegistryLost.cfg | violation | `RegistryNotLost`: OnConnClose's non-atomic Delete removes the entry the agent's next connection just wrote. |
| whitelist | MCWhitelist / MCWhitelist.cfg | pass | Every whitelist of up to two patterns of every form: `AllowedOnlyIfAdmitted`, `SingleMatchDecides` (26K states). |
| request | MCRequestPath / MCRequest.cfg | pass | A client entering at the load balancer (over a stale or empty registry) or directly at a JWT proxy, two agent ids, tunnels changing at any time and status lines lost after a 200: `RequestAnswered`, `ImplementsRequestSpec` (≈137K states). |
| shutdown_stale | MCTunnelSystem / MCShutdown.cfg | violation | `RegistryEventuallyHealed`: two proxies, p1 shut down while its handler is in PutConn; the registry names the exited p1 for good, with no fault and no store error (≈19K states). |
| agent_connection | MCAgentConnection / MCAgentConnection.cfg | pass | The handshake with both verifiers, honest and stalling peers, a token over the length bound, then a tunnel on each connection that authenticated, with one-byte windows: `HandshakeAgreement`, `HandshakeTerminates`, `ResponseComplete`, `TunnelTearsDown` (256K states, about 50 s). |
| authflow_stall | MCAuthFlow / MCAuthFlowStall.cfg | violation | `VerifyTerminates`: a peer that stops mid-frame holds the proxy's verify for ever. |
| proxy_process | ProxyProcess / MCProxyProcess.cfg | pass | Both server commands, set-up failures, any actor returning first, Serve with up to 12 temporary Accept errors in a row and 2 connections: `BackoffFollowsReference`, `ServeReturnsAfterClose`, `ProcessExits` (2,698 states). |
| token_file | MCAgentStartup / MCTokenFile.cfg | violation | `TokenFromNamedFile`: getJWTToken cuts `file:` with TrimLeft, so `--auth.jwt.token=file:lx` reads the file `x` (36 states). |

The properties, and the code each is about:
- `SupersedeClosesPredecessor` (action property; PutConn's Swap, OnConnClose's compare): an open connection leaves `agentConns` only when a newer connection of the agent replaces it, and it is closed with 409 in that step.
- `TrackedOnlyWhileOpen` (PutConn's Get-then-CompareAndSwap against OnConnClose's GetAndDelete): `trackedConns` holds a connection only while it is open or its callback has yet to run.
- `AtMostOneOpenTunnel` (spec E2): among an agent's open connections at a proxy, at most one is past the Swap.
- `CloseIsFinal`, `RegistryNotLost` (spec 3 and invariant 4): agentConns holds only open connections, and the registry follows ownership once nothing is in flight.
- `AgentEventuallyLive`, `OwnerEventuallyStable`: reconnect converges; the owner of an id settles.
- `RegistryEventuallyHealed` (spec 3: a leaked entry is "mitigated by agent reconnect"; the interrupt's order, PutConn's Set): once faults stop, the registry names no exited proxy.
- `HandshakeAgreement` (writeString/readString framing, verify's order): the proxy goes on to PutConn only with the whole token, and the agent succeeds only after the proxy verified it.
- `TunnelTearsDown` (NetTransport's return on the first copy, Handle's deferred closes, the QUIC stream's half-close): once an endpoint closes or the connection dies, both handlers return and each endpoint sees its connection end.
- `ResponseComplete` (the order of data and FIN on each close): if the destination closes after reading everything the client sent, and the connection stays up, the client sees EOF only after every byte the destination wrote.
- `HandshakeTerminates`, `VerifyTerminates`: with the agent's code both sides return; with any peer, the proxy's goroutine returns.
- `RequestAnswered` (handleRequest, the connector's wait for the status line): every request is eventually answered or tunnelled.
- `ImplementsRequestSpec` (refinement): the request path answers the gate's status, reaches only an open tunnel of the authenticated agent, and answers 200 only if the agent connected.
- `BackoffFollowsReference` (Serve's tempDelay ladder and reset): after k temporary errors in a row the sleep is 5·2^(k-1) ms, at most 5 s.
- `ServeReturnsAfterClose` (Serve's Temporary test, the deferred cancel): once the listener is closed, Serve returns and cancels its handlers' context.
- `ProcessExits` (the run group's interrupts, the signal actor's select, listenForAgents' and Serve's return on a closed listener): once any actor of a server command has returned, the process exits, a proxy only after closing its agent connections.
- `TokenFromNamedFile` (getJWTToken, spec 9): with `file:<name>` the agent sends the contents of `<name>`.
- `AllowedOnlyIfAdmitted`, `SingleMatchDecides`: the whitelist against `PatternAdmits`.

Each passing property has a mutant in PROJECT.json: a plausible bug in a mapped definition (a dropped 409 close, an unchecked CompareAndSwap, a missing agent-id check, a reply sent before verification, a deadline that does not close the connection, a dropped bypass check, ...) under which TLC finds the property violated.

## Bounds

- **Connection slots:** three in the request-free tunnel runs without shutdown, enough for a stale connection, its successor and a third that a cascade kills. The safety run has two so that the shutdown path fits in time; every safety mutant is still caught with two. Slots are reused, so an agent may reconnect any number of times.
- **Faults and store errors:** one fault starts every cascade found. One store error reaches both the Set and the Delete error paths.
- **Proxies:** two proxies appear where an agent moves between them (shutdown_stale and live). The request run has one proxy and two agent ids: a registry entry that names a proxy which has lost the agent (or none) is the stale case the LB meets, and the second id is what a token of one agent presented under the other, or a stream to the wrong agent, needs; two proxies and two ids do not fit TLC's time. The safety properties are per proxy, so one proxy suffices there.
- **Requests:** one request per run. Handlers of different requests share nothing but the tunnels and the registry, and those are already arbitrary environment steps. `MaxConnects = 2` lets a tunnel be replaced while a request holds the old one.
- **Agent start-up:** two agent ids (one empty), a plain token and four `file:` values: a name made only of prefix characters besides the one the prefix ends with (`lx`), a missing file, an empty file, a plain file. `file:lx` is the smallest value on which TrimLeft and TrimPrefix differ.
- **Accept loop:** `MaxStreak = 12` temporary errors in a row reach the cap (5·2^10 ms > 5 s) and stay on it; two connections reset the ladder between streaks.
- **Tunnel:** one tunnel per connection (tunnels of one connection share only `open`). Windows of one byte, so that a writer blocks; the client writes two bytes, one more than a window and a held byte need to reach the stuck Write, and the destination one. The chain is the direct one; the load balancer adds a TCP-to-TCP hop, whose closes are the TCP case already in the chain.
- **Handshake lengths:** `LenBits = 3` and `MaxLen = 4` keep the length field's wrap-around (an 8-byte wire length) within reach of a 9-byte id. Tokens of one, two and three bytes cover partial arrival.

## Fairness

- Every goroutine step gets weak fairness: handlers, close callbacks, and the proxy's and agent's handshake steps. They are ordinary goroutines that run once runnable.
- The agent's dial loop gets weak fairness: its 1 s ticker fires for ever while the context is live.
- Deadlines (the agent's 3 s, the proxy's AcceptStream) and the accept loop's `time.Sleep` get weak fairness, because time passes. A blocked Accept is fair only once the listener is closed, when it returns at once.
- In RequestPath, each hop's next step is weakly fair as one disjunction of its outcomes (for example `PXConnected \/ PXRefused`). The tunnel environment decides which outcome, so it may close a tunnel at any time.
- Once a quit signal has arrived, the rest of the interrupt and the exit get weak fairness: the run group calls the interrupts and returns. The signal itself gets none.
- In TunnelStream the copy goroutines and `Return` are weakly fair (goroutines), and so is an endpoint's read: an endpoint keeps reading until its connection ends. One that stops reading holds the tunnel by flow control, as the code allows. Endpoint writes and closes, the connection's loss and the stuck Write's failure are not fair.
- In ProxyProcess the run group's goroutine (`GroupStep`) is weakly fair, and so is each actor's return once its interrupt has acted: Accept on a closed listener, Serve's sleep, the signal actor's select on a closed `quit`. A signal, a client connection and an Accept error are not fair. AgentStartup has no liveness property and no fairness.
- The environment and faults get no fairness: connection losses, store errors, tunnel and registry changes, and a stalling peer.

## Divergences noted while modelling

- **Gate order:** handleRequest checks 405, 407, 403, 400, while spec 4.E orders them 405, 400, 407, 403. Every hop but the agent's is proxyOnly, and every request that reaches a check past 405 is a CONNECT with scheme http. So the difference is unobservable, and RequestSpec keeps the spec's order.
- **Length wrap-around in writeString:** `writeString` (`pkg/agent/authflow.go:73`) converts `len(bs)` to uint32 before comparing it with MaxAuthMessageLength, so a message of 2^32 + k bytes is announced as k bytes and passes. With `LenBits = 3`, `MaxLen = 4`, the no-auth verifier and a 9-byte id, AuthFlow showed the proxy registering a prefix of the id. It takes a 4 GiB agent id, so no run keeps it; the passing authflow run checks the over-bound case that does not wrap.
- **First match in the whitelist:** `IsAddrAllowed` returns the verdict of the first pattern that names the host, so `a.com:80,a.com` denies port 443 although the second pattern allows every port. Spec 4.A says nothing about overlapping patterns; the passing whitelist run checks the single-match case (`SingleMatchDecides`).
- **Exit status after a runtime failure:** `RunAgentClient` returns nil and `RunProxyServer`/`RunLoadBalancerServer` return nothing, so runAgent, runProxy and runLoadBalancer pass nil to `FatalIfErrorf` and the process exits with 0. That holds after the HTTP listener failed for good (a non-temporary Accept error) and after the agent's TLS set-up failed in NewQuickClient, while spec.md ("Exit codes") asks for a non-zero status in both. The models' `Exit` sets 0 as the code does; no run states the spec's rule as a property.
- **Half-close:** NetTransport returns on the first EOF and Handle closes both connections, as spec 4.J prescribes ("until either side EOFs"). A client that shuts down its write side after its request therefore gets no response. Likewise, when the agent connection dies, the client sees a normal FIN. TunnelStream's endpoints close fully, and `ResponseComplete` is stated for a connection that stays up.
- **Findings:** the violations above are written up in PROJECT.json. Each one gives the code's lines and the spec's words.

## What is not modelled and why

- **A proxy crash** without its interrupt: it is Exit without the Delete loop, so shutdown_stale already shows the worse case's outcome. The HTTP proxy server's interrupt is ServeLoop's `Shutdown`; ProxyProcess composes it with the rest of the run group, where ConnTrack.Shutdown is one step, and ProxyShutdown has ConnTrack.Shutdown's steps inside TunnelSystem. ProxyShutdown's `Exit` stands for `group.Run` returning, which ProcessExits shows happens.
- **A memcached liveness run with two proxies:** `AgentEventuallyLive` fails there through the registry_lost livelock, so the reconnect liveness run keeps the `none` store.
- **Bytes before the 200:** Handle parses the request through a `bufio.Reader` that is then dropped, so bytes a client sends right after its CONNECT may be lost. TunnelStream counts bytes from the 200 on; the request parsing is not modelled (hazard listed).
- **quic-go's Close concurrent with a blocked Write:** left open (`CopyWriteClosedFull`); no property claims the second copy goroutine ends.
- **Not planned:**
  - TLS, JWT signing and parsing (a token is abstracted to the claims VerifyToken finds), configuration, CLI, logging;
  - quic-go and memcached internals beyond the primitives above.

## Plan for later sittings

1. **Exit status run:** a violation run of the spec's exit-code rule, if a run slot frees.
2. **Load-balancer tunnels:** TunnelStream with `<<"tcp", "tcp", "quic", "tcp">>`, if the run time allows.
3. **Larger tunnel bounds** where time allows: three slots with shutdown, two proxies in the safety run.
