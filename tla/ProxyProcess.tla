---------------------------- MODULE ProxyProcess ----------------------------
(***************************************************************************)
(* The proxy and load-balancer commands (pkg/proxy/server.go,              *)
(* RunProxyServer and RunLoadBalancerServer with addQuicServer,            *)
(* addProxyHttpServer and addLoadBalancerServer; cmd/root.go) from set-up  *)
(* to exit.  Set-up builds the TLS configuration, the verifiers, the store *)
(* client and both listeners, and calls os.Exit(1) on the first error.     *)
(* Then a run group (oklog/run) runs its actors, in the order they were    *)
(* added:                                                                  *)
(*   signal  AddQuitSignal: returns on SIGINT/SIGTERM or once quit closes; *)
(*   quic    (proxy only) listenForAgents: returns when Accept fails;      *)
(*           interrupt: quicServer.Close (ConnTrack.Shutdown),             *)
(*           storeClient.Close, ln.Close;                                  *)
(*   http    ListenAndServe, that is gost's Serve (ServeLoop); interrupt:  *)
(*           srv.Shutdown, which closes the listener.                      *)
(* Run waits for the first actor to return, calls every interrupt in that  *)
(* order from its own goroutine, waits for the other actors and returns    *)
(* the first one's error, which the command only logs.                     *)
(*                                                                         *)
(* ConnTrack.Shutdown's own steps are ProxyShutdown's; here it is the one  *)
(* step that closes the agent connections (ctClosed).                      *)
(***************************************************************************)
EXTENDS Integers

CONSTANTS
    Kinds,          \* the commands: "proxy", "lb"
    MaxStreak, MaxConns

VARIABLES
    kind,           \* which command this process runs
    phase,          \* "setup", then "running" once group.Run has started
    sig,            \* the signal actor: "wait", "returned"
    quit,           \* its quit channel is closed
    qpc,            \* the QUIC actor (listenForAgents): "accept", "returned"
    qln,            \* the QUIC listener is open
    ctClosed,       \* quicServer.Close has closed the agent connections
    hpc,            \* the HTTP actor: "serve", "returned"
    first,          \* the actor that returned first, or "none"
    ipc,            \* the next interrupt group.Run calls (0: none yet)
    status,         \* the exit status, or -1 while the process runs
    pc, tempDelay, streak, lnOpen, handlers, ctxDone   \* ServeLoop's

slVars == <<pc, tempDelay, streak, lnOpen, handlers, ctxDone>>
grVars == <<kind, phase, sig, quit, qpc, qln, ctClosed, hpc, first, ipc, status>>
vars == <<grVars, slVars>>

SL == INSTANCE ServeLoop

Running == -1

TypeOK ==
    /\ SL!TypeOK
    /\ kind \in Kinds
    /\ phase \in {"setup", "running"}
    /\ sig \in {"wait", "returned"} /\ quit \in BOOLEAN
    /\ qpc \in {"accept", "returned"} /\ qln \in BOOLEAN /\ ctClosed \in BOOLEAN
    /\ hpc \in {"serve", "returned"}
    /\ first \in {"none", "signal", "quic", "http"}
    /\ ipc \in 0..4
    /\ status \in {Running, 0, 1}

\* The command line is parsed; a load balancer has no QUIC actor, so its
\* slot starts returned and closed.
Init ==
    /\ SL!Init
    /\ kind \in Kinds
    /\ phase = "setup"
    /\ sig = "wait" /\ quit = FALSE
    /\ qpc = IF kind = "proxy" THEN "accept" ELSE "returned"
    /\ qln = (kind = "proxy")
    /\ ctClosed = FALSE
    /\ hpc = "serve"
    /\ first = "none" /\ ipc = 0
    /\ status = Running

\* The actor a returns; group.Run takes the first return from its channel.
Returned(a) == first' = IF first = "none" THEN a ELSE first

-----------------------------------------------------------------------------
(* Set-up                                                                  *)

\* addQuicServer/addProxyHttpServer (or addLoadBalancerServer) either fail
\* at one of their checks (TLS, verifier, store type, listen) and call
\* os.Exit(1), or add their actors and group.Run starts them.
Setup ==
    /\ phase = "setup" /\ status = Running
    /\ \/ phase' = "running" /\ UNCHANGED status
       \/ status' = 1 /\ UNCHANGED phase
    /\ UNCHANGED <<kind, sig, quit, qpc, qln, ctClosed, hpc, first, ipc>>
    /\ UNCHANGED slVars

-----------------------------------------------------------------------------
(* The actors                                                              *)

\* SIGINT/SIGTERM, or quit closed by the interrupt: the actor returns nil.
SignalReturn ==
    /\ phase = "running" /\ sig = "wait"
    /\ sig' = "returned" /\ Returned("signal")
    /\ UNCHANGED <<kind, phase, quit, qpc, qln, ctClosed, hpc, ipc, status>>
    /\ UNCHANGED slVars

\* listenForAgents: Accept fails once the listener is closed, and the loop
\* returns the error.
QuicReturn ==
    /\ phase = "running" /\ qpc = "accept" /\ ~qln
    /\ qpc' = "returned" /\ Returned("quic")
    /\ UNCHANGED <<kind, phase, sig, quit, qln, ctClosed, hpc, ipc, status>>
    /\ UNCHANGED slVars

\* The HTTP actor runs Serve; the listener's Close is only the interrupt.
HttpServe ==
    /\ phase = "running"
    /\ SL!AcceptConn \/ SL!AcceptError \/ SL!Sleep
    /\ UNCHANGED grVars

\* Serve has returned (any error is not http.ErrServerClosed): the actor
\* returns it.
HttpReturn ==
    /\ hpc = "serve" /\ pc = "returned"
    /\ hpc' = "returned" /\ Returned("http")
    /\ UNCHANGED <<kind, phase, sig, quit, qpc, qln, ctClosed, ipc, status>>
    /\ UNCHANGED slVars

-----------------------------------------------------------------------------
(* group.Run after the first return                                        *)

\* The group calls the interrupts in order: the signal actor's close(quit).
InterruptSignal ==
    /\ first # "none" /\ ipc = 0
    /\ quit' = TRUE
    /\ ipc' = IF kind = "proxy" THEN 1 ELSE 3
    /\ UNCHANGED <<kind, phase, sig, qpc, qln, ctClosed, hpc, first, status>>
    /\ UNCHANGED slVars

\* The QUIC actor's interrupt, first half: quicServer.Close closes every
\* agent connection (ConnTrack.Shutdown) and storeClient.Close returns.
InterruptQuicConns ==
    /\ ipc = 1
    /\ ctClosed' = TRUE /\ ipc' = 2
    /\ UNCHANGED <<kind, phase, sig, quit, qpc, qln, hpc, first, status>>
    /\ UNCHANGED slVars

\* Mutant: the interrupt forgets ln.Close.
InterruptQuicListenerKeepOpen ==
    /\ ipc = 2
    /\ ipc' = 3
    /\ UNCHANGED <<kind, phase, sig, quit, qpc, qln, ctClosed, hpc, first, status>>
    /\ UNCHANGED slVars

\* Second half: ln.Close.
InterruptQuicListener ==
    /\ ipc = 2
    /\ qln' = FALSE /\ ipc' = 3
    /\ UNCHANGED <<kind, phase, sig, quit, qpc, ctClosed, hpc, first, status>>
    /\ UNCHANGED slVars

\* The HTTP actor's interrupt: srv.Shutdown closes the listener (still
\* open: a Serve that failed on its own left it so).
InterruptHttp ==
    /\ ipc = 3
    /\ SL!Shutdown
    /\ ipc' = 4
    /\ UNCHANGED <<kind, phase, sig, quit, qpc, qln, ctClosed, hpc, first, status>>

\* Every actor has returned: Run returns the first error, the command logs
\* it and returns, and runProxy/runLoadBalancer return nil to
\* FatalIfErrorf, so the process exits with status 0.
Exit ==
    /\ ipc = 4 /\ status = Running
    /\ sig = "returned" /\ qpc = "returned" /\ hpc = "returned"
    /\ status' = 0
    /\ UNCHANGED <<kind, phase, sig, quit, qpc, qln, ctClosed, hpc, first, ipc>>
    /\ UNCHANGED slVars

GroupStep ==
    InterruptSignal \/ InterruptQuicConns \/ InterruptQuicListener
    \/ InterruptHttp \/ Exit

Next ==
    \/ Setup \/ SignalReturn \/ QuicReturn \/ HttpServe \/ HttpReturn
    \/ GroupStep

\* The group's goroutine and the actors run once they can: a closed
\* listener fails Accept at once, Sleep ends, the select sees quit.  A
\* signal, a client and an Accept error are not fair.
Fairness ==
    /\ WF_vars(GroupStep) /\ WF_vars(QuicReturn) /\ WF_vars(HttpReturn)
    /\ WF_vars(HttpServe /\ pc = "sleep")
    /\ WF_vars(HttpServe /\ ~lnOpen)
    /\ WF_vars(SignalReturn /\ quit)

Spec == Init /\ [][Next]_vars /\ Fairness

-----------------------------------------------------------------------------
(* Properties                                                              *)

\* Serve's backoff, inside the process (service.go's tempDelay ladder).
BackoffFollowsReference == SL!BackoffFollowsReference

\* Serve returns and cancels its handlers once its listener is closed.
ServeReturnsAfterClose == SL!ServeReturnsAfterClose

\* The run group's shutdown completes (Run's interrupts, listenForAgents'
\* and Serve's return on a closed listener): once any actor has returned,
\* a quit signal or a broken listener alike, the process exits, after
\* the agent connections were closed if it is a proxy.
ProcessExits ==
    (first # "none") ~> (status # Running /\ (kind = "proxy" => ctClosed))

====
