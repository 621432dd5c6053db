----------------------------- MODULE TunnelSystem -----------------------------
(***************************************************************************)
(* Agents and proxies together: agent processes (AgentClient) dial QUIC    *)
(* connections to the proxies (ConnTrack), which register them in the      *)
(* shared memcached registry.  The transport may lose a connection and an  *)
(* agent may give up on a slow authentication; both are faults, bounded by *)
(* MaxFaults.  A proxy of Stoppable may receive a quit signal and end its  *)
(* process (ProxyShutdown); the agents then dial the proxies still up.     *)
(***************************************************************************)
EXTENDS Naturals, FiniteSets

CONSTANTS
    Proxies, AgentIds, AgentProcs, AgentIdOf, Conns,
    None, Unauth, Untracked,
    MaxStoreErrors, StoreType,
    MaxFaults,      \* bound on lost connections and agent auth timeouts
    Stoppable       \* proxies that may be shut down

ASSUME AgentIdOf \in [AgentProcs -> AgentIds]

VARIABLES
    conn, tracked, agentConns, items, hpc, cpc, storeErrors,
    agent,
    faults,         \* faults injected so far
    life, spc       \* proxy process lifecycle and shutdown goroutine

ctVars == <<conn, tracked, agentConns, items, hpc, cpc, storeErrors>>
psVars == <<life, spc>>
vars == <<ctVars, agent, faults, psVars>>

CT == INSTANCE ConnTrack
AC == INSTANCE AgentClient
PS == INSTANCE ProxyShutdown

TypeOK ==
    /\ CT!TypeOK
    /\ AC!TypeOK
    /\ faults \in 0..MaxFaults
    /\ PS!TypeOK

Init ==
    /\ CT!Init
    /\ AC!Init
    /\ faults = 0
    /\ PS!Init

-----------------------------------------------------------------------------

\* The agent dials; whichever listening proxy its server address reaches
\* accepts.
AgentDial(g) ==
    \E c \in Conns, p \in Proxies :
        /\ PS!Listening(p)
        /\ AC!Dial(g, c)
        /\ CT!Accept(c, p, AgentIdOf[g])
        /\ \A h \in AgentProcs : agent[h].conn # c
        /\ UNCHANGED <<faults, psVars>>

AgentAuthDone(g) ==
    /\ AC!AuthDone(g)
    /\ UNCHANGED <<ctVars, faults, psVars>>

\* authenticate fails on a connection that is already closed.
AgentAuthFail(g) ==
    /\ AC!AuthFail(g)
    /\ conn[agent[g].conn].state = "closed"
    /\ UNCHANGED <<ctVars, faults, psVars>>

\* authenticate times out before the proxy has answered; the deferred
\* CloseWithError(0, "client connection closed") closes the connection.
AgentAuthTimeout(g) ==
    LET c == agent[g].conn IN
    /\ AC!AuthFail(g)
    /\ faults < MaxFaults
    /\ conn[c].state = "open"
    /\ ~AC!Authenticated(c)
    /\ CT!CloseWithError({c}, 0)
    /\ UNCHANGED <<tracked, agentConns, items, hpc, storeErrors, psVars>>
    /\ faults' = faults + 1

AgentAcceptFail(g) ==
    /\ AC!AcceptFail(g)
    /\ UNCHANGED <<ctVars, faults, psVars>>

ConnLost ==
    /\ faults < MaxFaults
    /\ \E c \in Conns : conn[c].state = "open" /\ CT!ConnLost(c)
    /\ faults' = faults + 1
    /\ UNCHANGED <<agent, psVars>>

ProxyStep ==
    /\ CT!ProxyStep
    /\ UNCHANGED <<agent, faults, psVars>>

\* A step of a proxy's quit path after the signal: the Delete loop, the
\* listener close, the process exit.
ShutdownProceeds(p) ==
    /\ \/ PS!ShutdownDelGet(p) \/ PS!ShutdownDelDel(p)
       \/ PS!ListenerClose(p) \/ PS!Exit(p)
    /\ UNCHANGED <<agent, faults>>

\* The quit signal, a step of the quit path, or a store error in it.
ProxyShutdown(p) ==
    \/ ShutdownProceeds(p)
    \/ /\ PS!Shutdown(p) \/ PS!ShutdownDelError(p)
       /\ UNCHANGED <<agent, faults>>

\* Nothing is left to run: every goroutine has returned, no proxy is part
\* way through its quit path, and every agent is serving a live connection
\* or has no proxy left to dial.  The system then idles: agents block in
\* AcceptStream until a fault, or keep failing to dial.
Idle ==
    /\ \A c \in Conns : CT!Settled(c)
    /\ \A p \in Proxies : life[p] \in {"up", "exited"}
    /\ \A g \in AgentProcs :
          \/ agent[g].pc = "serve" /\ conn[agent[g].conn].state = "open"
          \/ \A p \in Proxies : ~PS!Listening(p)
    /\ UNCHANGED vars

Next ==
    \/ \E g \in AgentProcs :
          \/ AgentDial(g) \/ AgentAuthDone(g) \/ AgentAuthFail(g)
          \/ AgentAuthTimeout(g) \/ AgentAcceptFail(g)
    \/ ConnLost
    \/ ProxyStep
    \/ \E p \in Proxies : ProxyShutdown(p)
    \/ Idle

\* Every goroutine step is taken once it stays enabled: handlers and close
\* callbacks run to completion, and an agent whose connection failed dials
\* again on the next tick.  Once a quit signal has come, the interrupt
\* runs to its end and the process exits.  Faults, store errors and the
\* quit signal itself are not fair.  (A proxy goroutine step
\* changes only ConnTrack's variables, so its fairness is stated on them.)
Fairness ==
    /\ \A c \in Conns :
          /\ WF_ctVars(CT!VerifyOk(c) \/ CT!VerifyFail(c))
          /\ WF_ctVars(CT!PutTrack(c) \/ CT!PutSwap(c))
          /\ WF_ctVars(CT!SetGetMiss(c) \/ CT!SetGetHit(c) \/ CT!SetAdd(c)
                     \/ CT!SetVerify(c) \/ CT!SetCas(c))
          /\ WF_ctVars(CT!CbGetAndDelete(c) \/ CT!CbCheck(c)
                     \/ CT!DelGet(c) \/ CT!DelDel(c))
    /\ \A p \in Proxies :
          WF_vars(ShutdownProceeds(p))
    /\ \A g \in AgentProcs :
          WF_vars(AgentDial(g) \/ AgentAuthDone(g) \/ AgentAuthFail(g)
                  \/ AgentAcceptFail(g))

Spec == Init /\ [][Next]_vars

FairSpec == Spec /\ Fairness

-----------------------------------------------------------------------------
(* Properties                                                              *)

\* The connection agentConns[p][a] holds, or None.
LiveConn(p, a) == agentConns[p][a]

ProxyOf(c) == conn[c].proxy
AgentOf(c) == conn[c].agent

\* Every goroutine of every connection has returned.
AllSettled == \A c \in Conns : CT!Settled(c)

\* Supersede and race-safe close (PutConn, OnConnClose): an open
\* connection leaves a proxy's agentConns only by being replaced by a newer
\* connection of the same agent, and then it is closed with 409 in the same
\* step.  A late close callback of a superseded connection, or any other
\* step, never removes or replaces the entry of a connection that is open
\* (short of the process exiting, which drops the whole map).
SupersedeClosesPredecessor ==
    [][\A p \in Proxies, a \in AgentIds :
         LET c == LiveConn(p, a) IN
         (c # None /\ conn[c].state = "open" /\ agentConns'[p][a] # c
            /\ life'[p] # "exited")
            => /\ agentConns'[p][a] # None
               /\ conn'[c].state = "closed"
               /\ conn'[c].code = 409]_vars

\* trackedConns does not leak (PutConn's "still empty" check before its
\* CompareAndSwap, OnConnClose's GetAndDelete): a connection id is in a
\* proxy's trackedConns only while the connection is open or its close
\* callback has yet to run, however PutConn and the callback interleave.
TrackedOnlyWhileOpen ==
    \A p \in Proxies, c \in Conns :
        tracked[p][c] # Untracked
            => conn[c].state = "open" \/ cpc[c].pc = "cb_getdel"

\* One tunnel per agent and proxy (PutConn's Swap and 409 close): of the
\* open connections of an agent at a proxy, at most one has got past
\* PutConn's Swap, so DialAgent has a single live tunnel to open streams on.
AtMostOneOpenTunnel ==
    \A p \in Proxies, a \in AgentIds :
        \A c1, c2 \in {c \in Conns :
                         /\ conn[c].state = "open"
                         /\ ProxyOf(c) = p /\ AgentOf(c) = a
                         /\ hpc[c].pc \notin {"idle", "verify", "put_track", "put_swap"}} :
            c1 = c2

\* The registry follows ownership (spec 3, invariant 4): when nothing is in
\* flight, an agent that some proxy holds on an open connection is in the
\* registry, so the load balancer can route to it.
RegistryNotLost ==
    AllSettled =>
        \A p \in Proxies, a \in AgentIds :
            (LiveConn(p, a) # None /\ conn[LiveConn(p, a)].state = "open")
                => items[a] # None

\* A close is final (spec 3 and invariant 4: ConnTrack and the registry
\* hold an agent only while its QUIC connection is open), however PutConn
\* and the close callback interleave:
\*   - once the goroutines of a closed connection have returned, no proxy
\*     still holds it in agentConns, where DialAgent would hand it out;
\*   - when nothing is in flight, the registry names for an agent only a
\*     proxy that holds a connection of that agent.
CloseIsFinal ==
    /\ \A c \in Conns :
          (conn[c].state = "closed" /\ CT!Settled(c))
              => \A p \in Proxies, a \in AgentIds : LiveConn(p, a) # c
    /\ AllSettled =>
          \A a \in AgentIds :
              items[a] # None => LiveConn(items[a], a) # None

\* Reconnect (keepConnected): once faults stop, every agent process ends up
\* serving an open connection that its proxy holds in agentConns, so
\* DialAgent can reach it.
AgentEventuallyLive ==
    \A g \in AgentProcs :
        <>[](LET c == agent[g].conn IN
               /\ agent[g].pc = "serve"
               /\ conn[c].state = "open"
               /\ LiveConn(conn[c].proxy, AgentIdOf[g]) = c)

\* Supersede settles (spec E2): once faults stop, the connection each proxy
\* holds for an agent eventually stops changing, so clients reach one agent
\* process for good.
OwnerEventuallyStable ==
    <>[][UNCHANGED agentConns]_vars

\* Reconnect repairs the registry (spec 3: a registry entry must not leak
\* after a proxy ends, "mitigated by agent reconnect which rewrites the
\* entry"; keepConnected, and PutConn's Set with its CompareAndSwap over an
\* existing value): once faults stop, the registry ends up naming no proxy
\* that has exited, whatever the quit path left behind.
RegistryEventuallyHealed ==
    <>[](\A a \in AgentIds : items[a] \in Proxies => life[items[a]] # "exited")

=============================================================================
