----------------------------- MODULE AgentClient -----------------------------
(***************************************************************************)
(* The agent side of the tunnel: QuickClient.keepConnected and            *)
(* connectForHttpProxy (pkg/agent/quic.go) with the agent half of the      *)
(* auth flow (authFlow.authenticate, pkg/agent/authflow.go).               *)
(*                                                                         *)
(* An agent process dials a QUIC connection, sends its token on the first  *)
(* stream and waits for the proxy's reply, then blocks in AcceptStream     *)
(* until the connection dies; every error ends connectForHttpProxy, whose  *)
(* deferred CloseWithError(0) closes the connection, and the 1 s ticker    *)
(* starts the next attempt.  The streams the proxy opens on a live         *)
(* connection are served in their own goroutines and do not change this   *)
(* loop.  This module only changes agent; the connection state it reads,   *)
(* and the proxy half of each step, belong to ConnTrack and are joined to  *)
(* these actions in TunnelSystem.                                          *)
(***************************************************************************)
CONSTANTS
    AgentProcs,   \* agent processes
    AgentIdOf,    \* the agent id in each process's token
    Conns,
    None

VARIABLES
    agent,        \* agent[g] : pc of the keepConnected loop and its connection
    conn,         \* read only: transport state of connections
    hpc           \* read only: how far the proxy's handler has got

AgentPcs == {"dial", "auth", "serve"}

TypeOK == agent \in [AgentProcs -> [pc : AgentPcs, conn : Conns \cup {None}]]

Init == agent = [g \in AgentProcs |-> [pc |-> "dial", conn |-> None]]

\* The proxy has read the token and written "authenticated".
Authenticated(c) == hpc[c].pc \notin {"idle", "verify"}

\* quic.DialAddr succeeds with the new connection c (the proxy half of the
\* step, which picks c, is ConnTrack's Accept); authenticate then opens the
\* auth stream and writes the token.
Dial(g, c) ==
    /\ agent[g].pc = "dial"
    /\ agent' = [agent EXCEPT ![g] = [pc |-> "auth", conn |-> c]]

\* authenticate reads the proxy's reply: the agent is connected and goes
\* to AcceptStream.
AuthDone(g) ==
    LET c == agent[g].conn IN
    /\ agent[g].pc = "auth"
    /\ conn[c].state = "open"
    /\ Authenticated(c)
    /\ agent' = [agent EXCEPT ![g].pc = "serve"]

\* authenticate fails because the connection is closed, or its 3 s
\* deadline passes before the reply (the caller closes the connection):
\* connectForHttpProxy returns and the next tick dials again.
AuthFail(g) ==
    /\ agent[g].pc = "auth"
    /\ agent' = [agent EXCEPT ![g] = [pc |-> "dial", conn |-> None]]

\* AcceptStream fails on the closed connection: connectForHttpProxy
\* returns and the next tick dials again.
AcceptFail(g) ==
    /\ agent[g].pc = "serve"
    /\ conn[agent[g].conn].state = "closed"
    /\ agent' = [agent EXCEPT ![g] = [pc |-> "dial", conn |-> None]]

=============================================================================
