--------------------------- MODULE MCAgentConnection ---------------------------
(* Model values, token tables and the tunnel's links for checking          *)
(* AgentConnection with TLC.                                               *)
EXTENDS AgentConnection, TLC

CONSTANTS t1, t2, t3, t4, a1

\* The token tables of MCAuthFlow: t1 and t4 valid agent tokens of a1 (t4
\* over MaxLen), t2 a client token, t3 one with an empty agent id.
ShortLens == (t1 :> 2) @@ (t2 :> 3) @@ (t3 :> 1) @@ (t4 :> 6)
JwtClaims == (t1 :> [agent |-> a1, role |-> "agent"])
          @@ (t2 :> [agent |-> a1, role |-> "client"])
          @@ (t3 :> [agent |-> "", role |-> "agent"])
          @@ (t4 :> [agent |-> a1, role |-> "agent"])

\* A client entering at the proxy: its TCP connection, the agent's stream,
\* the agent's TCP connection to the destination.
\* The client writes two bytes, enough to fill a one-byte window while the
\* next byte is held by a copy; the destination one.
EndBytes == [e \in {"client", "dest"} |-> IF e = "client" THEN 2 ELSE 1]

ProxyTunnel == <<"tcp", "quic", "tcp">>
====
