---------------------------- MODULE AgentConnection ----------------------------
(***************************************************************************)
(* One agent connection from its handshake to the end of a tunnel on it.   *)
(* The first stream carries the handshake (AuthFlow).  Only once the       *)
(* agent's authenticate has returned and the proxy has gone on to PutConn  *)
(* can a tunnel stream exist: the proxy's DialAgent finds the connection   *)
(* in agentConns only after PutConn, and the agent calls AcceptStream only *)
(* after authenticate (connectForHttpProxy).  The tunnel is TunnelStream   *)
(* over client -tcp- proxy -quic- agent -tcp- destination, on the same     *)
(* QUIC connection: open is shared, so the connection's loss ends both.    *)
(***************************************************************************)

CONSTANTS
    Tokens, TokenLen, Claims, Invalid, None, VerifierKinds, LenBits, MaxLen,
    ReplyLen, Peers,                 \* AuthFlow's
    LinkKinds, Cap, MaxData          \* TunnelStream's

VARIABLES
    verifier, honest, tok, apc, ppc, up, down, open, got, code,
    pipe, cp, hp, ep, clean

afVars == <<verifier, honest, tok, apc, ppc, up, down, got, code>>
vars == <<afVars, open, pipe, cp, hp, ep, clean>>

AF == INSTANCE AuthFlow
TS == INSTANCE TunnelStream

TypeOK == AF!TypeOK /\ TS!TypeOK

Init == AF!Init /\ TS!Init

\* The handshake succeeded on both ends: the connection is in agentConns
\* and the agent waits in AcceptStream.
Established == apc = "ok" /\ ppc = "put"

tsVars == <<pipe, cp, hp, ep, clean>>

Handshake(A) == A /\ UNCHANGED tsVars

Tunnel(A) == Established /\ A /\ UNCHANGED afVars

Next == Handshake(AF!Next) \/ Tunnel(TS!Next)

Fairness ==
    /\ WF_vars(Handshake(AF!Agent)) /\ WF_vars(Handshake(AF!Proxy))
    /\ \A h \in TS!Hops, d \in TS!Dirs : WF_vars(Tunnel(TS!Copy(h, d)))
    /\ \A h \in TS!Hops : WF_vars(Tunnel(TS!Return(h)))
    /\ \A e \in TS!Ends : WF_vars(Tunnel(TS!EndRead(e)))

FairSpec == Init /\ [][Next]_vars /\ Fairness

-----------------------------------------------------------------------------
(* Properties                                                              *)

\* The handshake's agreement on the identity (AuthFlow).
HandshakeAgreement == AF!HandshakeAgreement

\* With the agent's code both ends of the handshake return (AuthFlow).
HandshakeTerminates == AF!HandshakeTerminates

\* The teardown of a tunnel (NetTransport returning on the first copy to
\* end, Handle's deferred closes, quic.Stream.Close sending only FIN):
\* once the client or the destination closes, or the agent connection
\* dies, both handlers return and each endpoint sees its connection end,
\* although each QUIC side only half-closes the stream.
TunnelTearsDown == (Established /\ TS!TearDownStarted) ~> TS!TornDown

\* No silent truncation (spec E1, byte parity): when the destination
\* closes after reading every byte the client sent, and the connection
\* stays up, the client sees EOF only after every byte the destination
\* wrote; the agent's and the proxy's closes of the stream (FIN after the
\* data) must not drop what is still in flight.
ResponseComplete ==
    TS!ClientSawCleanEnd => ep["client"].got = ep["dest"].sent

====
