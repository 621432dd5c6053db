\* The handshake with both verifiers, against the agent's code and any
\* QUIC client, tokens of every verdict; then, on a connection that
\* authenticated, a tunnel with a one-byte window per direction (so a
\* writer blocks) and two bytes from each endpoint.  The system stops once
\* every goroutine has returned or a stalled peer holds the proxy.
CONSTANTS
    Tokens = {t1, t2, t3, t4}
    TokenLen <- ShortLens
    Claims <- JwtClaims
    Invalid = Invalid  None = None
    t1 = t1  t2 = t2  t3 = t3  t4 = t4  a1 = a1
    VerifierKinds = {"jwt", "noauth"}
    LenBits = 3
    MaxLen = 4
    ReplyLen = 2
    Peers = {TRUE, FALSE}
    LinkKinds <- ProxyTunnel
    Cap = 1
    MaxData <- EndBytes
SPECIFICATION FairSpec
INVARIANT TypeOK
INVARIANT HandshakeAgreement
INVARIANT ResponseComplete
PROPERTY HandshakeTerminates
PROPERTY TunnelTearsDown
CHECK_DEADLOCK FALSE
