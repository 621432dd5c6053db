\* A QUIC client that writes a header and part of its token, then stops
\* while keeping the connection alive.
CONSTANTS
    Tokens = {t1, t2, t3}
    TokenLen <- ShortLens
    Claims <- JwtClaims
    Invalid = Invalid  None = None
    t1 = t1  t2 = t2  t3 = t3  t4 = t4  a1 = a1
    VerifierKinds = {"jwt"}
    LenBits = 3
    MaxLen = 4
    ReplyLen = 2
    Peers = {FALSE}
SPECIFICATION FairSpec
PROPERTY VerifyTerminates
CHECK_DEADLOCK FALSE
