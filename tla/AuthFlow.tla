------------------------------- MODULE AuthFlow -------------------------------
(***************************************************************************)
(* The handshake on the first stream of an agent's QUIC connection         *)
(* (pkg/agent/authflow.go): the agent's authFlow.authenticate against the  *)
(* proxy's authFlow.verify, as connectForHttpProxy and listenForAgents run *)
(* them, with the verifier of the proxy (JWT or no-auth).                  *)
(*                                                                         *)
(* Wire format: a uint32 big-endian length, then that many bytes.  A       *)
(* token is abstracted to a model value with a length; the bytes the proxy *)
(* reads are the first n bytes of it.  Lengths are LenBits wide (uint32 in *)
(* the code, scaled down with MaxLen for MaxAuthMessageLength).  A write   *)
(* of the body may arrive in pieces; each stream direction records what    *)
(* was written of its frame and whether it was closed.                     *)
(*                                                                         *)
(* The agent's calls run under its 3 s deadline (the context and           *)
(* stream.SetDeadline); the proxy's only AcceptStream does.  The peer is   *)
(* the agent's code or, when honest is FALSE, any QUIC client: one that    *)
(* may stop after part of its frame and keep the connection alive (QUIC    *)
(* keep-alive answers the proxy's pings).  The verifier and the peer are   *)
(* fixed for a behaviour and chosen in Init from VerifierKinds and Peers.  *)
(***************************************************************************)
EXTENDS Integers

CONSTANTS
    Tokens,        \* the agent's token (JWT) or agent id (no-auth)
    TokenLen,      \* TokenLen[t]: its length in bytes (> 0: the
                   \* authenticators refuse an empty one)
    Claims,        \* Claims[t]: what VerifyToken finds in t, or Invalid
    Invalid,
    None,          \* no string read yet
    VerifierKinds, \* verifiers of the proxy: "jwt", "noauth"
    LenBits,       \* width of the length field
    MaxLen,        \* MaxAuthMessageLength
    ReplyLen,      \* the length of "authenticated"
    Peers          \* TRUE: the peer runs the agent's code; FALSE: any client

ASSUME VerifierKinds \subseteq {"jwt", "noauth"}
ASSUME Peers \subseteq BOOLEAN
ASSUME ReplyLen <= MaxLen

NoFrame == -1
NotClosed == -1

VARIABLES
    verifier,      \* getAgentVerifier's verifier: "jwt" or "noauth"
    honest,        \* the peer runs the agent's code
    tok,           \* the token the agent sends
    apc,           \* authenticate (and connectForHttpProxy around it)
    ppc,           \* the proxy's connection goroutine (verify and after)
    up,            \* the stream agent -> proxy
    down,          \* the stream proxy -> agent
    open,          \* the QUIC connection is open
    got,           \* the string the proxy read: a prefix of tok
    code           \* the application error code the connection closed with

setup == <<verifier, honest>>

vars == <<verifier, honest, tok, apc, ppc, up, down, open, got, code>>

Lens == 0..(2^LenBits - 1)
Frames == [hdr : Lens \cup {NoFrame}, body : Nat, fin : BOOLEAN]
NoStream == [hdr |-> NoFrame, body |-> 0, fin |-> FALSE]
Strings == [of : Tokens, n : Nat]

APcs == {"open", "write", "write_body", "read", "ok", "fail", "stalled"}
PPcs == {"accept", "read_hdr", "read_body", "verify", "write", "check_id",
         "put", "fail"}

TypeOK ==
    /\ verifier \in VerifierKinds /\ honest \in Peers
    /\ tok \in Tokens
    /\ apc \in APcs /\ ppc \in PPcs
    /\ up \in Frames /\ down \in Frames
    /\ open \in BOOLEAN
    /\ got \in Strings \cup {None}
    /\ code \in {0, 400, 500, NotClosed}

Init ==
    /\ verifier \in VerifierKinds /\ honest \in Peers
    /\ tok \in Tokens
    /\ apc = "open" /\ ppc = "accept"
    /\ up = NoStream /\ down = NoStream
    /\ open = TRUE
    /\ got = None
    /\ code = NotClosed

-----------------------------------------------------------------------------
(* Helpers                                                                 *)

\* writeString's length: uint32(len(bs)), then the check against the bound.
WireLen(n) == n % 2^LenBits
WriteOk(n) == WireLen(n) <= MaxLen

\* VerifyToken's attributes of the string read (JWTVerifier.verifyToken,
\* NoAuthVerifier.verifyToken): a JWT verifies only whole; a no-auth agent
\* id is whatever string arrived, with role "agent".
Attributes(s) ==
    IF verifier = "noauth"
    THEN [agent |-> s, role |-> "agent"]
    ELSE IF s.n = TokenLen[s.of] THEN Claims[s.of] ELSE Invalid

\* The attributes carry an empty agent id: an empty string or claim.
EmptyAgentId(at) ==
    IF verifier = "noauth" THEN at.agent.n = 0 ELSE at.agent = ""

\* The connection closes (CloseWithError): both streams die with it.
Close(c) ==
    /\ open' = FALSE
    /\ code' = IF code = NotClosed THEN c ELSE code

-----------------------------------------------------------------------------
(* The agent: authFlow.authenticate                                        *)

\* OpenStreamSync: the stream exists; the peer learns of it with its first
\* bytes.
AOpen ==
    /\ apc = "open" /\ open
    /\ apc' = "write"
    /\ UNCHANGED <<setup, tok, ppc, up, down, open, got, code>>

\* writeString's header: refused (and the call fails) above MaxLen.
AWriteHdr ==
    /\ apc = "write" /\ open
    /\ IF WriteOk(TokenLen[tok])
       THEN /\ up' = [up EXCEPT !.hdr = WireLen(TokenLen[tok])]
            /\ apc' = "write_body"
            /\ UNCHANGED <<open, code>>
       ELSE /\ apc' = "fail"
            /\ Close(0)
            /\ UNCHANGED up
    /\ UNCHANGED <<setup, tok, ppc, down, got>>

\* io.Copy writes the body; a byte at a time reaches the proxy.
AWriteBody ==
    /\ apc = "write_body" /\ open
    /\ up' = [up EXCEPT !.body = @ + 1]
    /\ apc' = IF up.body + 1 = TokenLen[tok] THEN "read" ELSE "write_body"
    /\ UNCHANGED <<setup, tok, ppc, down, open, got, code>>

\* readString of the reply: contents unused.  The deferred stream.Close
\* then closes the agent's side of the stream.
AReadOk ==
    /\ apc = "read" /\ open
    /\ down.hdr # NoFrame /\ down.hdr <= MaxLen /\ down.body >= down.hdr
    /\ apc' = "ok"
    /\ up' = [up EXCEPT !.fin = TRUE]
    /\ UNCHANGED <<setup, tok, ppc, down, open, got, code>>

\* The read fails: EOF before a whole frame, or the connection closed.
\* connectForHttpProxy returns and its deferred CloseWithError(0) closes
\* the connection.
AReadFail ==
    /\ apc = "read"
    /\ ~open \/ (down.fin /\ (down.hdr = NoFrame \/ down.body < down.hdr))
    /\ apc' = "fail"
    /\ Close(0)
    /\ UNCHANGED <<setup, tok, ppc, up, down, got>>

\* A write on a closed connection fails the same way.
AWriteFail ==
    /\ apc \in {"open", "write", "write_body"} /\ ~open
    /\ apc' = "fail"
    /\ UNCHANGED <<setup, tok, ppc, up, down, open, got, code>>

\* Mutant: connectForHttpProxy without its deferred CloseWithError.
ADeadlineNoClose ==
    /\ apc \in {"open", "write", "write_body", "read"}
    /\ apc' = "fail"
    /\ UNCHANGED <<setup, tok, ppc, up, down, open, got, code>>

\* The 3 s deadline passes during the call.
ADeadline ==
    /\ apc \in {"open", "write", "write_body", "read"}
    /\ apc' = "fail"
    /\ Close(0)
    /\ UNCHANGED <<setup, tok, ppc, up, down, got>>

\* A peer that is not the agent's code stops writing mid-frame and keeps
\* the connection open.
AStall ==
    /\ ~honest
    /\ apc = "write_body" /\ open
    /\ apc' = "stalled"
    /\ UNCHANGED <<setup, tok, ppc, up, down, open, got, code>>

-----------------------------------------------------------------------------
(* The proxy: the goroutine of listenForAgents, authFlow.verify            *)

\* AcceptStream returns once the stream's first bytes (the header) arrive.
PAccept ==
    /\ ppc = "accept" /\ open
    /\ up.hdr # NoFrame
    /\ ppc' = "read_hdr"
    /\ UNCHANGED <<setup, tok, apc, up, down, open, got, code>>

\* AcceptStream fails: its 3 s deadline passes or the connection closed.
PAcceptFail ==
    /\ ppc = "accept"
    /\ up.hdr = NoFrame \/ ~open
    /\ ppc' = "fail"
    /\ Close(500)
    /\ UNCHANGED <<setup, tok, apc, up, down, got>>

\* readString's header and its bound.
PReadHdr ==
    /\ ppc = "read_hdr" /\ open
    /\ ppc' = IF up.hdr > MaxLen THEN "fail" ELSE "read_body"
    /\ IF up.hdr > MaxLen THEN Close(500) ELSE UNCHANGED <<open, code>>
    /\ UNCHANGED <<setup, tok, apc, up, down, got>>

\* Mutant: a single stream.Read in place of io.ReadFull, which returns
\* whatever part of the body has arrived.
PReadBodyPartial ==
    /\ ppc = "read_body" /\ open
    /\ up.body > 0
    /\ got' = [of |-> tok, n |-> IF up.body < up.hdr THEN up.body ELSE up.hdr]
    /\ ppc' = "verify"
    /\ UNCHANGED <<setup, tok, apc, up, down, open, code>>

\* Mutant: "authenticated" written as soon as the token is read, before
\* the verifier has looked at it.
PReadBodyReplyFirst ==
    /\ ppc = "read_body" /\ open
    /\ up.body >= up.hdr
    /\ got' = [of |-> tok, n |-> up.hdr]
    /\ down' = [hdr |-> ReplyLen, body |-> ReplyLen, fin |-> FALSE]
    /\ ppc' = "verify"
    /\ UNCHANGED <<setup, tok, apc, up, open, code>>

\* io.ReadFull of the body: the first hdr bytes of what was written.
PReadBody ==
    /\ ppc = "read_body" /\ open
    /\ up.body >= up.hdr
    /\ got' = [of |-> tok, n |-> up.hdr]
    /\ ppc' = "verify"
    /\ UNCHANGED <<setup, tok, apc, up, down, open, code>>

\* ReadFull fails: EOF, or the connection closed.  No deadline applies.
PReadFail ==
    /\ ppc \in {"read_hdr", "read_body"}
    /\ ~open \/ (up.fin /\ up.body < up.hdr)
    /\ ppc' = "fail"
    /\ Close(500)
    /\ UNCHANGED <<setup, tok, apc, up, down, got>>

\* The verifier: an error (a bad token, a JWT of another role) closes the
\* stream and the connection with 500.
PVerify ==
    LET at == Attributes(got) IN
    /\ ppc = "verify"
    /\ IF at # Invalid /\ at.role = "agent"
       THEN /\ ppc' = "write" /\ UNCHANGED <<down, open, code>>
       ELSE /\ ppc' = "fail" /\ down' = [down EXCEPT !.fin = TRUE] /\ Close(500)
    /\ UNCHANGED <<setup, tok, apc, up, got>>

\* writeString("authenticated"), then the deferred stream.Close.
PWrite ==
    /\ ppc = "write"
    /\ IF open
       THEN /\ down' = [hdr |-> ReplyLen, body |-> ReplyLen, fin |-> TRUE]
            /\ ppc' = "check_id"
            /\ UNCHANGED <<open, code>>
       ELSE /\ ppc' = "fail" /\ UNCHANGED <<down, open, code>>
    /\ UNCHANGED <<setup, tok, apc, up, got>>

\* listenForAgents: an empty agent id is closed with 400; any other goes on
\* to PutConn.
PCheckId ==
    /\ ppc = "check_id"
    /\ IF EmptyAgentId(Attributes(got))
       THEN /\ ppc' = "fail" /\ Close(400)
       ELSE /\ ppc' = "put" /\ UNCHANGED <<open, code>>
    /\ UNCHANGED <<setup, tok, apc, up, down, got>>

-----------------------------------------------------------------------------

Agent == AOpen \/ AWriteHdr \/ AWriteBody \/ AReadOk \/ AReadFail \/ AWriteFail
         \/ ADeadline \/ AStall
Proxy == PAccept \/ PAcceptFail \/ PReadHdr \/ PReadBody \/ PReadFail \/ PVerify
         \/ PWrite \/ PCheckId

\* Both sides have returned.
Done == apc \in {"ok", "fail", "stalled"} /\ ppc \in {"put", "fail"} /\ UNCHANGED vars

Next == Agent \/ Proxy \/ Done

Spec == Init /\ [][Next]_vars

\* Goroutines run while they can; time passes, so a deadline fires unless
\* the call returns first.
Fairness == WF_vars(Agent) /\ WF_vars(Proxy)

FairSpec == Spec /\ Fairness

-----------------------------------------------------------------------------
(* Properties                                                              *)

Whole(s) == s # None /\ s.n = TokenLen[s.of]

\* Both ends agree on the identity (writeString/readString framing, the
\* order verify -> write reply, authenticate's read of the reply): the
\* proxy goes on to PutConn only with the agent's whole token, and the
\* agent's authenticate succeeds only after the proxy verified that whole
\* token.
HandshakeAgreement ==
    /\ ppc = "put" => Whole(got)
    /\ apc = "ok" => /\ Whole(got)
                     /\ Attributes(got) # Invalid
                     /\ Attributes(got).role = "agent"

\* The handshake with the agent's code ends (the agent's deadline, the
\* proxy's reads, the close on failure): both the agent's authenticate and
\* the proxy's connection goroutine eventually return.
HandshakeTerminates ==
    honest => <>(apc \in {"ok", "fail"} /\ ppc \in {"put", "fail"})

\* Whatever the peer does, the proxy's connection goroutine eventually
\* returns (spec 4.C: each side of the handshake has a 3 s deadline).
VerifyTerminates ==
    <>(ppc \in {"put", "fail"})

====
