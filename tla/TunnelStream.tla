----------------------------- MODULE TunnelStream -----------------------------
(***************************************************************************)
(* The byte pump of an established tunnel (pkg/gost/nettransport.go with   *)
(* the tail of handleRequest and Handle in pkg/gost/handler.go): a chain   *)
(* of links from the client to the destination, and between each two      *)
(* links a handler that runs NetTransport(conn, cc) and then closes cc and *)
(* conn.  For a client entering at a proxy the chain is                    *)
(*   client -tcp- proxy handler -quic stream- agent handler -tcp- dest.    *)
(*                                                                         *)
(* A link is two directions: "fwd" (towards the destination) and "bwd".    *)
(* A direction holds the number of bytes in flight (at most Cap: the       *)
(* socket buffer or the stream's flow-control window, scaled down), whether *)
(* its writer closed it (fin: EOF once the bytes are read), whether its    *)
(* reader's side was closed (rcl), and whether it was reset (rst).  Bytes  *)
(* are counted, not named: every direction is a FIFO, so a count tells    *)
(* what arrived of what was written.                                       *)
(*                                                                         *)
(* Close differs by kind: net.Conn.Close of a TCP connection ends both     *)
(* directions of that side (later reads fail locally, the peer's writes    *)
(* fail); quic.Stream.Close (util.QuicConn embeds the stream) only sends   *)
(* FIN on the write direction, so the peer can still write and this side   *)
(* can still read.  A QUIC link dies with its connection (open).           *)
(***************************************************************************)
EXTENDS Integers, Sequences

CONSTANTS
    LinkKinds,     \* LinkKinds[l]: "tcp" or "quic", from the client's link on
    Cap,           \* bytes a direction holds before its writer blocks
    MaxData        \* MaxData[e]: bytes the endpoint e writes at most

Links == 1..Len(LinkKinds)
Hops == 1..(Len(LinkKinds) - 1)       \* hop h: conn = link h, cc = link h+1
Dirs == {"fwd", "bwd"}
Ends == {"client", "dest"}

VARIABLES
    pipe,          \* pipe[l][d]: [n, fin, rcl, rst]
    cp,            \* cp[h][d]: hop h's copy goroutine of direction d:
                   \* "read", "write" (holding a byte) or "done"
    hp,            \* hp[h]: "transport" inside NetTransport, or "returned"
    ep,            \* ep[e]: the endpoint's [sent, got, ended, closed]
    clean,         \* the destination closed after reading every byte the
                   \* client sent, and the client sent none after it
    open           \* the QUIC connection carrying the quic links is open

tsVars == <<pipe, cp, hp, ep, clean>>
vars == <<tsVars, open>>

Dir == [n : 0..Cap, fin : BOOLEAN, rcl : BOOLEAN, rst : BOOLEAN]
MaxBytes == MaxData["client"] + MaxData["dest"]
EndState == [sent : 0..MaxBytes, got : 0..MaxBytes, ended : BOOLEAN,
             closed : BOOLEAN]

TypeOK ==
    /\ pipe \in [Links -> [Dirs -> Dir]]
    /\ cp \in [Hops -> [Dirs -> {"read", "write", "done"}]]
    /\ hp \in [Hops -> {"transport", "returned"}]
    /\ ep \in [Ends -> EndState]
    /\ clean \in BOOLEAN /\ open \in BOOLEAN

\* The handlers have written 200 (or the request upstream) and entered
\* NetTransport; nothing is in flight yet.
Init ==
    /\ pipe = [l \in Links |-> [d \in Dirs |->
                [n |-> 0, fin |-> FALSE, rcl |-> FALSE, rst |-> FALSE]]]
    /\ cp = [h \in Hops |-> [d \in Dirs |-> "read"]]
    /\ hp = [h \in Hops |-> "transport"]
    /\ ep = [e \in Ends |-> [sent |-> 0, got |-> 0, ended |-> FALSE,
                             closed |-> FALSE]]
    /\ clean = TRUE
    /\ open = TRUE

-----------------------------------------------------------------------------
(* Reading and writing one direction                                       *)

\* The direction is dead for its reader or writer: the QUIC connection
\* is gone, or the stream was reset.
Dead(l, d) == (LinkKinds[l] = "quic" /\ ~open) \/ pipe[l][d].rst

\* Read returns an error (the reader's own side was closed, or the
\* direction is dead), EOF, a byte, or blocks.
ReadFails(l, d) == pipe[l][d].rcl \/ Dead(l, d)
ReadEof(l, d)   == pipe[l][d].n = 0 /\ pipe[l][d].fin
ReadByte(l, d)  == pipe[l][d].n > 0

\* Write fails on a closed write direction (Write after Close), a dead
\* one, or a TCP peer that has closed; it blocks while the direction is
\* full.
WriteFails(l, d) == pipe[l][d].fin \/ Dead(l, d) \/ pipe[l][d].rcl
WriteRoom(l, d)  == pipe[l][d].n < Cap

Take(l, d) == [pipe EXCEPT ![l][d].n = @ - 1]
Put(p, l, d) == [p EXCEPT ![l][d].n = @ + 1]

\* Mutant: the stream is closed with CancelWrite, which drops the bytes
\* not yet delivered and resets the direction.
CloseSideReset(p, l, out, in) ==
    IF LinkKinds[l] = "quic"
    THEN [p EXCEPT ![l][out] = [@ EXCEPT !.n = 0, !.fin = TRUE, !.rst = TRUE]]
    ELSE [p EXCEPT ![l][out].fin = TRUE, ![l][in].rcl = TRUE]

\* Closing one side of link l, the side that writes out and reads in.
\* A TCP Close ends both; a quic.Stream Close only sends FIN on out.
CloseSide(p, l, out, in) ==
    [p EXCEPT ![l][out].fin = TRUE,
              ![l][in].rcl  = (@ \/ LinkKinds[l] = "tcp")]

\* The handler of hop h holds the client side of link h+1 (cc, which it
\* writes fwd) and the destination side of link h (conn, which it writes
\* bwd): Handle's deferred cc.Close(), then conn.Close().
CloseHop(p, h) ==
    CloseSide(CloseSide(p, h + 1, "fwd", "bwd"), h, "bwd", "fwd")

\* Where the copy of direction d at hop h reads and writes.
Src(h, d) == IF d = "fwd" THEN h ELSE h + 1
Dst(h, d) == IF d = "fwd" THEN h + 1 ELSE h

-----------------------------------------------------------------------------
(* The copy goroutines: copyBuffer(dst, src), that is io.CopyBuffer        *)

\* A Read returns a byte: it is held for the Write.
CopyRead(h, d) ==
    /\ cp[h][d] = "read" /\ ~ReadFails(Src(h, d), d) /\ ReadByte(Src(h, d), d)
    /\ pipe' = Take(Src(h, d), d)
    /\ cp' = [cp EXCEPT ![h][d] = "write"]
    /\ UNCHANGED <<hp, ep, clean, open>>

\* A Read returns EOF (CopyBuffer returns nil) or an error: the goroutine
\* sends the result on errc and ends.
CopyEnd(h, d) ==
    /\ cp[h][d] = "read"
    /\ ReadFails(Src(h, d), d) \/ ReadEof(Src(h, d), d)
    /\ cp' = [cp EXCEPT ![h][d] = "done"]
    /\ UNCHANGED <<pipe, hp, ep, clean, open>>

\* Mutant: the byte is written and the copy writes it again.
CopyWriteRetry(h, d) ==
    /\ cp[h][d] = "write" /\ ~WriteFails(Dst(h, d), d) /\ WriteRoom(Dst(h, d), d)
    /\ pipe' = Put(pipe, Dst(h, d), d)
    /\ UNCHANGED <<cp, hp, ep, clean, open>>

\* The Write of the held byte.
CopyWrite(h, d) ==
    /\ cp[h][d] = "write" /\ ~WriteFails(Dst(h, d), d) /\ WriteRoom(Dst(h, d), d)
    /\ pipe' = Put(pipe, Dst(h, d), d)
    /\ cp' = [cp EXCEPT ![h][d] = "read"]
    /\ UNCHANGED <<hp, ep, clean, open>>

\* The Write fails: CopyBuffer returns the error.
CopyWriteFail(h, d) ==
    /\ cp[h][d] = "write" /\ WriteFails(Dst(h, d), d)
    /\ LinkKinds[Dst(h, d)] = "tcp" \/ WriteRoom(Dst(h, d), d) \/ Dead(Dst(h, d), d)
    /\ cp' = [cp EXCEPT ![h][d] = "done"]
    /\ UNCHANGED <<pipe, hp, ep, clean, open>>

\* A Write blocked on a full stream window when its own side is closed by
\* the handler: quic-go forbids Close concurrent with Write, so it may
\* fail or stay blocked; no fairness forces this step.
CopyWriteClosedFull(h, d) ==
    /\ cp[h][d] = "write"
    /\ LinkKinds[Dst(h, d)] = "quic" /\ pipe[Dst(h, d)][d].fin
    /\ ~WriteRoom(Dst(h, d), d) /\ ~Dead(Dst(h, d), d)
    /\ cp' = [cp EXCEPT ![h][d] = "done"]
    /\ UNCHANGED <<pipe, hp, ep, clean, open>>

Copy(h, d) == CopyRead(h, d) \/ CopyEnd(h, d) \/ CopyWrite(h, d) \/ CopyWriteFail(h, d)

-----------------------------------------------------------------------------
(* The handler: NetTransport's receive from errc, then the deferred closes *)

\* Mutant: NetTransport waits for both copies.
NetTransportDoneBoth(h) == \A d \in Dirs : cp[h][d] = "done"

\* <-errc: the first copy to end decides; the other goroutine runs on.
NetTransportDone(h) == \E d \in Dirs : cp[h][d] = "done"

\* NetTransport returns; handleRequest returns nil, and Handle's deferred
\* cc.Close() and conn.Close() run (the agent's goroutine closes the
\* stream once more, which does nothing).
Return(h) ==
    /\ hp[h] = "transport" /\ NetTransportDone(h)
    /\ hp' = [hp EXCEPT ![h] = "returned"]
    /\ pipe' = CloseHop(pipe, h)
    /\ UNCHANGED <<cp, ep, clean, open>>

-----------------------------------------------------------------------------
(* The endpoints and the QUIC connection: the environment                  *)

\* The client's side of link 1 writes fwd and reads bwd; the destination's
\* side of the last link writes bwd and reads fwd.
Link(e) == IF e = "client" THEN 1 ELSE Len(LinkKinds)
Out(e) == IF e = "client" THEN "fwd" ELSE "bwd"
In(e) == IF e = "client" THEN "bwd" ELSE "fwd"

EndWrite(e) ==
    /\ ~ep[e].closed /\ ep[e].sent < MaxData[e]
    /\ ~WriteFails(Link(e), Out(e)) /\ WriteRoom(Link(e), Out(e))
    /\ pipe' = Put(pipe, Link(e), Out(e))
    /\ ep' = [ep EXCEPT ![e].sent = @ + 1]
    /\ clean' = (clean /\ (e = "client" => ~ep["dest"].closed))
    /\ UNCHANGED <<cp, hp, open>>

\* The endpoint reads a byte, or sees its connection end (EOF or error).
EndRead(e) ==
    /\ ~ep[e].closed /\ ~ep[e].ended
    /\ \/ /\ ReadByte(Link(e), In(e))
          /\ pipe' = Take(Link(e), In(e))
          /\ ep' = [ep EXCEPT ![e].got = @ + 1]
       \/ /\ ReadEof(Link(e), In(e)) \/ ReadFails(Link(e), In(e))
          /\ ep' = [ep EXCEPT ![e].ended = TRUE]
          /\ UNCHANGED pipe
    /\ UNCHANGED <<cp, hp, clean, open>>

EndClose(e) ==
    /\ ~ep[e].closed
    /\ ep' = [ep EXCEPT ![e].closed = TRUE]
    /\ pipe' = CloseSide(pipe, Link(e), Out(e), In(e))
    /\ clean' = IF e = "dest" THEN clean /\ ep["dest"].got = ep["client"].sent
                ELSE clean
    /\ UNCHANGED <<cp, hp, open>>

\* The agent's QUIC connection dies (idle timeout, the proxy's 409 or
\* Shutdown close): every stream on it fails.
ConnLost ==
    /\ open
    /\ open' = FALSE
    /\ UNCHANGED tsVars

Next ==
    \/ \E h \in Hops, d \in Dirs : Copy(h, d) \/ CopyWriteClosedFull(h, d)
    \/ \E h \in Hops : Return(h)
    \/ \E e \in Ends : EndWrite(e) \/ EndRead(e) \/ EndClose(e)
    \/ ConnLost

Spec == Init /\ [][Next]_vars

\* The copy goroutines and the handler are goroutines that run once they
\* can; an endpoint keeps reading until its connection ends (one that
\* stops reading holds the tunnel by flow control, as the code allows).
\* Endpoint writes and closes and the connection's loss are not fair.
Fairness ==
    /\ \A h \in Hops, d \in Dirs : WF_vars(Copy(h, d))
    /\ \A h \in Hops : WF_vars(Return(h))
    /\ \A e \in Ends : WF_vars(EndRead(e))

-----------------------------------------------------------------------------
(* What the properties speak of                                            *)

\* Something ended the tunnel: an endpoint closed or the connection died.
TearDownStarted == ep["client"].closed \/ ep["dest"].closed \/ ~open

\* Every handler has returned and every endpoint has closed or seen its
\* connection end.
TornDown ==
    /\ \A h \in Hops : hp[h] = "returned"
    /\ \A e \in Ends : ep[e].closed \/ ep[e].ended

\* The client has seen its connection end after the destination closed
\* cleanly, on a connection that stayed up.
ClientSawCleanEnd ==
    ep["client"].ended /\ ep["dest"].closed /\ clean /\ open

====
