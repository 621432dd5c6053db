------------------------------- MODULE ServeLoop -------------------------------
(***************************************************************************)
(* The accept loop of the HTTP proxy and load-balancer servers             *)
(* (pkg/gost/service.go, defaultService.Serve), with the listener it       *)
(* reads and the server's Shutdown (pkg/proxy/proxy.go), which only closes *)
(* that listener.                                                          *)
(*                                                                         *)
(* A temporary Accept error makes the loop sleep and retry with a delay    *)
(* that starts at 5 ms, doubles, and is capped at 5 s; an accepted         *)
(* connection resets it and spawns a Handle goroutine; any other error     *)
(* ends Serve, whose deferred cancel cancels the context every handler     *)
(* got.  Durations are in milliseconds (all of them are whole ms).         *)
(***************************************************************************)
EXTENDS Naturals

CONSTANTS
    MaxStreak,      \* bound on consecutive temporary Accept errors
    MaxConns        \* bound on accepted connections

VARIABLES
    pc,             \* "accept", "sleep" (time.Sleep(tempDelay)), "returned"
    tempDelay,      \* the loop's tempDelay
    streak,         \* temporary errors since the last accepted connection
    lnOpen,         \* the net.Listener is open
    handlers,       \* Handle goroutines spawned so far
    ctxDone         \* the context handed to the handlers is cancelled

vars == <<pc, tempDelay, streak, lnOpen, handlers, ctxDone>>

\* What Accept returns: a connection, or an error of one of three kinds
\* (net.ErrClosed once the listener is closed).
Outcomes == {"conn", "temporary", "closed", "other"}

MaxDelay == 5000

-----------------------------------------------------------------------------
(* The backoff                                                             *)

\* Mutant: every Accept error retried as if temporary.
IsTemporaryAnyError(e) == e # "conn"

\* ne.Temporary(): only this kind of error is retried.
IsTemporary(e) == e = "temporary"

\* Mutant: the 5 s cap dropped.
NextDelayUncapped(d) == IF d = 0 THEN 5 ELSE 2 * d

\* The delay after one more temporary error: 5 ms from zero, else double,
\* then capped at 5 s.
NextDelay(d) ==
    LET raw == IF d = 0 THEN 5 ELSE 2 * d IN
    IF raw > MaxDelay THEN MaxDelay ELSE raw

\* Reference: 5 * 2^(k-1) ms, but never more than 5 s.
RECURSIVE Pow2(_)
Pow2(n) == IF n = 0 THEN 1 ELSE 2 * Pow2(n - 1)

RefDelay(k) ==
    IF k = 0 THEN 0
    ELSE IF 5 * Pow2(k - 1) > MaxDelay THEN MaxDelay ELSE 5 * Pow2(k - 1)

-----------------------------------------------------------------------------

TypeOK ==
    /\ pc \in {"accept", "sleep", "returned"}
    /\ tempDelay \in 0..MaxDelay
    /\ streak \in 0..MaxStreak
    /\ lnOpen \in BOOLEAN
    /\ handlers \in 0..MaxConns
    /\ ctxDone \in BOOLEAN

\* NewService, then Serve entered on the listener ListenAndServe opened.
Init ==
    /\ pc = "accept"
    /\ tempDelay = 0
    /\ streak = 0
    /\ lnOpen = TRUE
    /\ handlers = 0
    /\ ctxDone = FALSE

\* What Accept can return now: while the listener is open, a connection
\* (while clients remain), a temporary error or another error; once closed,
\* net.ErrClosed.
Possible(e) ==
    IF lnOpen
    THEN \/ e = "conn" /\ handlers < MaxConns
         \/ e \in {"temporary", "other"}
    ELSE e = "closed"

\* Accept returned a connection: reset the delay, spawn Handle(ctx, conn).
AcceptConn ==
    /\ pc = "accept"
    /\ Possible("conn")
    /\ tempDelay' = 0
    /\ streak' = 0
    /\ handlers' = handlers + 1
    /\ UNCHANGED <<pc, lnOpen, ctxDone>>

\* Accept failed: a temporary error goes to sleep with the next delay (up
\* to MaxStreak in a row), any other returns from Serve and runs the deferred cancel.
AcceptError ==
    /\ pc = "accept"
    /\ \E e \in Outcomes \ {"conn"} :
          /\ Possible(e)
          /\ IF IsTemporary(e)
             THEN /\ streak < MaxStreak
                  /\ tempDelay' = NextDelay(tempDelay)
                  /\ streak' = streak + 1
                  /\ pc' = "sleep"
                  /\ UNCHANGED ctxDone
             ELSE /\ pc' = "returned"
                  /\ ctxDone' = TRUE
                  /\ UNCHANGED <<tempDelay, streak>>
    /\ UNCHANGED <<lnOpen, handlers>>

\* time.Sleep(tempDelay) returns; continue.
Sleep ==
    /\ pc = "sleep"
    /\ pc' = "accept"
    /\ UNCHANGED <<tempDelay, streak, lnOpen, handlers, ctxDone>>

\* HttpProxyServer.Shutdown (the run group's interrupt): p.ln.Close().
Shutdown ==
    /\ lnOpen
    /\ lnOpen' = FALSE
    /\ UNCHANGED <<pc, tempDelay, streak, handlers, ctxDone>>

Next == AcceptConn \/ AcceptError \/ Sleep \/ Shutdown

\* The sleep ends and a blocked Accept returns once the listener is
\* closed; clients, errors and the shutdown itself are not fair.
Spec == Init /\ [][Next]_vars /\ WF_vars(Sleep)
            /\ WF_vars(AcceptError /\ ~lnOpen)

-----------------------------------------------------------------------------
(* Properties                                                              *)

\* The backoff (service.go's tempDelay ladder and its reset on an accepted
\* connection): after k temporary errors in a row the loop sleeps
\* 5 * 2^(k-1) ms, never more than 5 s, and after a connection it starts
\* again from 5 ms.
BackoffFollowsReference == tempDelay = RefDelay(streak)

\* Shutdown ends the loop (Serve's error test: net.ErrClosed is not
\* temporary): once the listener is closed, Serve returns and cancels its
\* handlers' context, whatever backoff it was in.
ServeReturnsAfterClose == (~lnOpen) ~> (pc = "returned" /\ ctxDone)

====
