------------------------------ MODULE ConnTrack ------------------------------
(***************************************************************************)
(* The proxy side of the agent tunnel: the QUIC listener goroutine of      *)
(* QuicServer.listenForAgents (pkg/proxy/quic.go), the connection tracer   *)
(* callbacks (Tracer, pkg/proxy/server.go) and the ConnTrack table they    *)
(* drive (pkg/proxy/conntrack.go), with the memcached store client calls   *)
(* that PutConn and OnConnClose make (pkg/store/memcached/client.go).      *)
(*                                                                         *)
(* Every accepted QUIC connection c runs two concurrent goroutines:        *)
(*   - its handler, hpc[c]: verify the agent, then PutConn, closing c with *)
(*     500 if PutConn fails;                                               *)
(*   - its close callback, cpc[c]: the tracer's Close hook, which quic-go  *)
(*     runs once the connection is closed for whatever reason, and which   *)
(*     calls OnConnClose.                                                  *)
(* Each SyncedMap call (sync.Map) and each memcached request is one atomic *)
(* step; the two goroutines, other connections' goroutines and the         *)
(* connections of other proxies sharing the registry interleave between    *)
(* them.                                                                   *)
(***************************************************************************)
EXTENDS Integers, FiniteSets, TLC

CONSTANTS
    Proxies,          \* proxy processes, each named by its http proxy address
    AgentIds,         \* agent ids presented in auth tokens
    Conns,            \* QUIC connections (by connection id) over the whole run
    None,             \* no connection / absent registry key
    Unauth,           \* trackedConns value "" : started, not yet authenticated
    Untracked,        \* connection id absent from trackedConns
    MaxStoreErrors,   \* bound on memcached requests failing with an I/O error
    StoreType         \* --store.type of the proxy: "none" or "memcached"

ASSUME None \notin Conns \cup Proxies
ASSUME StoreType \in {"none", "memcached"}

VARIABLES
    conn,         \* transport state of each connection (quic.Connection)
    tracked,      \* tracked[p] : ConnTrack.trackedConns of proxy p
    agentConns,   \* agentConns[p] : ConnTrack.agentConns of proxy p
    items,        \* the shared memcached registry
    hpc,          \* handler goroutine of each connection: pc and locals
    cpc,          \* close-callback goroutine of each connection
    storeErrors   \* memcached request failures so far

ctVars == <<conn, tracked, agentConns, items, hpc, cpc, storeErrors>>

Reg == INSTANCE Registry WITH Keys <- AgentIds, Values <- Proxies, Miss <- None

\* Connection close codes: the QUIC application codes of the protocol, and
\* a transport-level loss (idle timeout, peer gone) that carries none.
NoCode == -1
Lost   == -2
Codes  == {NoCode, Lost, 0, 409, 500}

HandlerPcs  == {"idle", "verify", "put_track", "put_swap",
                "set_get", "set_add", "set_verify", "set_cas", "done"}
CallbackPcs == {"idle", "cb_getdel", "cb_check", "del_get", "del_del", "done"}

TypeOK ==
    /\ conn \in [Conns -> [state : {"unused", "open", "closed"},
                           agent : AgentIds \cup {None},
                           proxy : Proxies \cup {None},
                           code  : Codes]]
    /\ tracked \in [Proxies -> [Conns -> AgentIds \cup {Unauth, Untracked}]]
    /\ agentConns \in [Proxies -> [AgentIds -> Conns \cup {None}]]
    /\ items \in [AgentIds -> Reg!Item]
    /\ hpc \in [Conns -> [pc : HandlerPcs, fresh : BOOLEAN]]
    /\ cpc \in [Conns -> [pc : CallbackPcs, agent : AgentIds \cup {None}]]
    /\ storeErrors \in 0..MaxStoreErrors

Init ==
    /\ conn = [c \in Conns |-> [state |-> "unused", agent |-> None,
                                proxy |-> None, code |-> NoCode]]
    /\ tracked = [p \in Proxies |-> [c \in Conns |-> Untracked]]
    /\ agentConns = [p \in Proxies |-> [a \in AgentIds |-> None]]
    /\ items = Reg!EmptyStore
    /\ hpc = [c \in Conns |-> [pc |-> "idle", fresh |-> FALSE]]
    /\ cpc = [c \in Conns |-> [pc |-> "idle", agent |-> None]]
    /\ storeErrors = 0

-----------------------------------------------------------------------------
(* Helpers                                                                 *)

ProxyOf(c) == conn[c].proxy
AgentOf(c) == conn[c].agent

\* conn.CloseWithError(code, ...) on every open connection of S.  Closing
\* an open connection makes quic-go call the tracer's Close hook, so its
\* close-callback goroutine becomes runnable; an already closed connection
\* is left as it is.
CloseWithError(S, code) ==
    LET closing == {c \in S : conn[c].state = "open"} IN
    /\ conn' = [c \in Conns |-> IF c \in closing
                                THEN [conn[c] EXCEPT !.state = "closed", !.code = code]
                                ELSE conn[c]]
    /\ cpc' = [c \in Conns |-> IF c \in closing
                               THEN [cpc[c] EXCEPT !.pc = "cb_getdel"]
                               ELSE cpc[c]]

\* No goroutine of connection c is still running.
Settled(c) ==
    /\ hpc[c].pc \in {"idle", "done"}
    /\ cpc[c].pc \in {"idle", "done"}

\* A store or delete of key a gives it a new CAS unique: the reads of it
\* that handlers keep for a CompareAndSwap are stale from now on.  pcs
\* names the handlers that also move on in this step.
Touch(a, pcs) ==
    hpc' = [x \in Conns |->
              [pc    |-> IF x \in DOMAIN pcs THEN pcs[x] ELSE hpc[x].pc,
               fresh |-> hpc[x].fresh /\ AgentOf(x) # a]]

\* With the none store (pkg/store/none), Set and Delete return nil at once
\* and touch no shared state, so they end the goroutine in the same step.
UsesMemcached == StoreType = "memcached"

\* The handler goroutine moves to pc.
Goto(c, pc) == hpc' = [hpc EXCEPT ![c].pc = pc]

\* listenForAgents: PutConn returned an error, close the connection with
\* 500 and end the goroutine.
PutFailed(c) ==
    /\ Goto(c, "done")
    /\ CloseWithError({c}, 500)

-----------------------------------------------------------------------------
(* The listener and the handler goroutine of listenForAgents               *)

\* A connection id of the model names a slot.  Once a closed connection is
\* forgotten (its goroutines have returned and no map holds it) the slot
\* may stand for a new connection, as quic-go picks fresh random ids.
Forgotten(c) ==
    /\ conn[c].state = "closed"
    /\ Settled(c)
    /\ \A p \in Proxies :
          /\ tracked[p][c] = Untracked
          /\ \A a \in AgentIds : agentConns[p][a] # c

Reusable(c) == conn[c].state = "unused" \/ Forgotten(c)

\* ln.Accept returns connection c of agent a at proxy p.  The tracer's
\* StartedConnection hook has run during the handshake (OnConnStarted puts
\* c into trackedConns with an empty agent id), and the handler goroutine
\* is spawned.
Accept(c, p, a) ==
    /\ Reusable(c)
    /\ conn' = [conn EXCEPT ![c] = [state |-> "open", agent |-> a,
                                    proxy |-> p, code |-> NoCode]]
    /\ tracked' = [tracked EXCEPT ![p][c] = Unauth]
    /\ hpc' = [hpc EXCEPT ![c] = [pc |-> "verify", fresh |-> FALSE]]
    /\ cpc' = [cpc EXCEPT ![c] = [pc |-> "idle", agent |-> None]]
    /\ UNCHANGED <<agentConns, items, storeErrors>>

\* Mutant: the error test after Verify inverted; a verified connection is
\* closed with 500.
VerifyOkInverted(c) ==
    /\ hpc[c].pc = "verify"
    /\ conn[c].state = "open"
    /\ PutFailed(c)
    /\ UNCHANGED <<tracked, agentConns, items, storeErrors>>

\* agentVerifier.Verify: AcceptStream, read the token, verify it, write
\* "authenticated".  On an open connection the agent's token is read and
\* accepted.  The agents here carry non-empty ids, so listenForAgents'
\* empty-id check (400, which both verifiers leave to it; modelled in
\* AuthFlow) passes and the goroutine goes on to PutConn.
VerifyOk(c) ==
    /\ hpc[c].pc = "verify"
    /\ conn[c].state = "open"
    /\ Goto(c, "put_track")
    /\ UNCHANGED <<conn, tracked, agentConns, items, cpc, storeErrors>>

\* Verify fails because the connection is gone: CloseWithError(500) on a
\* closed connection changes nothing.
VerifyFail(c) ==
    /\ hpc[c].pc = "verify"
    /\ conn[c].state = "closed"
    /\ Goto(c, "done")
    /\ UNCHANGED <<conn, tracked, agentConns, items, cpc, storeErrors>>

\* Mutant: the agent id is stored without checking that the entry is
\* still "" (the check against a concurrent OnConnClose dropped).
PutTrackUnchecked(c) ==
    /\ hpc[c].pc = "put_track"
    /\ tracked' = [tracked EXCEPT ![ProxyOf(c)][c] = AgentOf(c)]
    /\ Goto(c, "put_swap")
    /\ UNCHANGED <<conn, agentConns, items, cpc, storeErrors>>

\* PutConn, first part: if trackedConns still holds "" for c, swap in the
\* agent id (Get then CompareAndSwap; a delete in between makes the CAS fail,
\* which is the same as the delete coming first).
PutTrack(c) ==
    LET p == ProxyOf(c) IN
    /\ hpc[c].pc = "put_track"
    /\ tracked' = IF tracked[p][c] = Unauth
                  THEN [tracked EXCEPT ![p][c] = AgentOf(c)]
                  ELSE tracked
    /\ Goto(c, "put_swap")
    /\ UNCHANGED <<conn, agentConns, items, cpc, storeErrors>>

\* Mutant: the previous connection is not closed after the Swap.
PutSwapNoClose(c) ==
    /\ hpc[c].pc = "put_swap"
    /\ agentConns' = [agentConns EXCEPT ![ProxyOf(c)][AgentOf(c)] = c]
    /\ Goto(c, IF UsesMemcached THEN "set_get" ELSE "done")
    /\ UNCHANGED <<conn, cpc, tracked, items, storeErrors>>

\* PutConn, second part: agentConns.Swap(agentID, conn); a previous
\* connection is closed with 409 "closing old connection".
PutSwap(c) ==
    LET p   == ProxyOf(c)
        a   == AgentOf(c)
        old == agentConns[p][a]
    IN
    /\ hpc[c].pc = "put_swap"
    /\ agentConns' = [agentConns EXCEPT ![p][a] = c]
    /\ CloseWithError({old} \ {None}, 409)
    /\ Goto(c, IF UsesMemcached THEN "set_get" ELSE "done")
    /\ UNCHANGED <<tracked, items, storeErrors>>

\* PutConn, last part: storeClient.Set(agentID, httpProxyAddress).
\* client.Set first reads the key.
SetGetMiss(c) ==
    /\ hpc[c].pc = "set_get"
    /\ items[AgentOf(c)] = None
    /\ Goto(c, "set_add")
    /\ UNCHANGED <<conn, tracked, agentConns, items, cpc, storeErrors>>

SetGetHit(c) ==
    /\ hpc[c].pc = "set_get"
    /\ items[AgentOf(c)] # None
    /\ hpc' = [hpc EXCEPT ![c] = [pc |-> "set_cas", fresh |-> TRUE]]
    /\ UNCHANGED <<conn, tracked, agentConns, items, cpc, storeErrors>>

\* Key absent: mc.Set, then read back and compare.
SetAdd(c) ==
    /\ hpc[c].pc = "set_add"
    /\ items' = Reg!Stored(items, AgentOf(c), ProxyOf(c))
    /\ Touch(AgentOf(c), c :> "set_verify")
    /\ UNCHANGED <<conn, tracked, agentConns, cpc, storeErrors>>

\* The read-back: a miss (ErrCacheMiss) or another value ("set and get
\* difference") is an error, and PutConn fails.
SetVerify(c) ==
    /\ hpc[c].pc = "set_verify"
    /\ IF Reg!Lookup(items, AgentOf(c)) = ProxyOf(c)
       THEN Goto(c, "done") /\ UNCHANGED <<conn, cpc>>
       ELSE PutFailed(c)
    /\ UNCHANGED <<tracked, agentConns, items, storeErrors>>

\* Key present: mc.CompareAndSwap with the unique read; ErrCASConflict or
\* ErrNotStored fails PutConn.
SetCas(c) ==
    LET a == AgentOf(c) IN
    /\ hpc[c].pc = "set_cas"
    /\ IF Reg!CasMatches(items, a, hpc[c].fresh)
       THEN /\ items' = Reg!Stored(items, a, ProxyOf(c))
            /\ Touch(a, c :> "done")
            /\ UNCHANGED <<conn, cpc>>
       ELSE PutFailed(c) /\ UNCHANGED items
    /\ UNCHANGED <<tracked, agentConns, storeErrors>>

\* Any memcached request of client.Set fails with an I/O error: PutConn
\* returns it and the connection is closed with 500.
SetError(c) ==
    /\ hpc[c].pc \in {"set_get", "set_add", "set_verify", "set_cas"}
    /\ storeErrors < MaxStoreErrors
    /\ storeErrors' = storeErrors + 1
    /\ PutFailed(c)
    /\ UNCHANGED <<tracked, agentConns, items>>

-----------------------------------------------------------------------------
(* The close callback: Tracer's Close hook calling OnConnClose             *)

\* Mutant: the oldAgentID != "" test dropped, so an unauthenticated
\* connection's empty id is looked up in agentConns.
CbGetAndDeleteAnyId(c) ==
    LET p == ProxyOf(c)
        v == tracked[p][c]
    IN
    /\ cpc[c].pc = "cb_getdel"
    /\ tracked' = [tracked EXCEPT ![p][c] = Untracked]
    /\ cpc' = IF v # Untracked
              THEN [cpc EXCEPT ![c] = [pc |-> "cb_check", agent |-> v]]
              ELSE [cpc EXCEPT ![c].pc = "done"]
    /\ UNCHANGED <<conn, agentConns, items, hpc, storeErrors>>

\* trackedConns.GetAndDelete(connID); nothing more unless c had been
\* given an agent id.
CbGetAndDelete(c) ==
    LET p == ProxyOf(c)
        v == tracked[p][c]
    IN
    /\ cpc[c].pc = "cb_getdel"
    /\ tracked' = [tracked EXCEPT ![p][c] = Untracked]
    /\ cpc' = IF v \in AgentIds
              THEN [cpc EXCEPT ![c] = [pc |-> "cb_check", agent |-> v]]
              ELSE [cpc EXCEPT ![c].pc = "done"]
    /\ UNCHANGED <<conn, agentConns, items, hpc, storeErrors>>

\* Mutant: the connection id comparison dropped; the agent's entry is
\* deleted whichever connection it holds.
CbCheckAnyConn(c) ==
    LET p == ProxyOf(c)
        a == cpc[c].agent
    IN
    /\ cpc[c].pc = "cb_check"
    /\ IF agentConns[p][a] # None
       THEN /\ agentConns' = [agentConns EXCEPT ![p][a] = None]
            /\ cpc' = [cpc EXCEPT ![c].pc =
                          IF UsesMemcached THEN "del_get" ELSE "done"]
       ELSE /\ cpc' = [cpc EXCEPT ![c].pc = "done"]
            /\ UNCHANGED agentConns
    /\ UNCHANGED <<conn, tracked, items, hpc, storeErrors>>

\* agentConns.Get(oldAgentID), compare its connection id with c, then
\* CompareAndDelete.  A Swap between the Get and the CompareAndDelete makes
\* the latter fail, as if the Swap had come first, so the three are one step.
CbCheck(c) ==
    LET p == ProxyOf(c)
        a == cpc[c].agent
    IN
    /\ cpc[c].pc = "cb_check"
    /\ IF agentConns[p][a] = c
       THEN /\ agentConns' = [agentConns EXCEPT ![p][a] = None]
            /\ cpc' = [cpc EXCEPT ![c].pc =
                          IF UsesMemcached THEN "del_get" ELSE "done"]
       ELSE /\ cpc' = [cpc EXCEPT ![c].pc = "done"]
            /\ UNCHANGED agentConns
    /\ UNCHANGED <<conn, tracked, items, hpc, storeErrors>>

\* storeClient.Delete(agentID, httpProxyAddress): read the key; a miss is
\* success, another value is an error (logged), otherwise go on to delete.
DelGet(c) ==
    /\ cpc[c].pc = "del_get"
    /\ cpc' = [cpc EXCEPT ![c].pc =
                  IF Reg!Lookup(items, cpc[c].agent) = ProxyOf(c)
                  THEN "del_del" ELSE "done"]
    /\ UNCHANGED <<conn, tracked, agentConns, items, hpc, storeErrors>>

\* mc.Delete(key): removes whatever the key holds now.
DelDel(c) ==
    /\ cpc[c].pc = "del_del"
    /\ items' = Reg!Deleted(items, cpc[c].agent)
    /\ Touch(cpc[c].agent, <<>>)
    /\ cpc' = [cpc EXCEPT ![c].pc = "done"]
    /\ UNCHANGED <<conn, tracked, agentConns, storeErrors>>

\* A memcached request of client.Delete fails: the error is only logged.
DelError(c) ==
    /\ cpc[c].pc \in {"del_get", "del_del"}
    /\ storeErrors < MaxStoreErrors
    /\ storeErrors' = storeErrors + 1
    /\ cpc' = [cpc EXCEPT ![c].pc = "done"]
    /\ UNCHANGED <<conn, tracked, agentConns, items, hpc>>

-----------------------------------------------------------------------------

\* The transport loses connection c (idle timeout, peer vanished).
ConnLost(c) ==
    /\ CloseWithError({c}, Lost)
    /\ UNCHANGED <<tracked, agentConns, items, hpc, storeErrors>>

\* One step of some goroutine of some proxy.
ProxyStep ==
    \E c \in Conns :
        \/ VerifyOk(c) \/ VerifyFail(c)
        \/ PutTrack(c) \/ PutSwap(c)
        \/ SetGetMiss(c) \/ SetGetHit(c) \/ SetAdd(c) \/ SetVerify(c)
        \/ SetCas(c) \/ SetError(c)
        \/ CbGetAndDelete(c) \/ CbCheck(c) \/ DelGet(c) \/ DelDel(c)
        \/ DelError(c)


=============================================================================
