---------------------------- MODULE ProxyShutdown ----------------------------
(***************************************************************************)
(* The end of a proxy process (pkg/proxy/server.go, RunProxyServer): on    *)
(* SIGINT/SIGTERM the run group calls the agent server's interrupt, which  *)
(* runs, in this order,                                                    *)
(*   quicServer.Close()   = ConnTrack.Shutdown: take agentConns.Entries(), *)
(*                          CloseWithError(0) each connection, then        *)
(*                          storeClient.Delete(agentID, own address) each; *)
(*   storeClient.Close()  = close gomemcache's idle connections (the       *)
(*                          client stays usable, so no state changes);     *)
(*   ln.Close()           = Accept fails from now on; connections already  *)
(*                          established are left as they are.              *)
(* listenForAgents then returns, group.Run returns, and the process exits: *)
(* its goroutines stop wherever they are, its maps are gone, and its QUIC  *)
(* connections die with it (the agents see them time out).                *)
(*                                                                         *)
(* life[p]: "up"; "stopping" once the interrupt has begun (the listener is *)
(* still open); "closed" after ln.Close; "exited".  spc[p] is the          *)
(* interrupt's goroutine: the agents of the snapshot still to delete and   *)
(* the one being deleted.                                                  *)
(***************************************************************************)
EXTENDS Naturals

CONSTANTS
    Proxies, AgentIds, Conns, None, Unauth, Untracked,
    MaxStoreErrors, StoreType,
    Stoppable       \* the proxies that receive a quit signal

VARIABLES
    conn, tracked, agentConns, items, hpc, cpc, storeErrors,
    life,           \* life[p]: how far proxy process p has got in ending
    spc             \* spc[p]: the shutdown goroutine of proxy p

CT == INSTANCE ConnTrack

Lives == {"up", "stopping", "closed", "exited"}
ShutdownPcs == {"idle", "del_get", "del_del", "done"}

TypeOK ==
    /\ life \in [Proxies -> Lives]
    /\ spc \in [Proxies -> [pc : ShutdownPcs, todo : SUBSET AgentIds,
                            cur : AgentIds \cup {None}]]

Init ==
    /\ life = [p \in Proxies |-> "up"]
    /\ spc = [p \in Proxies |-> [pc |-> "idle", todo |-> {}, cur |-> None]]

\* ln.Accept still hands out connections.
Listening(p) == life[p] \in {"up", "stopping"}

\* agentConns.Entries(): the agents of the entries a sync.Map Range meets.
Entries(p) == {a \in AgentIds : agentConns[p][a] # None}

\* A quit signal (AddQuitSignal's actor returns and the run group calls
\* the interrupts): ConnTrack.Shutdown ranges over agentConns and closes
\* every connection it finds with code 0 (their close callbacks become
\* runnable).  A Swap racing the Range is either seen or not, as if it had
\* come before or after it, so the snapshot and the closes are one step.
\* With the none store the Deletes return nil at once.
Shutdown(p) ==
    LET snap == Entries(p) IN
    /\ p \in Stoppable
    /\ life[p] = "up"
    /\ life' = [life EXCEPT ![p] = "stopping"]
    /\ CT!CloseWithError({agentConns[p][a] : a \in snap}, 0)
    /\ spc' = [spc EXCEPT ![p] = [pc |-> "del_get", cur |-> None,
                                  todo |-> IF CT!UsesMemcached THEN snap ELSE {}]]
    /\ UNCHANGED <<tracked, agentConns, items, hpc, storeErrors>>

\* The Delete loop takes the next agent of the snapshot: client.Delete
\* reads the key; a miss is success, another proxy's address is an error
\* (logged), this proxy's address goes on to mc.Delete.
ShutdownDelGet(p) ==
    /\ spc[p].pc = "del_get"
    /\ \E a \in spc[p].todo :
          spc' = [spc EXCEPT ![p] =
                    [pc   |-> IF CT!Reg!Lookup(items, a) = p THEN "del_del" ELSE "del_get",
                     todo |-> spc[p].todo \ {a},
                     cur  |-> a]]
    /\ UNCHANGED <<conn, tracked, agentConns, items, hpc, cpc, storeErrors, life>>

\* mc.Delete(key): removes whatever the key holds by now.
ShutdownDelDel(p) ==
    LET a == spc[p].cur IN
    /\ spc[p].pc = "del_del"
    /\ items' = CT!Reg!Deleted(items, a)
    /\ CT!Touch(a, <<>>)
    /\ spc' = [spc EXCEPT ![p].pc = "del_get"]
    /\ UNCHANGED <<conn, tracked, agentConns, cpc, storeErrors, life>>

\* A memcached request of the Delete (its Get or its Delete) fails: the
\* error is logged and the loop goes on without deleting.
ShutdownDelError(p) ==
    /\ spc[p].pc = "del_del"
    /\ storeErrors < MaxStoreErrors
    /\ storeErrors' = storeErrors + 1
    /\ spc' = [spc EXCEPT ![p].pc = "del_get"]
    /\ UNCHANGED <<conn, tracked, agentConns, items, hpc, cpc, life>>

\* The loop is over; storeClient.Close(), then ln.Close(): Accept fails.
ListenerClose(p) ==
    /\ spc[p].pc = "del_get"
    /\ spc[p].todo = {}
    /\ spc' = [spc EXCEPT ![p].pc = "done"]
    /\ life' = [life EXCEPT ![p] = "closed"]
    /\ UNCHANGED <<conn, tracked, agentConns, items, hpc, cpc, storeErrors>>

\* listenForAgents returns, group.Run returns, the process exits: its
\* goroutines (handlers in PutConn, close callbacks in OnConnClose) stop
\* where they are, its maps are gone, and its open connections are lost
\* without a close callback.  The registry keeps whatever it holds.
Exit(p) ==
    LET mine == {c \in Conns : conn[c].proxy = p} IN
    /\ life[p] = "closed"
    /\ life' = [life EXCEPT ![p] = "exited"]
    /\ conn' = [c \in Conns |->
                  IF c \in mine /\ conn[c].state = "open"
                  THEN [conn[c] EXCEPT !.state = "closed", !.code = CT!Lost]
                  ELSE conn[c]]
    /\ hpc' = [c \in Conns |-> IF c \in mine THEN [hpc[c] EXCEPT !.pc = "done"] ELSE hpc[c]]
    /\ cpc' = [c \in Conns |-> IF c \in mine THEN [cpc[c] EXCEPT !.pc = "done"] ELSE cpc[c]]
    /\ tracked' = [tracked EXCEPT ![p] = [c \in Conns |-> Untracked]]
    /\ agentConns' = [agentConns EXCEPT ![p] = [a \in AgentIds |-> None]]
    /\ UNCHANGED <<items, storeErrors, spc>>

====
