------------------------------ MODULE Registry ------------------------------
(***************************************************************************)
(* The memcached server that backs the agent registry (store.Client of     *)
(* pkg/store/memcached), seen through the gomemcache primitives the        *)
(* client calls: Get, Set, CompareAndSwap and Delete.  Each primitive is   *)
(* one atomic request to the server.  The multi-request operations of the  *)
(* client (Set with read-back or CAS, Delete after a compare) are steps of *)
(* the goroutines that call them, in ConnTrack.tla.                        *)
(*                                                                         *)
(* A CAS unique is only ever compared with the unique the same client     *)
(* read earlier, and every Set or Delete of a key gives it a new one.  So  *)
(* the unique is not stored here: a goroutine that read a key keeps a flag *)
(* that is cleared by the next store or delete of that key (ConnTrack's    *)
(* Touch), which is exactly when a CompareAndSwap with the read unique     *)
(* would fail.                                                             *)
(***************************************************************************)
CONSTANTS
    Keys,       \* agent ids
    Values,     \* proxy http addresses
    Miss        \* the value of an absent key (memcache.ErrCacheMiss)

ASSUME Miss \notin Values

Item == Values \cup {Miss}

EmptyStore == [k \in Keys |-> Miss]

\* mc.Get: the value, Miss when the key is absent.
Lookup(items, k) == items[k]

\* mc.Set: unconditional store.
Stored(items, k, v) == [items EXCEPT ![k] = v]

\* mc.CompareAndSwap succeeds only if the key is present (else ErrNotStored)
\* and has not been stored or deleted since it was read (else
\* ErrCASConflict).
CasMatches(items, k, fresh) == items[k] # Miss /\ fresh

\* mc.Delete: unconditional removal (ErrCacheMiss when already absent).
Deleted(items, k) == [items EXCEPT ![k] = Miss]

=============================================================================
