------------------------------ MODULE MemoryStore -----------------------------
(***************************************************************************)
(* The in-memory cache store of pkg/cache/memory over go-cache, used as    *)
(* the specification of the cache.Store interface: go-cache takes its      *)
(* lock around every operation, so each method takes effect at one         *)
(* instant.  A client calls one method at a time (req) and receives its    *)
(* error, or the value Get decoded (ret).  Expiry is not modelled: the     *)
(* entries outlive the behaviours checked.  The caller passes a pointer    *)
(* to Get, as the interface requires, so Get never fails to set it.        *)
(***************************************************************************)
EXTENDS Naturals

CONSTANTS
  Clients,   \* goroutines calling the store
  Keys,      \* cache keys
  Values,    \* values stored
  Missing    \* no entry under a key

ASSUME Missing \notin Values

VARIABLES
  store,     \* the entries
  req,       \* per client: the call in progress, or NoReq
  ret        \* per client: what its last call returned

mvars == <<store, req, ret>>

NoReq == [op |-> "none"]

Requests ==
       [op : {"get", "delete"}, k : Keys]
  \cup [op : {"set", "add", "replace"}, k : Keys, v : Values]
  \cup [op : {"flush"}]

Results == {"ok", "miss", "notstored"} \cup Values

\* cache.New("memory"): NewCacheStore, then Connect's empty go-cache.
MInit ==
  /\ store = [k \in Keys |-> Missing]
  /\ req = [c \in Clients |-> NoReq]
  /\ ret = [c \in Clients |-> "ok"]

\* A client enters one of the Store's methods.
MCall(c) ==
  /\ req[c] = NoReq
  /\ \E r \in Requests : req' = [req EXCEPT ![c] = r]
  /\ UNCHANGED <<store, ret>>

\* The method returns r.
Return(c, r) ==
  /\ ret' = [ret EXCEPT ![c] = r]
  /\ req' = [req EXCEPT ![c] = NoReq]

\* Get: ErrCacheMiss when go-cache has no entry, else the value.
MGet(c) ==
  LET k == req[c].k IN
  /\ req[c].op = "get"
  /\ Return(c, IF store[k] = Missing THEN "miss" ELSE store[k])
  /\ UNCHANGED store

\* Set: go-cache's Set, which always stores.
MSet(c) ==
  /\ req[c].op = "set"
  /\ store' = [store EXCEPT ![req[c].k] = req[c].v]
  /\ Return(c, "ok")

\* Add: go-cache's Add fails with ErrKeyExists on a present key, turned
\* into ErrNotStored.
MAdd(c) ==
  LET k == req[c].k IN
  /\ req[c].op = "add"
  /\ IF store[k] # Missing
     THEN Return(c, "notstored") /\ UNCHANGED store
     ELSE Return(c, "ok") /\ store' = [store EXCEPT ![k] = req[c].v]

\* Replace: go-cache's Replace fails on an absent key: ErrNotStored.
MReplace(c) ==
  LET k == req[c].k IN
  /\ req[c].op = "replace"
  /\ IF store[k] = Missing
     THEN Return(c, "notstored") /\ UNCHANGED store
     ELSE Return(c, "ok") /\ store' = [store EXCEPT ![k] = req[c].v]

\* Delete: ErrCacheMiss when go-cache found nothing to delete.
MDelete(c) ==
  LET k == req[c].k IN
  /\ req[c].op = "delete"
  /\ IF store[k] = Missing
     THEN Return(c, "miss") /\ UNCHANGED store
     ELSE Return(c, "ok") /\ store' = [store EXCEPT ![k] = Missing]

\* Flush: go-cache's Flush empties the cache.
MFlush(c) ==
  /\ req[c].op = "flush"
  /\ store' = [k \in Keys |-> Missing]
  /\ Return(c, "ok")

MNext ==
  \E c \in Clients :
    \/ MCall(c) \/ MGet(c) \/ MSet(c) \/ MAdd(c)
    \/ MReplace(c) \/ MDelete(c) \/ MFlush(c)

MSpec == MInit /\ [][MNext]_mvars

=============================================================================
