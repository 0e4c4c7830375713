------------------------------ MODULE RedisStore ------------------------------
(***************************************************************************)
(* The redis cache store of pkg/cache/redis.  Every method borrows a       *)
(* connection from the redigo pool and sends commands, each of which the   *)
(* server runs atomically; Add, Replace and Delete send EXISTS and then    *)
(* SET or DEL, two commands with other clients' commands between them.     *)
(* Clients, keys and values are those of MemoryStore, the specification    *)
(* this store is checked against.  Expiry and server failures are not      *)
(* modelled.                                                               *)
(***************************************************************************)
EXTENDS Naturals

CONSTANTS
  Clients, Keys, Values, Missing,
  MaxCalls   \* bound on the calls of all clients

VARIABLES
  store,     \* the server's keys
  req,       \* per client: the call in progress, or NoReq
  ret,       \* per client: what its last call returned
  pc,        \* per client: "start", or the command after EXISTS ("set", "del")
  leaked,    \* connections borrowed from the pool and never closed
  calls      \* calls so far

rvars == <<store, req, ret, pc, leaked, calls>>

Abs == INSTANCE MemoryStore

\* cache.New("redis"): NewCacheStore, and Connect's pool, which dials
\* lazily; the server's keys start empty.
RInit ==
  /\ Abs!MInit
  /\ pc = [c \in Clients |-> "start"]
  /\ leaked = 0
  /\ calls = 0

\* A client enters one of the Store's methods.
RCall(c) ==
  /\ calls < MaxCalls
  /\ calls' = calls + 1
  /\ Abs!MCall(c)
  /\ pc' = [pc EXCEPT ![c] = "start"]
  /\ UNCHANGED leaked

\* Get: GET on a pooled connection; a nil reply is ErrCacheMiss, else the
\* bytes are decoded.
RGet(c) ==
  /\ Abs!MGet(c)
  /\ UNCHANGED <<pc, leaked, calls>>

\* Set: invoke(s.pool.Get().Do, ...) sends SET on a connection that
\* nothing closes; invoke's own connection is borrowed and closed unused.
RSet(c) ==
  /\ Abs!MSet(c)
  /\ leaked' = leaked + 1
  /\ UNCHANGED <<pc, calls>>

\* Flush: FLUSHALL.
RFlush(c) ==
  /\ Abs!MFlush(c)
  /\ UNCHANGED <<pc, leaked, calls>>

\* The EXISTS of Add, Replace and Delete.  Add returns ErrNotStored on a
\* present key, Replace ErrNotStored and Delete ErrCacheMiss on an absent
\* one; otherwise the client goes on to its second command.
RExists(c) ==
  LET r == req[c]
      present == store[r.k] # Missing
  IN /\ r.op \in {"add", "replace", "delete"}
     /\ pc[c] = "start"
     /\ CASE r.op = "add" /\ present      -> Abs!Return(c, "notstored") /\ UNCHANGED pc
          [] r.op = "replace" /\ ~present -> Abs!Return(c, "notstored") /\ UNCHANGED pc
          [] r.op = "delete" /\ ~present  -> Abs!Return(c, "miss") /\ UNCHANGED pc
          [] r.op = "delete"              -> pc' = [pc EXCEPT ![c] = "del"] /\ UNCHANGED <<req, ret>>
          [] OTHER                        -> pc' = [pc EXCEPT ![c] = "set"] /\ UNCHANGED <<req, ret>>
     /\ UNCHANGED <<store, leaked, calls>>

\* Add and Replace: invoke(conn.Do, ...) sends SET on the connection of
\* the EXISTS, whatever happened to the key since.  Replace's ErrNotStored
\* for a nil value is not reached: no value is nil.
RWrite(c) ==
  /\ pc[c] = "set"
  /\ store' = [store EXCEPT ![req[c].k] = req[c].v]
  /\ Abs!Return(c, "ok")
  /\ pc' = [pc EXCEPT ![c] = "start"]
  /\ UNCHANGED <<leaked, calls>>

\* Delete: DEL, which succeeds whether or not the key is still there.
RDel(c) ==
  /\ pc[c] = "del"
  /\ store' = [store EXCEPT ![req[c].k] = Missing]
  /\ Abs!Return(c, "ok")
  /\ pc' = [pc EXCEPT ![c] = "start"]
  /\ UNCHANGED <<leaked, calls>>

RNext ==
  \E c \in Clients :
    \/ RCall(c) \/ RGet(c) \/ RSet(c) \/ RFlush(c)
    \/ RExists(c) \/ RWrite(c) \/ RDel(c)

RSpec == RInit /\ [][RNext]_rvars

-----------------------------------------------------------------------------
(* Properties *)

\* The redis store implements the Store as the memory store does: every
\* call takes effect at one instant between its call and its return, with
\* the result the memory store would give at that instant.  Add used as
\* "store if absent" then admits a single winner per key.
RefinesMemoryStore == Abs!MSpec

=============================================================================
