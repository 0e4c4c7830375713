------------------------------- MODULE Keystore -------------------------------
(***************************************************************************)
(* The key store of pkg/keystore/keystore.go over the in-memory backend.   *)
(*                                                                         *)
(* ks.keys is the local cache of the keys in the backend.  Add writes a    *)
(* key to the backend and then runs synchronize; the monitor goroutine     *)
(* runs synchronize at every tick until its context is cancelled.          *)
(* synchronize lists the backend, removes every cached key one by one,     *)
(* and adds the listed keys back one by one; each of those writes takes    *)
(* the store's lock separately, and the range over ks.keys takes none.     *)
(*                                                                         *)
(* Keys are model values; encoding (JSON, snappy, JWK) is left out.  A     *)
(* key written by Add has expiration 0, which IsExpired reports as not     *)
(* expired, so no key is skipped as expired.                               *)
(***************************************************************************)
EXTENDS Naturals, FiniteSets

CONSTANTS
  Clients,    \* goroutines calling Add, Get, All and Remove
  Monitor,    \* the monitor goroutine
  Keys,       \* key ids
  MaxOps,     \* bound on the client calls
  NoKey       \* a model value: no key

Procs == Clients \cup {Monitor}

VARIABLES
  backend,    \* ids stored under jwk/ in the backend
  cache,      \* the ids in ks.keys
  proc,       \* proc[p]: pc, and the state of p's synchronize
  monitor,    \* "off" before StartMonitor, "on", "returned"
  cancelled,  \* the monitor's context is done (Close)
  ops,        \* client calls made
  added,      \* ids whose Add has returned
  removed     \* ids a client has removed

vars == <<backend, cache, proc, monitor, cancelled, ops, added, removed>>

\* A goroutine's pc: "idle" (a client) or "wait" (the monitor), or one of
\* synchronize's phases "list", "range", "delete", "update".  key is the key its Add
\* is adding; listed is List's result still to add; toVisit is what the
\* range over ks.keys has still to produce.
Rest(p) == IF p = Monitor THEN "wait" ELSE "idle"

Init ==
  /\ backend = {}
  /\ cache = {}
  /\ proc = [p \in Procs |-> [pc |-> Rest(p), key |-> NoKey, listed |-> {}, toVisit |-> {}]]
  /\ monitor = "off"
  /\ cancelled = FALSE
  /\ ops = 0
  /\ added = {}
  /\ removed = {}

ClientCall(c) ==
  /\ proc[c].pc = "idle"
  /\ ops < MaxOps
  /\ ops' = ops + 1

\* The in-memory backend: data maps "jwk/<id>" to the key's payload; the
\* model keeps the ids.  Set stores under the write lock.
BackendSet(k) == backend' = backend \cup {k}

\* List, under the read lock, returns every key with the "jwk/" prefix
\* trimmed: the ids.
BackendList == backend

\* Get, under the read lock, finds the key or returns "Key not found".
BackendGet(k) == k \in backend

\* Add: store.Set("jwk/<id>"), then synchronize.
Add(c, k) ==
  /\ ClientCall(c)
  /\ BackendSet(k)
  /\ proc' = [proc EXCEPT ![c].pc = "list", ![c].key = k]
  /\ UNCHANGED <<cache, monitor, cancelled, added, removed>>

\* Get under the read lock: it finds k when k is in ks.keys.
Get(c, k) ==
  /\ ClientCall(c)
  /\ UNCHANGED <<backend, cache, proc, monitor, cancelled, added, removed>>

\* All and OnlyPublicKeys under the read lock: the keys of ks.keys (their
\* public halves for the latter), read and changed by nothing.
All(c) ==
  /\ ClientCall(c)
  /\ UNCHANGED <<backend, cache, proc, monitor, cancelled, added, removed>>

\* Remove deletes from the local cache only; ErrKeyNotFound changes nothing.
Remove(c, k) ==
  /\ ClientCall(c)
  /\ cache' = cache \ {k}
  /\ removed' = removed \cup {k}
  /\ UNCHANGED <<backend, proc, monitor, cancelled, added>>

\* synchronize, first step: store.List.
SyncList(p) ==
  /\ proc[p].pc = "list"
  /\ proc' = [proc EXCEPT ![p].pc = "range", ![p].listed = BackendList]
  /\ UNCHANGED <<backend, cache, monitor, cancelled, ops, added, removed>>

\* `for kid := range ks.keys` begins, without the lock: every entry present
\* now and not deleted before the range reaches it will be produced.
SyncRange(p) ==
  /\ proc[p].pc = "range"
  /\ proc' = [proc EXCEPT ![p].pc = "delete", ![p].toVisit = cache]
  /\ UNCHANGED <<backend, cache, monitor, cancelled, ops, added, removed>>

\* One iteration of the range: ks.Remove(kid).  An entry created during the
\* range (by another goroutine's synchronize) may be produced or skipped,
\* so any entry still in ks.keys may come next; the range ends once every
\* entry it must produce is gone.
SyncDelete(p) ==
  /\ proc[p].pc = "delete"
  /\ \/ \E kid \in cache :
          /\ cache' = cache \ {kid}
          /\ proc' = [proc EXCEPT ![p].toVisit = @ \ {kid}]
     \/ /\ proc[p].toVisit \cap cache = {}
        /\ proc' = [proc EXCEPT ![p].pc = "update", ![p].toVisit = {}]
        /\ UNCHANGED cache
  /\ UNCHANGED <<backend, monitor, cancelled, ops, added, removed>>

\* One iteration of `for _, kid := range keys`: store.Get, whose error is
\* skipped by continue, and the key is put in ks.keys under the lock.
\* After the last one synchronize returns, and so does Add.
SyncUpdate(p) ==
  /\ proc[p].pc = "update"
  /\ IF proc[p].listed # {}
     THEN \E kid \in proc[p].listed :
            /\ cache' = IF BackendGet(kid) THEN cache \cup {kid} ELSE cache
            /\ proc' = [proc EXCEPT ![p].listed = @ \ {kid}]
            /\ UNCHANGED added
     ELSE /\ proc' = [proc EXCEPT ![p].pc = Rest(p), ![p].key = NoKey]
          /\ added' = IF p = Monitor THEN added ELSE added \cup {proc[p].key}
          /\ UNCHANGED cache
  /\ UNCHANGED <<backend, monitor, cancelled, ops, removed>>

SyncStep(p) == SyncList(p) \/ SyncRange(p) \/ SyncDelete(p) \/ SyncUpdate(p)

StartMonitor ==
  /\ monitor = "off"
  /\ monitor' = "on"
  /\ UNCHANGED <<backend, cache, proc, cancelled, ops, added, removed>>

\* Close cancels the monitor's context once StartMonitor has set ks.done.
Close ==
  /\ monitor # "off"
  /\ ~cancelled
  /\ cancelled' = TRUE
  /\ UNCHANGED <<backend, cache, proc, monitor, ops, added, removed>>

\* The monitor's select: the timer fires and synchronize runs ...
MonitorTick ==
  /\ monitor = "on"
  /\ proc[Monitor].pc = "wait"
  /\ proc' = [proc EXCEPT ![Monitor].pc = "list"]
  /\ UNCHANGED <<backend, cache, monitor, cancelled, ops, added, removed>>

\* Mutant: the monitor returns without its context being done.
MonitorDoneNoCancel ==
  /\ monitor = "on"
  /\ proc[Monitor].pc = "wait"
  /\ monitor' = "returned"
  /\ UNCHANGED <<backend, cache, proc, cancelled, ops, added, removed>>

\* ... or ctx.Done() is ready and the monitor returns.
MonitorDone ==
  /\ monitor = "on"
  /\ proc[Monitor].pc = "wait"
  /\ cancelled
  /\ monitor' = "returned"
  /\ UNCHANGED <<backend, cache, proc, cancelled, ops, added, removed>>

Next ==
  \/ \E c \in Clients, k \in Keys : Add(c, k) \/ Get(c, k) \/ Remove(c, k)
  \/ \E c \in Clients : All(c)
  \/ \E p \in Procs : SyncStep(p)
  \/ StartMonitor \/ Close \/ MonitorTick \/ MonitorDone

\* The goroutines inside synchronize keep running, and the monitor's timer
\* keeps firing.  The application's calls (the clients, StartMonitor,
\* Close) are not forced.
Fairness == (\A p \in Procs : WF_vars(SyncStep(p))) /\ WF_vars(MonitorTick)

Spec == Init /\ [][Next]_vars /\ Fairness

-----------------------------------------------------------------------------
(* Properties *)

\* No synchronize is running.
Quiet == \A p \in Procs : proc[p].pc \in {"idle", "wait"}

\* While the monitor runs, the cache comes to agree with the backend for
\* good: from some point on, whenever no synchronize is running, ks.keys
\* holds exactly the backend's keys, whatever stale lists interleaved
\* synchronize calls worked from.
EventuallyConsistent ==
  <>[](monitor = "off" \/ cancelled \/ (Quiet => cache = backend))

\* A Get of a key whose Add has returned finds it, unless a client removed
\* that key (keystore_test.go gets every added key after Add).
ReadYourAdds ==
  [][\A c \in Clients, k \in Keys :
       Get(c, k) /\ k \in added /\ k \notin removed => k \in cache]_vars

=============================================================================
