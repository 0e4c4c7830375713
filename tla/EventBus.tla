------------------------------- MODULE EventBus -------------------------------
(***************************************************************************)
(* The local event bus of pkg/eventbus/local.go, for one topic.            *)
(*                                                                         *)
(* bus.handlers[topic] is a Go slice: a header (backing array, length)     *)
(* over an array that append may reuse.  The model keeps the array itself, *)
(* because Publish ranges over a copy of the header while removeHandler    *)
(* shifts the elements of the same array in place.  Only append moves the  *)
(* slice to a new array, and append needs bus.lock, which Publish holds    *)
(* for its whole loop: the array a Publish ranges over is the bus's one.   *)
(*                                                                         *)
(* Every exported method takes bus.lock, so the callers of the bus run one *)
(* method at a time: one caller process stands for all of them.  The       *)
(* goroutines of asynchronous handlers run doPublishAsync without the bus  *)
(* lock, concurrently with the caller.  Their removeHandler is two steps:  *)
(* findHandlerIdx reads the slice, then line 181 cuts the slice as it is   *)
(* by then at the index found; the caller's methods and other goroutines   *)
(* may run in between.  Each step is atomic: the data race within one      *)
(* (a torn read of the slice header) is left out.                          *)
(***************************************************************************)
EXTENDS Naturals, Sequences, FiniteSets, Bags, BagsExt

CONSTANTS
  Callbacks,      \* the functions subscribed (reflect.Value of fn)
  MaxHandlers,    \* bound on the number of subscriptions
  MaxPublishes    \* bound on the number of Publish calls

VARIABLES
  backing,    \* the backing array (its length is the capacity): handler ids, 0 if unwritten
  length,     \* len(bus.handlers[topic])
  hs,         \* the *eventHandler objects, by id in subscription order
  caller,     \* the caller: idle, or inside Publish with its range state
  gs,         \* running goroutines of doPublishAsync: a bag of [h, pc, i]
  published   \* number of Publish calls made

vars == <<backing, length, hs, caller, gs, published>>

\* A Publish in progress ranges over n elements, at index i; snap (a
\* history variable) is the handlers it found when it took the lock.
Idle == [pc |-> "idle", n |-> 0, i |-> 0, snap |-> <<>>]

\* bus.handlers[topic] as a sequence.
Handlers == SubSeq(backing, 1, length)

\* The handlers the bus holds: subscribed and not yet removed, in order.
Live == SelectSeq([h \in 1..Len(hs) |-> h], LAMBDA h : ~hs[h].removed)

\* append(bus.handlers[topic], h): write into the spare capacity, or copy
\* into a new array of twice the capacity (1 for a nil slice).
AppendHandler(h) ==
  /\ backing' =
       IF length < Len(backing)
       THEN [backing EXCEPT ![length + 1] = h]
       ELSE LET cap == IF backing = <<>> THEN 1 ELSE 2 * Len(backing)
            IN [k \in 1..cap |-> IF k <= length THEN backing[k]
                                 ELSE IF k = length + 1 THEN h ELSE 0]
  /\ length' = length + 1

\* Subscribe, SubscribeAsync, SubscribeOnce and SubscribeOnceAsync: append
\* a new handler with the given flags.  Each function is subscribed once.
SubscribeWith(cb, once, async, trans) ==
  /\ caller.pc = "idle"
  /\ Len(hs) < MaxHandlers
  /\ cb \notin {hs[h].cb : h \in 1..Len(hs)}
  /\ hs' = Append(hs, [cb |-> cb, once |-> once, async |-> async,
                       trans |-> trans, called |-> FALSE, locked |-> FALSE,
                       calls |-> 0, removed |-> FALSE])
  /\ AppendHandler(Len(hs) + 1)
  /\ UNCHANGED <<caller, gs, published>>

Subscribe(cb) == SubscribeWith(cb, FALSE, FALSE, FALSE)
SubscribeAsync(cb, trans) == SubscribeWith(cb, FALSE, TRUE, trans)
SubscribeOnce(cb) == SubscribeWith(cb, TRUE, FALSE, FALSE)
SubscribeOnceAsync(cb) == SubscribeWith(cb, TRUE, TRUE, FALSE)

\* findHandlerIdx: the first index whose callBack equals cb, 0 if none.
FindHandlerIdx(cb) ==
  LET found == {k \in 1..length : hs[Handlers[k]].cb = cb}
  IN IF found = {} THEN 0 ELSE CHOOSE k \in found : \A j \in found : k <= j

ShiftOut(a, i, n) == [k \in DOMAIN a |-> IF i <= k /\ k < n THEN a[k + 1] ELSE a[k]]

\* removeHandler(topic, cb), as the handler objects and the slice it leaves.
\* hs1 is hs as the rest of the step changes it.
RemoveHandler(cb, hs1) ==
  LET i == FindHandlerIdx(cb) IN
  IF i = 0
  THEN /\ hs' = hs1
       /\ UNCHANGED <<backing, length>>
  ELSE /\ backing' = ShiftOut(backing, i, length)
       /\ length' = length - 1
       /\ hs' = [hs1 EXCEPT ![backing[i]].removed = TRUE]

\* Unsubscribe: with an empty topic it returns an error and changes nothing.
Unsubscribe(cb) ==
  /\ caller.pc = "idle"
  /\ length > 0
  /\ RemoveHandler(cb, hs)
  /\ UNCHANGED <<caller, gs, published>>

\* Publish takes the lock and copies the slice header it ranges over.
PublishStart ==
  /\ caller.pc = "idle"
  /\ published < MaxPublishes
  /\ caller' = [pc |-> "pub", n |-> length, i |-> 1, snap |-> Handlers]
  /\ published' = published + 1
  /\ UNCHANGED <<backing, length, hs, gs>>

\* handler.called = true and the callback runs.  called is read only for
\* once handlers (line 150), so only theirs is kept; calls, a history
\* variable, counts their calls.
CallOf(h) ==
  IF hs[h].once THEN [hs EXCEPT ![h].called = TRUE, ![h].calls = @ + 1] ELSE hs

DoPublishSync(h) ==
  LET call == CallOf(h)
  IN IF hs[h].once
     THEN RemoveHandler(hs[h].cb, IF hs[h].called THEN hs ELSE call)
     ELSE /\ hs' = call
          /\ UNCHANGED <<backing, length>>

\* One iteration of `for _, handler := range handlers`: the element is read
\* from the backing array now, not when the range began.
PublishStep ==
  /\ caller.pc = "pub"
  /\ caller.i <= caller.n
  /\ LET h == backing[caller.i]
     IN IF hs[h].async
           THEN /\ gs' = BagAdd(gs, [h |-> h, pc |-> "start", i |-> 0])
                /\ UNCHANGED <<backing, length, hs>>
           ELSE /\ DoPublishSync(h)
                /\ UNCHANGED gs
  /\ caller' = [caller EXCEPT !.i = @ + 1]
  /\ UNCHANGED published

PublishEnd ==
  /\ caller.pc = "pub"
  /\ caller.i > caller.n
  /\ caller' = Idle
  /\ UNCHANGED <<backing, length, hs, gs, published>>

\* Goroutine g moves to pc, holding index i; "done" is wg.Done, and the
\* goroutine ends.
GoToWith(g, pc, i) ==
  gs' = IF pc = "done" THEN BagRemove(gs, g)
        ELSE BagAdd(BagRemove(gs, g), [g EXCEPT !.pc = pc, !.i = i])

GoTo(g, pc) == GoToWith(g, pc, g.i)

\* Where doPublish goes after removeHandler: a handler already called
\* returns, otherwise it is called.
AfterRemove(h) == IF hs[h].called THEN "return" ELSE "set"

\* doPublishAsync: a transactional handler's mutex is taken first.
AsyncStart(g) ==
  LET h == g.h IN
  /\ g.pc = "start"
  /\ IF hs[h].trans
     THEN /\ ~hs[h].locked
          /\ hs' = [hs EXCEPT ![h].locked = TRUE]
     ELSE UNCHANGED hs
  /\ GoTo(g, "run")
  /\ UNCHANGED <<backing, length, caller, published>>

\* doPublish in the goroutine: a once handler calls removeHandler, without
\* bus.lock; findHandlerIdx reads the slice now.  Not found, the test of
\* called follows at once.  Another handler's called is not kept (CallOf),
\* so it goes straight to its callback.
AsyncCheck(g) ==
  LET h == g.h
      i == FindHandlerIdx(hs[h].cb)
  IN /\ g.pc = "run"
     /\ IF hs[h].once /\ i > 0
        THEN GoToWith(g, "cut", i)
        ELSE GoTo(g, IF hs[h].once THEN AfterRemove(h) ELSE "call")
     /\ UNCHANGED <<backing, length, hs, caller, published>>

\* Line 181 on the slice as it is now, at the index found before:
\* bus.handlers[topic][i+1:] panics when the slice has since become
\* shorter than i+1, which ends the program; otherwise the element now at
\* i is cut out, whichever handler that is.  Then the test of called.
AsyncCut(g) ==
  LET h == g.h IN
  /\ g.pc = "cut"
  /\ IF g.i > length
     THEN /\ GoTo(g, "panic")
          /\ UNCHANGED <<backing, length, hs>>
     ELSE /\ backing' = ShiftOut(backing, g.i, length)
          /\ length' = length - 1
          /\ hs' = [hs EXCEPT ![h].removed = TRUE]
          /\ GoToWith(g, AfterRemove(h), 0)
  /\ UNCHANGED <<caller, published>>

\* handler.called = true; handler.callBack.Call(...) begins.
AsyncCall(g) ==
  LET h == g.h IN
  /\ g.pc = "set"
  /\ hs' = CallOf(h)
  /\ GoTo(g, "call")
  /\ UNCHANGED <<backing, length, caller, published>>

\* The callback returns; the deferred Unlock and wg.Done run.
AsyncReturn(g) ==
  LET h == g.h IN
  /\ g.pc \in {"call", "return"}
  /\ hs' = IF hs[h].trans THEN [hs EXCEPT ![h].locked = FALSE] ELSE hs
  /\ GoTo(g, "done")
  /\ UNCHANGED <<backing, length, caller, published>>

Init ==
  /\ backing = <<>>
  /\ length = 0
  /\ hs = <<>>
  /\ caller = Idle
  /\ gs = EmptyBag
  /\ published = 0

Next ==
  \/ \E cb \in Callbacks :
       \/ Subscribe(cb)
       \/ \E trans \in BOOLEAN : SubscribeAsync(cb, trans)
       \/ SubscribeOnce(cb)
       \/ SubscribeOnceAsync(cb)
       \/ Unsubscribe(cb)
  \/ PublishStart \/ PublishStep \/ PublishEnd
  \/ \E g \in BagToSet(gs) :
       AsyncStart(g) \/ AsyncCheck(g) \/ AsyncCut(g) \/ AsyncCall(g) \/ AsyncReturn(g)

\* A panic in a goroutine ends the program.
Panicked == \E g \in BagToSet(gs) : g.pc = "panic"

SafeNext == ~Panicked /\ Next

Spec == Init /\ [][SafeNext]_vars

-----------------------------------------------------------------------------
(* Properties *)

\* bus.handlers[topic] holds exactly the handlers subscribed and not yet
\* removed, in subscription order, after any mix of appends, in-place
\* removals by Unsubscribe and once handlers, and goroutines' removals.
\* It does not hold: a goroutine's removeHandler cuts at an index found
\* before an Unsubscribe or another removal, and so removes another handler.
RegistryExact == Handlers = Live

DispatchMatchesSnapshot ==
  [][PublishStep => backing[caller.i] = caller.snap[caller.i]]_vars

=============================================================================
