--------------------------- MODULE RabbitConnection ---------------------------
(***************************************************************************)
(* The RabbitMQ connection wrapper of pkg/broker/rabbitmq/internal:        *)
(* Connect, Close, Publish, tryConnect, and the reconnect goroutine that   *)
(* connect starts, and Consume with the subscriber goroutine of           *)
(* rbroker.Subscribe.  rbroker.Connect, Disconnect and Publish call these.  *)
(*                                                                         *)
(* An amqp.Connection is an id; the broker or the network may close an     *)
(* open one at any time.  r.exchangeChannel is the id of the connection it *)
(* was opened on.  r.close is a generation number: Connect replaces a      *)
(* closed channel by a new one, so every older generation is closed.       *)
(* Ids are reused once nothing refers to them.                             *)
(***************************************************************************)
EXTENDS Naturals, FiniteSets, Bags, BagsExt

CONSTANTS
  ConnIds,    \* ids for amqp connections: 1..n
  MaxCalls,   \* bound on the application's Connect and Close calls
  MaxDrops,   \* bound on connections closed by the broker side
  MaxFails    \* bound on channel errors from a live connection

VARIABLES
  open,       \* the amqp connections that are open
  conn,       \* r.connection: an id, 0 for nil
  exch,       \* r.exchangeChannel: the id of its connection, 0 for nil
  connected,  \* r.connected
  gen,        \* r.close: the current generation
  genClosed,  \* the current r.close is closed
  app,        \* the application goroutine: pc, and ready once Connect succeeded
  loops,      \* running reconnect goroutines: a bag of [pc, watch, g]
  calls,      \* the application's calls made
  drops,      \* connections closed by the broker side
  fails,      \* channel errors from a live connection
  panicked,   \* a goroutine panicked: the program has ended
  subs        \* subscriber goroutines: a bag of the connections they consume on

vars == <<open, conn, exch, connected, gen, genClosed, app, loops, calls, drops, fails, panicked, subs>>

\* An r.close channel of generation g is closed.
GenIsClosed(g) == g < gen \/ genClosed

\* Ids that neither an open connection nor any field or goroutine refers to.
FreeIds ==
  {i \in ConnIds : i \notin open /\ i # conn /\ i # exch
                   /\ \A l \in BagToSet(loops) : l.watch # i
                   /\ i \notin BagToSet(subs)}

Init ==
  /\ open = {}
  /\ conn = 0
  /\ exch = 0
  /\ connected = FALSE
  /\ gen = 0
  /\ genClosed = FALSE
  /\ app = [pc |-> "idle", ready |-> FALSE]
  /\ loops = EmptyBag
  /\ calls = 0
  /\ drops = 0
  /\ fails = 0
  /\ panicked = FALSE
  /\ subs = EmptyBag

-----------------------------------------------------------------------------
(* tryConnect, in two steps; the goroutine that runs them moves on by the  *)
(* step's result: "ok", "err" or "panic".                                   *)

\* r.connection, err = dial(r.url): on error r.connection becomes nil.
Dial ==
  \/ \E i \in FreeIds :
       /\ conn' = i
       /\ open' = open \cup {i}
  \/ /\ conn' = 0
     /\ UNCHANGED open

DialResult == IF conn' = 0 THEN "err" ELSE "ok"

\* A call on a live amqp channel (ExchangeDeclare, QueueDeclare, Consume,
\* QueueBind) returns an error.
ChannelFault ==
  /\ fails < MaxFails
  /\ fails' = fails + 1

\* NewChannel(r.connection) and DeclareExchange, then
\* r.exchangeChannel, err = NewChannel(r.connection): nil on error.
\* NewChannel on a nil connection dereferences it.  On a closed connection
\* the first NewChannel fails; on a live one any of the three calls may.
\* A connection dialled here is not closed when a later call fails.
Channels ==
  IF conn = 0
  THEN UNCHANGED <<exch, fails>>
  ELSE \/ /\ conn \in open
          /\ exch' = conn
          /\ UNCHANGED fails
       \/ /\ conn \notin open
          /\ UNCHANGED <<exch, fails>>
       \/ /\ conn \in open
          /\ ChannelFault
          /\ exch' \in {exch, 0}

ChannelsResult ==
  CASE conn = 0                           -> "panic"
    [] conn \notin open \/ fails' # fails -> "err"
    [] OTHER                              -> "ok"

-----------------------------------------------------------------------------
(* The application goroutine *)

AppStep(pc) == app' = [app EXCEPT !.pc = pc]

AppCall ==
  /\ app.pc = "idle"
  /\ calls < MaxCalls
  /\ calls' = calls + 1

\* Connect, under the lock: return if connected; renew a closed r.close.
Connect ==
  /\ AppCall
  /\ IF connected
     THEN /\ app' = [app EXCEPT !.ready = TRUE]
          /\ UNCHANGED <<gen, genClosed>>
     ELSE /\ AppStep("dial")
          /\ IF genClosed
             THEN gen' = gen + 1 /\ genClosed' = FALSE
             ELSE UNCHANGED <<gen, genClosed>>
  /\ UNCHANGED <<open, conn, exch, connected, loops, drops, panicked, fails, subs>>

AppDone(r, next) ==
  CASE r = "ok"    -> AppStep(next) /\ UNCHANGED panicked
    [] r = "err"   -> AppStep("idle") /\ UNCHANGED panicked
    [] r = "panic" -> panicked' = TRUE /\ UNCHANGED app

AppDial ==
  /\ app.pc = "dial"
  /\ Dial
  /\ AppDone(DialResult, "chans")
  /\ UNCHANGED <<exch, connected, gen, genClosed, loops, calls, drops, fails, subs>>

AppChannels ==
  /\ app.pc = "chans"
  /\ Channels
  /\ AppDone(ChannelsResult, "connected")
  /\ UNCHANGED <<open, conn, connected, gen, genClosed, loops, calls, drops, subs>>

\* connect: connected = true under the lock, then go r.reconnect(...).
AppConnected ==
  /\ app.pc = "connected"
  /\ connected' = TRUE
  /\ loops' = BagAdd(loops, [pc |-> "notify", watch |-> 0, g |-> 0])
  /\ app' = [pc |-> "idle", ready |-> TRUE]
  /\ UNCHANGED <<open, conn, exch, gen, genClosed, calls, drops, panicked, fails, subs>>

\* Close, under the lock: a closed r.close returns nil; otherwise close it,
\* clear connected and close r.connection, which panics when it is nil.
Close ==
  /\ AppCall
  /\ app' = [app EXCEPT !.ready = FALSE]
  /\ IF genClosed
     THEN UNCHANGED <<open, connected, genClosed, panicked>>
     ELSE /\ genClosed' = TRUE
          /\ connected' = FALSE
          /\ IF conn = 0
             THEN panicked' = TRUE /\ UNCHANGED open
             ELSE open' = open \ {conn} /\ UNCHANGED panicked
  /\ UNCHANGED <<conn, exch, gen, loops, drops, fails, subs>>

\* Publish after a successful Connect: r.exchangeChannel.Publish on a nil
\* *Channel panics.  On a closed connection it returns an error, and a
\* publish that succeeds changes no state of the wrapper.
PublishNil ==
  /\ app.pc = "idle"
  /\ app.ready
  /\ exch = 0
  /\ panicked' = TRUE
  /\ UNCHANGED <<open, conn, exch, connected, gen, genClosed, app, loops, calls, drops, fails, subs>>

\* Consume opens a channel on r.connection (read without the lock),
\* declares the queue, consumes and binds it.  NewChannel on a nil
\* connection dereferences it, and on a closed one fails; on a live
\* connection any of the four calls may fail, and a channel opened by then
\* stays open.  On success the subscriber goroutine ranges over the
\* deliveries of the connection.
Consume ==
  IF conn = 0
  THEN panicked' = TRUE /\ UNCHANGED <<subs, fails>>
  ELSE /\ UNCHANGED panicked
       /\ \/ /\ conn \in open
             /\ subs' = BagAdd(subs, conn)
             /\ UNCHANGED fails
          \/ /\ conn \notin open
             /\ UNCHANGED <<subs, fails>>
          \/ /\ conn \in open
             /\ ChannelFault
             /\ UNCHANGED subs

\* rbroker.Subscribe: Consume, then go range over the deliveries.
Subscribe ==
  /\ AppCall
  /\ Consume
  /\ UNCHANGED <<open, conn, exch, connected, gen, genClosed, app, loops, drops>>

\* subscriber.Unsubscribe closes the consumer channel, which closes its
\* deliveries and ends the goroutine's range.  (It is bounded by the
\* subscriptions, so it does not count as a call.)
Unsubscribe ==
  /\ app.pc = "idle"
  /\ \E c \in BagToSet(subs) : subs' = BagRemove(subs, c)
  /\ UNCHANGED <<open, conn, exch, connected, gen, genClosed, app, loops, calls, drops, fails, panicked>>

\* A closed connection closes the deliveries of its channels: the
\* subscriber goroutine's range ends.  Nothing consumes again on the new
\* connection a reconnect dials.
SubscriberEnd ==
  /\ \E c \in BagToSet(subs) :
       /\ c \notin open
       /\ subs' = BagRemove(subs, c)
  /\ UNCHANGED <<open, conn, exch, connected, gen, genClosed, app, loops, calls, drops, fails, panicked>>

-----------------------------------------------------------------------------
(* The reconnect goroutine *)

Move(l, new) == loops' = BagAdd(BagRemove(loops, l), new)

\* r.connection.NotifyClose(notifyClose), then the select reads r.close.
LoopNotify(l) ==
  /\ l.pc = "notify"
  /\ IF conn = 0
     THEN panicked' = TRUE /\ UNCHANGED loops
     ELSE Move(l, [pc |-> "wait", watch |-> conn, g |-> gen]) /\ UNCHANGED panicked
  /\ UNCHANGED <<open, conn, exch, connected, gen, genClosed, app, calls, drops, fails, subs>>

\* The select: both cases may be ready, and Go picks either.
LoopWait(l) ==
  /\ l.pc = "wait"
  /\ \/ /\ l.watch \notin open
        /\ connected' = FALSE
        /\ Move(l, [l EXCEPT !.pc = "retry", !.watch = 0])
     \/ /\ GenIsClosed(l.g)
        /\ loops' = BagRemove(loops, l)
        /\ UNCHANGED connected
  /\ UNCHANGED <<open, conn, exch, gen, genClosed, app, calls, drops, panicked, fails, subs>>

\* Mutant: the loop returns when tryConnect fails instead of retrying.
LoopDoneGiveUp(l, r, next) ==
  CASE r = "ok"    -> Move(l, [l EXCEPT !.pc = next]) /\ UNCHANGED panicked
    [] r = "err"   -> loops' = BagRemove(loops, l) /\ UNCHANGED panicked
    [] r = "panic" -> panicked' = TRUE /\ UNCHANGED loops

LoopDone(l, r, next) ==
  CASE r = "ok"    -> Move(l, [l EXCEPT !.pc = next]) /\ UNCHANGED panicked
    [] r = "err"   -> Move(l, [l EXCEPT !.pc = "retry"]) /\ UNCHANGED panicked
    [] r = "panic" -> panicked' = TRUE /\ UNCHANGED loops

\* tryConnect from the loop; on error it sleeps and tries again.
LoopDial(l) ==
  /\ l.pc = "retry"
  /\ Dial
  /\ LoopDone(l, DialResult, "chans")
  /\ UNCHANGED <<exch, connected, gen, genClosed, app, calls, drops, fails, subs>>

LoopChannels(l) ==
  /\ l.pc = "chans"
  /\ Channels
  /\ LoopDone(l, ChannelsResult, "connected")
  /\ UNCHANGED <<open, conn, connected, gen, genClosed, app, calls, drops, subs>>

LoopConnected(l) ==
  /\ l.pc = "connected"
  /\ connected' = TRUE
  /\ Move(l, [l EXCEPT !.pc = "notify"])
  /\ UNCHANGED <<open, conn, exch, gen, genClosed, app, calls, drops, panicked, fails, subs>>

-----------------------------------------------------------------------------
(* The broker side *)

\* The broker or the network closes an open connection.
Drop ==
  /\ drops < MaxDrops
  /\ \E i \in open : open' = open \ {i}
  /\ drops' = drops + 1
  /\ UNCHANGED <<conn, exch, connected, gen, genClosed, app, loops, calls, panicked, fails, subs>>

LoopStep(l) ==
  LoopNotify(l) \/ LoopWait(l) \/ LoopDial(l) \/ LoopChannels(l) \/ LoopConnected(l)

Next ==
  /\ ~panicked
  /\ \/ Connect \/ AppDial \/ AppChannels \/ AppConnected \/ Close \/ PublishNil
     \/ Subscribe \/ Unsubscribe \/ SubscriberEnd
     \/ \E l \in BagToSet(loops) : LoopStep(l)
     \/ Drop

\* A step of some reconnect goroutine; the goroutines in the bag are not
\* told apart, so fairness is on the step of any of them.
SomeLoop(A(_)) == \E l \in BagToSet(loops) : A(l)

\* tryConnect's dial, and its channels, succeed.
DialOk(l) == LoopDial(l) /\ conn' # 0
ChannelsOk(l) == LoopChannels(l) /\ exch' = conn /\ exch' # 0

\* The application's Connect, once called, runs to its end; each reconnect
\* goroutine keeps being scheduled.  The loop retries every second, and
\* the broker is assumed to accept a dial, and the channels on a live
\* connection, whenever it is retried often enough.  Drops and the
\* application's calls are not forced.
Fairness ==
  /\ WF_vars(AppDial) /\ WF_vars(AppChannels) /\ WF_vars(AppConnected)
  /\ WF_vars(SomeLoop(LoopStep))
  /\ SF_vars(SomeLoop(DialOk))
  /\ SF_vars(SomeLoop(ChannelsOk))

Spec == Init /\ [][Next]_vars /\ Fairness

-----------------------------------------------------------------------------
(* Properties *)

\* A reconnect goroutine of the current r.close has seen its connection
\* close and is retrying tryConnect.
Disconnected ==
  \E l \in BagToSet(loops) : l.pc = "retry" /\ ~GenIsClosed(l.g)

\* After the broker closes the connection, the reconnect goroutine brings
\* the wrapper back to connected, unless Close is called first (the loop
\* retries tryConnect every second and never gives up).
Reconnects == Disconnected ~> (connected \/ genClosed \/ panicked)

\* Once Close has returned, and until Connect is called again, the wrapper
\* is not connected and r.connection is not open: the reconnect goroutine
\* returns when r.close is closed instead of dialling again.
ClosedStaysClosed == genClosed => ~connected /\ conn \notin open

=============================================================================
