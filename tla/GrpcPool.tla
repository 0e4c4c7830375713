------------------------------- MODULE GrpcPool -------------------------------
(***************************************************************************)
(* The gRPC connection pool of pkg/grpc/connection/pool: a buffered        *)
(* channel of idle connections, a factory that dials new ones, Get, the    *)
(* wrapper's Close (put) and the pool's Close.                             *)
(*                                                                         *)
(* Connections are numbered in the order the factory creates them.  Each   *)
(* client goroutine holds at most one wrapped connection at a time.  The   *)
(* pool is closed by a goroutine of its own.                               *)
(***************************************************************************)
EXTENDS Naturals, Sequences, FiniteSets

CONSTANTS
  Clients,      \* goroutines calling Get and Connection.Close
  InitialCap,   \* NewGrpcPool's initialCap
  MaxCap,       \* NewGrpcPool's maxCap: the channel's capacity
  MaxConns      \* bound on the connections the factory creates

VARIABLES
  chan,         \* the idle connections buffered in the channel, oldest first
  chanClosed,   \* close(conns) has run
  conns,        \* c.conns is not nil
  factory,      \* c.factory is not nil
  created,      \* connections 1..created have been dialled
  closed,       \* the connections whose ClientConn.Close has been called
  client,       \* client[c]: [pc, conn], conn is 0 when it holds none
  closer        \* the pool's Close: "open", "closing", "draining", "done"

vars == <<chan, chanClosed, conns, factory, created, closed, client, closer>>

Init ==
  /\ chan = [i \in 1..InitialCap |-> i]
  /\ chanClosed = FALSE
  /\ conns = TRUE
  /\ factory = TRUE
  /\ created = InitialCap
  /\ closed = {}
  /\ client = [c \in Clients |-> [pc |-> "idle", conn |-> 0]]
  /\ closer = "open"

SetClient(c, pc, conn) == client' = [client EXCEPT ![c] = [pc |-> pc, conn |-> conn]]

\* Get: getConns reads c.conns under the lock; nil means ErrClosed.
GetConns(c) ==
  /\ client[c].pc = "idle"
  /\ SetClient(c, IF conns THEN "select" ELSE "idle", 0)
  /\ UNCHANGED <<chan, chanClosed, conns, factory, created, closed, closer>>

\* The select of Get: receive an idle connection, or nil from a closed and
\* drained channel (ErrClosed), or take the default branch when it is empty.
GetSelect(c) ==
  /\ client[c].pc = "select"
  /\ IF chan # <<>>
     THEN /\ SetClient(c, "holding", Head(chan))
          /\ chan' = Tail(chan)
     ELSE /\ SetClient(c, IF chanClosed THEN "idle" ELSE "factory", 0)
          /\ UNCHANGED chan
  /\ UNCHANGED <<chanClosed, conns, factory, created, closed, closer>>

\* The default branch calls c.factory(), read without the lock: a nil
\* factory panics.
GetFactory(c) ==
  /\ client[c].pc = "factory"
  /\ SetClient(c, IF factory THEN "dial" ELSE "panic", 0)
  /\ UNCHANGED <<chan, chanClosed, conns, factory, created, closed, closer>>

\* The factory's dial, which the pool's Close may overtake, succeeds with a
\* new connection, wrapped and returned, or fails.
GetDial(c) ==
  /\ client[c].pc = "dial"
  /\ \/ /\ created < MaxConns
        /\ created' = created + 1
        /\ SetClient(c, "holding", created + 1)
     \/ /\ SetClient(c, "idle", 0)
        /\ UNCHANGED created
  /\ UNCHANGED <<chan, chanClosed, conns, factory, closed, closer>>

\* Mutant: the full-channel branch drops the connection without closing it.
PutNoCloseWhenFull(conn) ==
  IF conns /\ Len(chan) < MaxCap
  THEN /\ chan' = Append(chan, conn)
       /\ UNCHANGED closed
  ELSE /\ closed' = IF conns THEN closed ELSE closed \cup {conn}
       /\ UNCHANGED chan

\* Mutant: put without its test of c.conns, sending into a closed pool.
PutBackIgnoringClose(conn) ==
  IF Len(chan) < MaxCap
  THEN /\ chan' = Append(chan, conn)
       /\ UNCHANGED closed
  ELSE /\ closed' = closed \cup {conn}
       /\ UNCHANGED chan

\* put, pool.go's put as Connection.Close calls it: under the lock, close
\* the connection when the pool is closed or the channel is full, else
\* send it back.
PutBack(conn) ==
  IF conns /\ Len(chan) < MaxCap
  THEN /\ chan' = Append(chan, conn)
       /\ UNCHANGED closed
  ELSE /\ closed' = closed \cup {conn}
       /\ UNCHANGED chan

Release(c) ==
  /\ client[c].pc = "holding"
  /\ PutBack(client[c].conn)
  /\ SetClient(c, "idle", 0)
  /\ UNCHANGED <<chanClosed, conns, factory, created, closer>>

\* Close: under the lock, take the channel and set conns and factory to nil.
CloseTake ==
  /\ closer = "open"
  /\ conns' = FALSE
  /\ factory' = FALSE
  /\ closer' = "closing"
  /\ UNCHANGED <<chan, chanClosed, created, closed, client>>

\* close(conns), after the lock is released.
CloseChannel ==
  /\ closer = "closing"
  /\ chanClosed' = TRUE
  /\ closer' = "draining"
  /\ UNCHANGED <<chan, conns, factory, created, closed, client>>

\* One iteration of `for conn := range conns`: receive and close; the range
\* ends once the closed channel is empty.
CloseDrain ==
  /\ closer = "draining"
  /\ IF chan # <<>>
     THEN /\ closed' = closed \cup {Head(chan)}
          /\ chan' = Tail(chan)
          /\ UNCHANGED closer
     ELSE /\ closer' = "done"
          /\ UNCHANGED <<chan, closed>>
  /\ UNCHANGED <<chanClosed, conns, factory, created, client>>

\* A panic in a goroutine ends the program.
Panicked == \E c \in Clients : client[c].pc = "panic"

Next ==
  /\ ~Panicked
  /\ \/ \E c \in Clients : GetConns(c) \/ GetSelect(c) \/ GetFactory(c) \/ GetDial(c) \/ Release(c)
     \/ CloseTake \/ CloseChannel \/ CloseDrain

Spec == Init /\ [][Next]_vars

-----------------------------------------------------------------------------
(* Properties *)

\* Once the pool's Close has returned and no client holds a connection,
\* every connection ever dialled has been closed: Close drains the channel,
\* and put closes what comes back to a closed or full pool.
NoLeakAfterClose ==
  (closer = "done" /\ \A c \in Clients : client[c].pc # "holding")
    => closed = 1..created

\* Where connection i is: buffered in the channel, held by a client, or
\* closed; "fresh" when the factory has not dialled it yet.  A connection
\* found in no place, or in two, is "lost".
InChan(i) == Cardinality({k \in DOMAIN chan : chan[k] = i})
Holders(i) == {c \in Clients : client[c].pc = "holding" /\ client[c].conn = i}
PoolState(i) ==
  LET places == InChan(i) + Cardinality(Holders(i)) + (IF i \in closed THEN 1 ELSE 0)
  IN  CASE i > created  -> "fresh"
        [] places # 1   -> "lost"
        [] InChan(i) = 1 -> "idle"
        [] i \in closed  -> "closed"
        [] OTHER        -> "used"

Pool == INSTANCE ConnPool WITH Conns <- 1 .. MaxConns,
                               state <- [i \in 1 .. MaxConns |-> PoolState(i)],
                               open <- conns

\* The pool implements ConnPool: across Gets that race Close's drain, dials
\* that Close overtakes and puts into a full or closed pool, every
\* connection stays in exactly one place (never lost, never both idle and
\* held, never handed to two clients), one that is closed is never handed
\* out or put back again, and one goes back to the channel only while the
\* pool is open.
PoolRefinement == Pool!Spec

\* Get never calls a nil factory (pool.go's Get reads c.factory without the
\* lock after finding the channel empty).
NoPanic == ~Panicked

=============================================================================
