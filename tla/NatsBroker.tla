------------------------------ MODULE NatsBroker ------------------------------
(***************************************************************************)
(* The NATS adapter of pkg/broker/nats: Connect, Disconnect, Publish and   *)
(* Subscribe, each one call of the application's goroutine.  n.conn is     *)
(* "nil", "open" or "closed"; Close leaves the closed *nats.Conn in the    *)
(* field.  The server may refuse a connection.  The nats client's own      *)
(* reconnection after a network error is the library's and not modelled.  *)
(***************************************************************************)
EXTENDS Naturals

CONSTANT MaxFails   \* bound on the connections the server refuses

VARIABLES
  nconn,      \* n.conn
  nsubs,      \* live subscriptions
  result,     \* what the last call returned: "ok" or "err"
  fails,      \* connections refused so far
  panicked    \* a call panicked, which ends the program

nvars == <<nconn, nsubs, result, fails, panicked>>

NInit ==
  /\ nconn = "nil"
  /\ nsubs = 0
  /\ result = "ok"
  /\ fails = 0
  /\ panicked = FALSE

\* Connect: nothing when n.conn is set, closed or not; otherwise
\* opts.Connect(), whose connection is stored on success.
NConnect ==
  /\ IF nconn # "nil"
     THEN result' = "ok" /\ UNCHANGED <<nconn, fails>>
     ELSE \/ /\ fails < MaxFails
             /\ fails' = fails + 1
             /\ result' = "err"
             /\ UNCHANGED nconn
          \/ /\ nconn' = "open"
             /\ result' = "ok"
             /\ UNCHANGED fails
  /\ UNCHANGED <<nsubs, panicked>>

\* Disconnect: n.conn.Close(), which removes the subscriptions.  On a nil
\* connection it dereferences the receiver.
NDisconnect ==
  /\ IF nconn = "nil"
     THEN panicked' = TRUE /\ UNCHANGED <<nconn, nsubs>>
     ELSE nconn' = "closed" /\ nsubs' = 0 /\ UNCHANGED panicked
  /\ result' = "ok"
  /\ UNCHANGED fails

\* Publish and Subscribe call the connection: a nil one is dereferenced,
\* a closed one returns ErrConnectionClosed.
NCall(ok) ==
  CASE nconn = "nil"    -> panicked' = TRUE /\ UNCHANGED <<result, nsubs>>
    [] nconn = "closed" -> result' = "err" /\ UNCHANGED <<panicked, nsubs>>
    [] OTHER            -> result' = "ok" /\ ok /\ UNCHANGED panicked

NPublish ==
  /\ NCall(UNCHANGED nsubs)
  /\ UNCHANGED <<nconn, fails>>

\* Subscribe, or QueueSubscribe when a queue is given: the same call.
NSubscribe ==
  /\ NCall(nsubs' = nsubs + 1)
  /\ UNCHANGED <<nconn, fails>>

\* subscriber.Unsubscribe on a live subscription.
NUnsubscribe ==
  /\ nsubs > 0
  /\ nsubs' = nsubs - 1
  /\ result' = "ok"
  /\ UNCHANGED <<nconn, fails, panicked>>

=============================================================================
